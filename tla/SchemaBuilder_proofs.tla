------------------------ MODULE SchemaBuilder_proofs ------------------------
(***************************************************************************)
(* Proofs about the schema registry, for any number of schemas, any lists  *)
(* and any tables: what SchemaGraph_proofs shows of the graph holds of      *)
(* every build.  The merge: every option is what a table says or takes     *)
(* over, the selects of one build show one version of the values file, the *)
(* registry is a fixpoint, and class queries find what extends the class.  *)
(***************************************************************************)
EXTENDS SchemaBuilder, SchemaGraph_proofs

\* Only Linearize touches the graph.
LEMMA OnlyLinearize == [BuilderNext]_vars => Linearize \/ UNCHANGED graphVars
  BY DEF BuilderNext, BuilderStep, ResolveGlobal, MergeNext, Merged, Accumulate,
         SetHierarchy, EditValuesFile, vars

\* The type invariant of the graph and the sort's invariant hold throughout
\* the build of every registry.
THEOREM SortInductive == BuilderSpec => []Inv
<1>1. BuilderInit => Inv
  BY SortInitInv, InputsAssumption DEF BuilderInit
<1>2. Inv /\ [BuilderNext]_vars => Inv'
  BY OnlyLinearize, GraphStep, GraphStutter DEF Linearize
<1> QED
  BY <1>1, <1>2, PTL DEF BuilderSpec

\* mark_resolved yields each schema once and after all its known parents,
\* whatever the lists are.
THEOREM SortsTopologically == BuilderSpec => []TopologicalOrder
<1>1. Inv => TopologicalOrder
  BY DEF Inv, SortInv, TopologicalOrder, Injective
<1> QED
  BY <1>1, SortInductive, PTL

\* next_ready runs dry only where every schema left waits for another that is
\* left, so in a registry without cycles it leaves none.
THEOREM SortStopsAtCycles == BuilderSpec => []LeftoversWait
  BY SortInductive, LeftoversAreLeft, PTL

\* The frames, the component stack and the lowest ranks of the search, in every
\* state of every build.
THEOREM SearchInductive == BuilderSpec => []SearchInv
<1>1. BuilderInit => SearchInv
  BY DEF BuilderInit, SortInit, SearchInv
<1>2. Inv /\ SearchInv /\ [BuilderNext]_vars => SearchInv'
  BY OnlyLinearize, SearchStepInv, SearchStutter DEF Linearize
<1> QED
  BY <1>1, <1>2, SortInductive, PTL DEF BuilderSpec

\* CycleDetector reports each schema on a cycle once and no other, and the sort
\* stops short of just the schemas that extend into one.
THEOREM CyclesAreFound == BuilderSpec => []CyclesExact
  BY SortInductive, SearchInductive, CyclesAreExact, PTL

-----------------------------------------------------------------------------
(* Ranges *)

Integral(options) ==
  \A k \in DOMAIN options : options[k].shape = "number" => options[k].n \in Int

OneNumber == {<<>>} \cup {<<n>> : n \in Int}
NumberOptions == [min : OneNumber, max : OneNumber, step : OneNumber]

\* Its options are those of its type, and make a range if it is a number.
Sound(def) ==
  /\ DOMAIN def.options = Attributes(def.tag)
  /\ def.tag = "number" => def.options \in NumberOptions /\ IsRange(def.options)

LEMMA NothingIsRange == Unset("number") \in NumberOptions /\ IsRange(Unset("number"))
<1>1. Unset("number") = [k \in {"min", "max", "step"} |-> <<>>]
  BY DEF Unset, Attributes
<1>2. <<>> # <<Infinite>>
  OBVIOUS
<1> QED
  BY <1>1, <1>2 DEF NumberOptions, OneNumber, IsRange

\* A value that may stand in a range under the key.
Fit(key, got) ==
  /\ got \in OneNumber /\ got # <<Infinite>>
  /\ key = "step" /\ got # <<>> => got[1] > 0

LEMMA FitsMakeRange ==
  ASSUME NEW lo, NEW hi, NEW by, Fit("min", lo), Fit("max", hi), Fit("step", by),
         lo # <<>> /\ hi # <<>> => lo[1] <= hi[1]
  PROVE  LET range == [min |-> lo, max |-> hi, step |-> by]
         IN  range \in NumberOptions /\ IsRange(range)
<1> DEFINE range == [min |-> lo, max |-> hi, step |-> by]
<1>1. range.min = lo /\ range.max = hi /\ range.step = by /\ DOMAIN range = {"min", "max", "step"}
  OBVIOUS
<1>2. range \in NumberOptions
  BY DEF Fit, NumberOptions
<1>3. \A key \in DOMAIN range : range[key] # <<Infinite>>
  BY <1>1 DEF Fit
<1> HIDE DEF range
<1>4. IsRange(range)
  BY <1>1, <1>3 DEF Fit, IsRange
<1> QED
  BY <1>2, <1>4 DEF range

LEMMA RangeFits ==
  ASSUME NEW base \in NumberOptions, IsRange(base)
  PROVE  /\ Fit("min", base.min) /\ Fit("max", base.max) /\ Fit("step", base.step)
         /\ base.min # <<>> /\ base.max # <<>> => base.min[1] <= base.max[1]
  BY DEF Fit, NumberOptions, IsRange

LEMMA ScalarIsOne ==
  ASSUME NEW options, Integral(options), NEW key, NEW inherited \in OneNumber
  PROVE  Scalar(options, key, "number", inherited) \in OneNumber
<1>1. CASE key \notin DOMAIN options
  BY <1>1 DEF Scalar
<1>2. CASE key \in DOMAIN options /\ ~Has(options, key, "number")
  BY <1>2 DEF Scalar, OneNumber
<1>3. CASE key \in DOMAIN options /\ Has(options, key, "number")
  <2>1. options[key].shape = "number" /\ options[key].n \in Int
    BY <1>3 DEF Has, Integral
  <2>2. Scalar(options, key, "number", inherited) = <<options[key].n>>
    BY <1>3, <2>1 DEF Scalar, Content
  <2> QED
    BY <2>1, <2>2 DEF OneNumber
<1> QED
  BY <1>1, <1>2, <1>3

\* SchemaNumberField::parse makes a range of a range, whatever the table says.
LEMMA ParseKeepsRanges ==
  ASSUME NEW options, Integral(options), NEW base \in NumberOptions, IsRange(base)
  PROVE  /\ ParseNumber(options, base).options \in NumberOptions
         /\ IsRange(ParseNumber(options, base).options)
<1> DEFINE Given(k) == Scalar(options, k, "number", base[k])
           Valid(k) == IF Rejected(k, Given(k)) THEN base[k] ELSE Given(k)
           valid == [min |-> Valid("min"), max |-> Valid("max"), step |-> Valid("step")]
           result == IF Crossed(valid) THEN TakenBack(valid, base) ELSE valid
<1>1. \A k \in {"min", "max", "step"} : Fit(k, base[k])
  BY RangeFits
<1>2. \A k \in {"min", "max", "step"} : Given(k) \in OneNumber
  BY <1>1, ScalarIsOne DEF Fit
<1>3. \A k \in {"min", "max", "step"} : Fit(k, Valid(k))
  <2> SUFFICES ASSUME NEW k \in {"min", "max", "step"} PROVE Fit(k, Valid(k))
    OBVIOUS
  <2>1. CASE Rejected(k, Given(k))
    BY <2>1, <1>1
  <2>2. CASE ~Rejected(k, Given(k))
    BY <2>2, <1>2 DEF Rejected, OneNumber, Fit
  <2> QED
    BY <2>1, <2>2
<1>4. ParseNumber(options, base).options = result
  BY DEF ParseNumber, Parsed
<1> HIDE DEF Given, Valid
<1> SUFFICES result \in NumberOptions /\ IsRange(result)
  BY <1>4
<1>5. PICK lo, hi, by : lo = Valid("min") /\ hi = Valid("max") /\ by = Valid("step")
  OBVIOUS
<1>6. Fit("min", lo) /\ Fit("max", hi) /\ Fit("step", by)
  BY <1>3, <1>5
<1>7. valid = [min |-> lo, max |-> hi, step |-> by]
  BY <1>5
<1> HIDE DEF valid
<1>8. CASE Crossed(valid)
  <2>1. result = [min |-> base.min, max |-> base.max, step |-> by]
    BY <1>7, <1>8 DEF TakenBack
  <2> QED
    BY <2>1, <1>6, RangeFits, FitsMakeRange
<1>9. CASE ~Crossed(valid)
  <2>1. lo # <<>> /\ hi # <<>> => lo[1] <= hi[1]
    BY <1>6, <1>7, <1>9 DEF Crossed, Fit, OneNumber
  <2> QED
    BY <2>1, <1>6, <1>7, <1>9, FitsMakeRange
<1> QED
  BY <1>8, <1>9

\* parse_options gives each attribute of the type its option, and no other.
LEMMA ParseKeepsAttributes ==
  ASSUME NEW tag, NEW options, NEW base, NEW file, DOMAIN base = Attributes(tag),
         tag = "number" => Integral(options) /\ base \in NumberOptions /\ IsRange(base)
  PROVE  DOMAIN ParseOptions(tag, options, base, file).options = Attributes(tag)
<1>1. CASE tag = "number"
  <2>1. ParseNumber(options, base).options \in NumberOptions
    BY <1>1, ParseKeepsRanges
  <2>2. DOMAIN ParseNumber(options, base).options = Attributes(tag)
    BY <1>1, <2>1 DEF NumberOptions, Attributes
  <2> QED
    BY <1>1, <2>2 DEF ParseOptions, Parsed
<1>2. CASE tag = "date"
  <2>1. DOMAIN ParseDate(options, base).options = DOMAIN base
    BY DEF ParseDate, Parsed
  <2> QED
    BY <1>2, <2>1 DEF ParseOptions, Parsed
<1>3. CASE tag = "file"
  <2>1. DOMAIN ParseFile(options, base).options = {"folders", "ext", "class"}
    BY DEF ParseFile, Parsed
  <2> QED
    BY <1>3, <2>1 DEF ParseOptions, Parsed, Attributes
<1>4. CASE tag = "select"
  <2>1. DOMAIN base = {"values"}
    BY <1>4 DEF Attributes
  <2>2. DOMAIN ParseSelect(options, base, file).options = {"values"}
    BY <2>1 DEF ParseSelect, Parsed
  <2> QED
    BY <1>4, <2>2 DEF ParseOptions, Parsed, Attributes
<1>5. CASE tag \notin {"number", "date", "file", "select"}
  BY <1>5 DEF ParseOptions, Parsed
<1> QED
  BY <1>1, <1>2, <1>3, <1>4, <1>5

\* What is taken over has the options of the type.
LEMMA OwnIsSound ==
  ASSUME NEW tag, NEW base, base # <<>> => Sound(base[1])
  PROVE  /\ DOMAIN BaseOptions(tag, base) = Attributes(tag)
         /\ tag = "number" => /\ BaseOptions(tag, base) \in NumberOptions
                              /\ IsRange(BaseOptions(tag, base))
<1>1. DOMAIN Unset(tag) = Attributes(tag)
  BY DEF Unset
<1>2. CASE base # <<>> /\ base[1].tag = tag
  BY <1>2 DEF BaseOptions, Sound
<1>3. CASE ~(base # <<>> /\ base[1].tag = tag)
  BY <1>1, <1>3, NothingIsRange DEF BaseOptions
<1> QED
  BY <1>2, <1>3

\* A field whose base has a range has one, whichever type its table gives it.
LEMMA FieldIsSound ==
  ASSUME NEW global, NEW raw, Integral(raw.options), NEW file,
         NEW base, base # <<>> => Sound(base[1])
  PROVE  Sound(FieldOf(global, raw, base, file).def)
<1> DEFINE tag == TagOf(raw, base)
           own == BaseOptions(tag, base)
           def == FieldOf(global, raw, base, file).def
<1>1. def.tag = tag /\ def.options = ParseOptions(tag, raw.options, own, file).options
  BY DEF FieldOf
<1>2. ASSUME tag = "number"
      PROVE  def.options \in NumberOptions /\ IsRange(def.options)
  <2>1. own \in NumberOptions /\ IsRange(own)
    BY <1>2, OwnIsSound
  <2>2. ParseOptions(tag, raw.options, own, file).options = ParseNumber(raw.options, own).options
    BY <1>2 DEF ParseOptions, Parsed
  <2> QED
    BY <1>1, <2>1, <2>2, ParseKeepsRanges
<1>3. DOMAIN def.options = Attributes(tag)
  BY <1>1, OwnIsSound, ParseKeepsAttributes
<1> QED
  BY <1>1, <1>2, <1>3 DEF Sound

-----------------------------------------------------------------------------
(* Options *)

LEMMA InjectiveOnto ==
  ASSUME NEW n \in Nat, NEW f \in [1..n -> 1..n],
         \A i, j \in 1..n : f[i] = f[j] => i = j
  PROVE  \A k \in 1..n : \E i \in 1..n : f[i] = k
<1>1. f \in Injection(1..n, 1..n)
  BY DEF Injection, IsInjective
<1>2. IsFiniteSet(1..n)
  BY FS_Interval
<1>3. f \in Surjection(1..n, 1..n)
  BY <1>1, <1>2, FS_Injection
<1> QED
  BY <1>3 DEF Surjection

\* In a stable sort i goes before j.
Before(numbers, i, j) == numbers[i] < numbers[j] \/ (numbers[i] = numbers[j] /\ i < j)
Ahead(numbers, i) == {j \in DOMAIN numbers : Before(numbers, j, i)}

\* To put each where as many go before it sorts, and keeps ties in their places.
LEMMA StableSort ==
  ASSUME NEW n \in Nat, NEW numbers \in [1..n -> Int]
  PROVE  /\ \A k \in 1..n : \E i \in 1..n : Cardinality(Ahead(numbers, i)) = k - 1
         /\ \A i, j, k, l \in 1..n :
              /\ Cardinality(Ahead(numbers, i)) = k - 1
              /\ Cardinality(Ahead(numbers, j)) = l - 1
              /\ k < l
              => Before(numbers, i, j)
<1> DEFINE rank == [i \in 1..n |-> Cardinality(Ahead(numbers, i)) + 1]
<1>0. DOMAIN numbers = 1..n
  OBVIOUS
<1>1. \A i \in 1..n : /\ IsFiniteSet(Ahead(numbers, i)) /\ Cardinality(Ahead(numbers, i)) \in Nat
                      /\ Cardinality(Ahead(numbers, i)) < n
  <2> SUFFICES ASSUME NEW i \in 1..n
               PROVE  /\ IsFiniteSet(Ahead(numbers, i)) /\ Cardinality(Ahead(numbers, i)) \in Nat
                      /\ Cardinality(Ahead(numbers, i)) < n
    OBVIOUS
  <2>1. IsFiniteSet(1..n) /\ Cardinality(1..n) = n
    BY FS_Interval
  <2>5. Ahead(numbers, i) \in SUBSET (1..n)
    BY <1>0 DEF Ahead
  <2>2. IsFiniteSet(Ahead(numbers, i)) /\ Cardinality(Ahead(numbers, i)) <= n
    BY <2>1, <2>5, FS_Subset
  <2>3. Cardinality(Ahead(numbers, i)) \in Nat
    BY <2>2, FS_CardinalityType
  <2>4. Ahead(numbers, i) # 1..n
    BY DEF Ahead, Before
  <2>6. Cardinality(Ahead(numbers, i)) # n
    BY <2>1, <2>4, <2>5, FS_Subset
  <2> QED
    BY <2>2, <2>3, <2>6
<1>2. ASSUME NEW i \in 1..n, NEW j \in 1..n, Before(numbers, i, j)
      PROVE  rank[i] < rank[j]
  <2>1. Ahead(numbers, i) \subseteq Ahead(numbers, j) /\ i \in Ahead(numbers, j) /\ i \notin Ahead(numbers, i)
    BY <1>0, <1>2 DEF Ahead, Before
  <2>2. Ahead(numbers, i) \in SUBSET Ahead(numbers, j) /\ Ahead(numbers, i) # Ahead(numbers, j)
    BY <2>1
  <2> HIDE DEF Ahead
  <2>3. Cardinality(Ahead(numbers, i)) <= Cardinality(Ahead(numbers, j)) /\ Cardinality(Ahead(numbers, i)) # Cardinality(Ahead(numbers, j))
    BY <1>1, <2>2, FS_Subset
  <2> QED
    BY <1>1, <2>3
<1>3. \A i, j \in 1..n : i = j \/ Before(numbers, i, j) \/ Before(numbers, j, i)
  BY DEF Before
<1>4. rank \in [1..n -> 1..n]
  BY <1>1
<1>4a. ASSUME NEW i \in 1..n, NEW k \in 1..n
      PROVE  rank[i] = k <=> Cardinality(Ahead(numbers, i)) = k - 1
  <2>1. PICK c \in Nat : c = Cardinality(Ahead(numbers, i))
    BY <1>1
  <2>2. rank[i] = c + 1
    BY <2>1
  <2> QED
    BY <2>1, <2>2
<1> HIDE DEF rank
<1>5. ASSUME NEW i \in 1..n, NEW j \in 1..n, rank[i] = rank[j]
      PROVE  i = j
  <2>1. rank[i] \in Int /\ ~(rank[i] < rank[i])
    BY <1>4
  <2>2. ~Before(numbers, i, j) /\ ~Before(numbers, j, i)
    BY <1>2, <1>5, <2>1
  <2> QED
    BY <1>3, <2>2
<1>6. \A k \in 1..n : \E i \in 1..n : rank[i] = k
  BY <1>4, <1>5, InjectiveOnto
<1>7. \A k \in 1..n : \E i \in 1..n : Cardinality(Ahead(numbers, i)) = k - 1
  BY <1>4a, <1>6
<1>8. ASSUME NEW i \in 1..n, NEW j \in 1..n, NEW k \in 1..n, NEW l \in 1..n,
             Cardinality(Ahead(numbers, i)) = k - 1, Cardinality(Ahead(numbers, j)) = l - 1, k < l
      PROVE  Before(numbers, i, j)
  <2>1. rank[i] = k /\ rank[j] = l
    BY <1>4a, <1>8
  <2>2. ~Before(numbers, j, i) /\ i # j
    BY <1>2, <1>8, <2>1
  <2> QED
    BY <1>3, <2>2
<1> QED
  BY <1>7, <1>8

\* A stable sort leaves nothing out.
LEMMA SortIsOnto ==
  ASSUME NEW n \in Nat, NEW numbers \in [1..n -> Int], NEW s \in [1..n -> 1..n],
         \A i, j \in 1..n : i < j => Before(numbers, s[i], s[j])
  PROVE  \A k \in 1..n : \E i \in 1..n : s[i] = k
<1>1. ASSUME NEW i \in 1..n, NEW j \in 1..n, s[i] = s[j]
      PROVE  i = j
  <2>1. numbers[s[i]] \in Int /\ s[i] \in Int
    OBVIOUS
  <2>2. ~Before(numbers, s[i], s[j])
    BY <1>1, <2>1 DEF Before
  <2>3. ~Before(numbers, s[j], s[i])
    BY <1>1, <2>1 DEF Before
  <2>4. ~(i < j) /\ ~(j < i)
    BY <2>2, <2>3
  <2> QED
    BY <2>4
<1> QED
  BY <1>1, InjectiveOnto

IsItems(items) ==
  /\ Len(items) \in Nat
  /\ items = [i \in 1..Len(items) |-> items[i]]
  /\ \A i \in DOMAIN items : IsItem(items[i])

LEMMA ShowsAll ==
  ASSUME NEW items, NEW entries, Len(entries) = Len(items),
         \A i \in DOMAIN items : \E j \in DOMAIN entries :
           \/ items[i] = Str(entries[j].value)
           \/ /\ items[i].shape = "object" /\ Has(items[i].map, "value", "string")
              /\ items[i].map["value"].text = entries[j].value,
         \A j, k \in DOMAIN entries :
           "order" \in DOMAIN entries[j].extra /\ j < k =>
             entries[j].extra["order"].n <= entries[k].extra["order"].n
  PROVE  Shows(items, entries)
  BY Zenon DEF Shows

LEMMA LiteralsShow ==
  ASSUME NEW items, IsItems(items), AreAll(items, "string")
  PROVE  Shows(items, Literals(items))
<1> DEFINE entries == Literals(items)
<1>1. DOMAIN items = 1..Len(items) /\ Len(items) \in Nat
  BY DEF IsItems
<1>2. entries = [i \in 1..Len(items) |-> Entry(items[i].text, items[i].text, Nothing)]
  BY <1>1 DEF Literals
<1>3. Len(entries) = Len(items) /\ DOMAIN entries = 1..Len(items)
  BY <1>1, <1>2
<1>4. \A i \in 1..Len(items) : /\ entries[i].value = items[i].text
                               /\ entries[i].extra = Nothing
                               /\ items[i] = Str(items[i].text)
  BY <1>1, <1>2 DEF Entry, AreAll, IsItems, IsItem, IsScalar
<1>5. DOMAIN Nothing = {}
  BY DEF Nothing
<1> HIDE DEF entries
<1>6. \A i \in DOMAIN items : \E j \in DOMAIN entries : items[i] = Str(entries[j].value)
  BY <1>1, <1>3, <1>4
<1>7. \A j \in DOMAIN entries : "order" \notin DOMAIN entries[j].extra
  BY <1>3, <1>4, <1>5
<1>8. \A j, k \in DOMAIN entries :
        "order" \in DOMAIN entries[j].extra /\ j < k =>
          entries[j].extra["order"].n <= entries[k].extra["order"].n
  BY <1>7
<1>9. Len(entries) = Len(items)
  BY <1>3
<1> QED
  BY <1>6, <1>8, <1>9, ShowsAll DEF entries

\* parse_inline_value_objects
LEMMA InlineShows ==
  ASSUME NEW items, IsItems(items), AreAll(items, "object"),
         ObjectEntries(items, InlineSelectors(items)).clean
  PROVE  Shows(items, ObjectEntries(items, InlineSelectors(items)).options)
<1> DEFINE n == Len(items)
           ordered == \E i \in DOMAIN items : "order" \in DOMAIN items[i].map
           by == InlineSelectors(items)
           Order(i) == items[i].map[by.order[1]].n
           Earlier(i) == {j \in DOMAIN items : Order(j) < Order(i) \/ (Order(j) = Order(i) /\ j < i)}
           At(k) == IF by.order = <<>> THEN k
                    ELSE CHOOSE i \in DOMAIN items : Cardinality(Earlier(i)) = k - 1
           numbers == [i \in 1..n |-> IF ordered THEN items[i].map["order"].n ELSE 0]
           sorted == [k \in 1..n |-> At(k)]
           entries == [k \in DOMAIN items |-> EntryOf(items[At(k)].map, by)]
<1>1. DOMAIN items = 1..n /\ n \in Nat
  BY DEF IsItems
<1>2. /\ by.value = "value" /\ by.label \in {<<>>, <<"label">>}
      /\ by.order = IF ordered THEN <<"order">> ELSE <<>>
  BY SMTT(90) DEF InlineSelectors, Selectors
<1>3. /\ \A i \in DOMAIN items : IsEntry(items[i].map, by)
      /\ ObjectEntries(items, by).options = entries
  BY ZenonT(90) DEF ObjectEntries, Parsed
<1> HIDE DEF by
<1>4. \A i \in 1..n : /\ items[i].shape = "object" /\ Has(items[i].map, "value", "string")
                      /\ ordered => Has(items[i].map, "order", "number")
                      /\ \A k \in DOMAIN items[i].map : IsScalar(items[i].map[k])
  <2> SUFFICES ASSUME NEW i \in 1..n
               PROVE  /\ items[i].shape = "object" /\ Has(items[i].map, "value", "string")
                      /\ ordered => Has(items[i].map, "order", "number")
                      /\ \A k \in DOMAIN items[i].map : IsScalar(items[i].map[k])
    OBVIOUS
  <2>1. items[i].shape = "object" /\ IsItem(items[i])
    BY SMTT(90), <1>1 DEF AreAll, IsItems
  <2>2. Has(items[i].map, "value", "string")
    BY ZenonT(90), <1>1, <1>2, <1>3 DEF IsEntry
  <2>3. ordered => "order" \in ToSet(by.order)
    BY SMTT(90), <1>2 DEF ToSet
  <2>4. ordered => Has(items[i].map, "order", "number")
    BY ZenonT(90), <1>1, <1>3, <2>3 DEF IsEntry
  <2>5. \A k \in DOMAIN items[i].map : IsScalar(items[i].map[k])
    BY <2>1 DEF IsItem
  <2> QED
    BY <2>1, <2>2, <2>4, <2>5
<1>5. numbers \in [1..n -> Int] /\ \A i \in 1..n : ordered => numbers[i] = items[i].map["order"].n
  <2>1. \A i \in 1..n : ordered => items[i].map["order"].n \in Int
    BY SMTT(90), <1>4 DEF Has, IsScalar
  <2> QED
    BY <2>1
<1> HIDE DEF numbers, ordered
<1>6. /\ sorted \in [1..n -> 1..n]
      /\ \A i, j \in 1..n : i < j => Before(numbers, sorted[i], sorted[j])
  <2>1. CASE ~ordered
    <3>1. \A i \in 1..n : sorted[i] = i /\ numbers[i] = 0
      BY <1>2, <2>1 DEF numbers
    <3>2. sorted \in [1..n -> 1..n]
      BY <3>1
    <3> QED
      BY ZenonT(90), <3>1, <3>2 DEF Before
  <2>2. CASE ordered
    <3>1. by.order # <<>> /\ by.order[1] = "order"
      BY <1>2, <2>2
    <3>2. \A i \in 1..n : Order(i) = numbers[i]
      BY <1>5, <2>2, <3>1
    <3> HIDE DEF Order
    <3>3. DOMAIN numbers = 1..n
      BY <1>5
    <3>4. \A i \in 1..n : Earlier(i) = Ahead(numbers, i)
      BY <1>1, <3>2, <3>3 DEF Ahead, Before
    <3> HIDE DEF Earlier
    <3>5. \A k \in 1..n : \E i \in DOMAIN items : Cardinality(Earlier(i)) = k - 1
      BY <1>1, <1>5, <3>4, StableSort
    <3>6. \A k \in 1..n : At(k) \in 1..n /\ Cardinality(Ahead(numbers, At(k))) = k - 1
      BY <1>1, <3>1, <3>4, <3>5
    <3> HIDE DEF At
    <3>7. \A k \in 1..n : sorted[k] = At(k)
      OBVIOUS
    <3> QED
      BY <1>1, <1>5, <3>6, <3>7, StableSort
  <2> QED
    BY ZenonT(90), <2>1, <2>2
<1>6a. \A k \in 1..n : sorted[k] = At(k)
  OBVIOUS
<1> HIDE DEF sorted, At
<1>7. \A k \in 1..n : \E i \in 1..n : sorted[i] = k
  BY <1>1, <1>5, <1>6, SortIsOnto
<1>8. /\ Len(entries) = n /\ DOMAIN entries = 1..n
      /\ \A i \in 1..n : entries[i] = EntryOf(items[sorted[i]].map, by)
  BY <1>1, <1>6a
<1> HIDE DEF entries
<1>9. \A i \in 1..n :
        /\ entries[i].value = items[sorted[i]].map["value"].text
        /\ DOMAIN entries[i].extra \subseteq DOMAIN items[sorted[i]].map
        /\ \A k \in DOMAIN entries[i].extra : entries[i].extra[k] = items[sorted[i]].map[k]
        /\ "order" \in DOMAIN items[sorted[i]].map => "order" \in DOMAIN entries[i].extra
  <2> SUFFICES ASSUME NEW i \in 1..n
               PROVE  /\ entries[i].value = items[sorted[i]].map["value"].text
                      /\ DOMAIN entries[i].extra \subseteq DOMAIN items[sorted[i]].map
                      /\ \A k \in DOMAIN entries[i].extra : entries[i].extra[k] = items[sorted[i]].map[k]
                      /\ "order" \in DOMAIN items[sorted[i]].map => "order" \in DOMAIN entries[i].extra
    OBVIOUS
  <2> DEFINE map == items[sorted[i]].map
  <2>1. entries[i] = EntryOf(map, by)
    BY <1>8
  <2>2. entries[i].value = map[by.value].text
    BY <2>1 DEF EntryOf, Entry
  <2>3. entries[i].extra = [k \in DOMAIN map \ ({by.value} \cup ToSet(by.label)) |-> map[k]]
    BY <2>1 DEF EntryOf, Entry
  <2>4. DOMAIN entries[i].extra = DOMAIN map \ ({by.value} \cup ToSet(by.label))
    BY <2>3
  <2>5. "order" \notin {by.value} \cup ToSet(by.label)
    BY <1>2 DEF ToSet
  <2> QED
    BY <1>2, <2>2, <2>3, <2>4, <2>5
<1>10. ASSUME NEW i \in 1..n
       PROVE  \E j \in 1..n : /\ items[i].shape = "object" /\ Has(items[i].map, "value", "string")
                              /\ items[i].map["value"].text = entries[j].value
  BY SMTT(90), <1>4, <1>7, <1>9
<1>11. ASSUME NEW j \in 1..n, NEW k \in 1..n, "order" \in DOMAIN entries[j].extra, j < k
       PROVE  entries[j].extra["order"].n <= entries[k].extra["order"].n
  <2>1. "order" \in DOMAIN items[sorted[j]].map /\ sorted[j] \in 1..n /\ sorted[k] \in 1..n
    BY <1>6, <1>9, <1>11
  <2>2. ordered
    BY <1>1, <2>1 DEF ordered
  <2>3. "order" \in DOMAIN items[sorted[k]].map
    BY <1>4, <2>1, <2>2 DEF Has
  <2>4. /\ entries[j].extra["order"].n = numbers[sorted[j]]
        /\ entries[k].extra["order"].n = numbers[sorted[k]]
    <3>1. "order" \in DOMAIN entries[k].extra
      BY <1>9, <2>3
    <3>2. /\ entries[j].extra["order"] = items[sorted[j]].map["order"]
          /\ entries[k].extra["order"] = items[sorted[k]].map["order"]
      BY <1>9, <1>11, <3>1
    <3> QED
      BY <1>5, <2>1, <2>2, <3>2
  <2>5. numbers[sorted[j]] <= numbers[sorted[k]]
    <3>1. Before(numbers, sorted[j], sorted[k])
      BY <1>6, <1>11
    <3>2. numbers[sorted[j]] \in Int /\ numbers[sorted[k]] \in Int
      BY <1>5, <2>1
    <3> QED
      BY <3>1, <3>2 DEF Before
  <2> QED
    BY <2>4, <2>5
<1>12. ASSUME NEW i \in DOMAIN items
       PROVE  \E j \in DOMAIN entries :
                /\ items[i].shape = "object" /\ Has(items[i].map, "value", "string")
                /\ items[i].map["value"].text = entries[j].value
  BY <1>1, <1>8, <1>10
<1>13. ASSUME NEW j \in DOMAIN entries, NEW k \in DOMAIN entries,
              "order" \in DOMAIN entries[j].extra, j < k
       PROVE  entries[j].extra["order"].n <= entries[k].extra["order"].n
  BY <1>8, <1>11, <1>13
<1>14. Len(entries) = Len(items)
  BY <1>8
<1>15. Shows(items, entries)
  BY <1>12, <1>13, <1>14, ShowsAll
<1>16. entries = ObjectEntries(items, InlineSelectors(items)).options
  BY <1>3 DEF by
<1> QED
  BY <1>15, <1>16

\* What a table of values makes of one option; own is what would be taken over.
Minds(untyped, key, options, own, got) ==
  IF key \notin DOMAIN options THEN got = own
  ELSE \/ Says(key, options[key], got)
       \/ (untyped \/ options[key] = List(<<>>)) /\ got = own
       \/ untyped /\ IF key \in {"format", "ext"} THEN options[key].shape # "string"
                     ELSE key \in {"min", "max", "step"} /\ options[key].shape # "number"

AreValues(options) == \A k \in DOMAIN options : IsValue(options[k])

LEMMA ScalarMinds ==
  ASSUME NEW untyped \in BOOLEAN, NEW options, AreValues(options), NEW own,
         NEW key \in {"format", "ext"},
         untyped \/ (key \in DOMAIN options => Has(options, key, "string"))
  PROVE  Minds(untyped, key, options, own, Scalar(options, key, "string", own))
<1> DEFINE got == Scalar(options, key, "string", own)
<1>1. CASE key \notin DOMAIN options
  BY <1>1 DEF Scalar, Minds
<1>2. CASE key \in DOMAIN options /\ ~Has(options, key, "string")
  <2>1. untyped /\ got = <<>> /\ options[key].shape # "string"
    BY <1>2 DEF Scalar, Has
  <2> QED
    BY <1>2, <2>1 DEF Minds
<1>3. CASE key \in DOMAIN options /\ Has(options, key, "string")
  <2>1. options[key].shape = "string" /\ options[key] = Str(options[key].text)
    BY <1>3 DEF Has, AreValues, IsValue, IsItem, IsScalar
  <2>2. got = <<options[key].text>>
    BY <1>3, <2>1 DEF Scalar, Content
  <2> HIDE DEF got
  <2>3. got # <<>> /\ options[key] = Str(got[1])
    BY <2>1, <2>2
  <2>4. Says(key, options[key], got)
    BY <2>3 DEF Says
  <2> QED
    BY <1>3, <2>4 DEF Minds, got
<1> QED
  BY <1>1, <1>2, <1>3

LEMMA StringsMind ==
  ASSUME NEW untyped \in BOOLEAN, NEW options, AreValues(options), NEW own,
         NEW key \in {"folders", "class"},
         untyped \/ (key \in DOMAIN options => IsStringList(options[key]))
  PROVE  Minds(untyped, key, options, own, Strings(options, key, own))
<1> DEFINE got == Strings(options, key, own)
<1>1. CASE key \notin DOMAIN options
  BY <1>1 DEF Strings, Minds
<1>2. CASE key \in DOMAIN options /\ ~IsStringList(options[key])
  BY <1>2 DEF Strings, Minds
<1>3. CASE key \in DOMAIN options /\ IsStringList(options[key])
  <2> DEFINE items == options[key].items
  <2>1. /\ options[key] = List(items) /\ Len(items) \in Nat
        /\ items = [i \in 1..Len(items) |-> items[i]]
        /\ \A i \in DOMAIN items : IsItem(items[i]) /\ items[i].shape = "string"
    BY <1>3 DEF AreValues, IsValue, IsStringList, AreAll
  <2>2. got = [i \in DOMAIN items |-> items[i].text]
    BY <1>3 DEF Strings
  <2>3. DOMAIN got = DOMAIN items /\ \A i \in DOMAIN items : Str(got[i]) = items[i]
    BY <2>1, <2>2 DEF IsItem, IsScalar
  <2>4. [i \in DOMAIN got |-> Str(got[i])] = items
    BY <2>1, <2>3
  <2>5. Says(key, options[key], got)
    BY <2>1, <2>4 DEF Says
  <2> QED
    BY <1>3, <2>5 DEF Minds
<1> QED
  BY <1>1, <1>2, <1>3

\* What is left of a value of the wrong shape, and what is not fit for a range.
LEMMA NumberMinds ==
  ASSUME NEW untyped \in BOOLEAN, NEW options, AreValues(options),
         NEW own \in NumberOptions, IsRange(own),
         untyped \/ ParseNumber(options, own).clean, NEW key \in {"min", "max", "step"}
  PROVE  Minds(untyped, key, options, own[key], ParseNumber(options, own).options[key])
<1> DEFINE Given(k) == Scalar(options, k, "number", own[k])
           Valid(k) == IF Rejected(k, Given(k)) THEN own[k] ELSE Given(k)
           valid == [min |-> Valid("min"), max |-> Valid("max"), step |-> Valid("step")]
           got == ParseNumber(options, own).options[key]
<1>1. /\ got = (IF Crossed(valid) THEN TakenBack(valid, own) ELSE valid)[key]
      /\ DOMAIN own = {"min", "max", "step"}
      /\ ParseNumber(options, own).clean =>
           /\ key \in DOMAIN options => Has(options, key, "number")
           /\ ~Rejected(key, Given(key))
           /\ ~Crossed(valid)
  <2>1. DOMAIN own = {"min", "max", "step"}
    BY DEF NumberOptions
  <2> QED
    BY <2>1 DEF ParseNumber, Parsed
<1>2. Fit(key, own[key])
  BY RangeFits
<1>3. got = Valid(key) \/ (Crossed(valid) /\ got = own[key])
  <2>1. DOMAIN valid = {"min", "max", "step"} /\ valid[key] = Valid(key)
    OBVIOUS
  <2> HIDE DEF valid
  <2>2. CASE Crossed(valid)
    <3>1. TakenBack(valid, own)[key] = IF key = "step" THEN valid[key] ELSE own[key]
      BY <2>1 DEF TakenBack
    <3> QED
      BY <1>1, <2>1, <2>2, <3>1
  <2>3. CASE ~Crossed(valid)
    BY <1>1, <2>1, <2>3
  <2> QED
    BY <2>2, <2>3
<1>4. CASE Crossed(valid) /\ got = own[key]
  BY <1>1, <1>4 DEF Minds
<1> HIDE DEF valid
<1>5. CASE got = Valid(key)
  <2>1. CASE key \notin DOMAIN options
    BY <1>5, <2>1 DEF Scalar, Minds
  <2>2. CASE key \in DOMAIN options /\ ~Has(options, key, "number")
    <3>1. untyped /\ Given(key) = <<>> /\ options[key].shape # "number"
      BY <1>1, <2>2 DEF Scalar, Has
    <3>2. got = <<>>
      BY <1>5, <3>1 DEF Rejected
    <3> QED
      BY <2>2, <3>1, <3>2 DEF Minds
  <2>3. CASE key \in DOMAIN options /\ Has(options, key, "number") /\ Rejected(key, Given(key))
    <3>1. untyped /\ got = own[key]
      BY <1>1, <1>5, <2>3
    <3> QED
      BY <2>3, <3>1 DEF Minds
  <2>4. CASE key \in DOMAIN options /\ Has(options, key, "number") /\ ~Rejected(key, Given(key))
    <3>1. options[key].shape = "number" /\ options[key] = Num(options[key].n)
      BY <2>4 DEF Has, AreValues, IsValue, IsItem, IsScalar
    <3>2. got = <<options[key].n>>
      BY <1>5, <2>4, <3>1 DEF Scalar, Content
    <3> HIDE DEF got
    <3>3. got # <<>> /\ options[key] = Num(got[1])
      BY <3>1, <3>2
    <3>4. Says(key, options[key], got)
      BY <3>3 DEF Says
    <3> QED
      BY <2>4, <3>4 DEF Minds, got
  <2> QED
    BY <2>1, <2>2, <2>3, <2>4
<1> QED
  BY <1>3, <1>4, <1>5

\* The entries of a list that is read without a mistake show all its items.
LEMMA ListShows ==
  ASSUME NEW items, IsItems(items), ListEntries(items).clean
  PROVE  Shows(items, ListEntries(items).options)
<1>1. CASE AreAll(items, "string")
  <2>1. ListEntries(items) = Parsed(Literals(items), TRUE)
    <3>1. CASE items = <<>>
      BY <1>1, <3>1 DEF ListEntries
    <3>2. CASE items # <<>>
      <4>1. Len(items) # 0
        BY <3>2 DEF IsItems
      <4>2. 1 \in DOMAIN items
        BY <4>1 DEF IsItems
      <4>3. ~AreAll(items, "object")
        BY <1>1, <4>2 DEF AreAll
      <4> QED
        BY <1>1, <4>3 DEF ListEntries
    <3> QED
      BY <3>1, <3>2
  <2>2. ListEntries(items).options = Literals(items)
    BY <2>1 DEF Parsed
  <2> QED
    BY <1>1, <2>2, LiteralsShow
<1>2. CASE ~AreAll(items, "string") /\ AreAll(items, "object") /\ items # <<>>
  <2>1. ListEntries(items) = ObjectEntries(items, InlineSelectors(items))
    BY <1>2 DEF ListEntries
  <2> QED
    BY <1>2, <2>1, InlineShows
<1>3. CASE ~AreAll(items, "string") /\ ~(AreAll(items, "object") /\ items # <<>>)
  BY <1>3 DEF ListEntries, Parsed
<1> QED
  BY <1>1, <1>2, <1>3

LEMMA SelectMinds ==
  ASSUME NEW untyped \in BOOLEAN, NEW options, AreValues(options), NEW own, NEW file,
         untyped \/ ParseSelect(options, own, file).clean
  PROVE  Minds(untyped, "values", options, own.values,
               ParseSelect(options, own, file).options.values)
<1> DEFINE given == options["values"]
           parsed == CASE given.shape = "list"   -> ListEntries(given.items)
                       [] given.shape = "object" -> FileEntries(given.map, file)
                       [] OTHER -> Parsed(<<>>, FALSE)
           result == ParseSelect(options, own, file)
<1>1. CASE "values" \notin DOMAIN options \/ given = List(<<>>)
  <2>1. result.options = own
    BY <1>1 DEF ParseSelect, Parsed
  <2> QED
    BY <1>1, <2>1 DEF Minds
<1>2. CASE ~("values" \notin DOMAIN options \/ given = List(<<>>))
  <2>1. result = Parsed([values |-> IF parsed.clean THEN parsed.options ELSE own.values], parsed.clean)
    BY <1>2 DEF ParseSelect
  <2>2. /\ result.options.values = IF parsed.clean THEN parsed.options ELSE own.values
        /\ result.clean = parsed.clean
    BY <2>1 DEF Parsed
  <2>3. ASSUME parsed.clean PROVE Says("values", given, parsed.options)
    <3>1. given.shape \in {"list", "object"}
      BY <2>3 DEF Parsed
    <3>2. CASE given.shape = "object"
      BY <3>2 DEF Says
    <3>3. CASE given.shape = "list"
      <4>1. parsed = ListEntries(given.items)
        BY <3>3
      <4>2. IsValue(given)
        BY <1>2 DEF AreValues
      <4>3. IsItems(given.items)
        BY <3>3, <4>2 DEF IsValue, IsItems
      <4>4. Shows(given.items, parsed.options)
        BY <2>3, <4>1, <4>3, ListShows
      <4> QED
        BY <3>3, <4>4 DEF Says
    <3> QED
      BY <3>1, <3>2, <3>3
  <2> QED
    BY <1>2, <2>2, <2>3 DEF Minds
<1> QED
  BY <1>1, <1>2

\* A field that builds has options that its table says or that are taken over.
LEMMA ParseMinds ==
  ASSUME NEW tag, NEW options, AreValues(options), NEW own, NEW file, NEW untyped \in BOOLEAN,
         tag = "number" => own \in NumberOptions /\ IsRange(own),
         DOMAIN own = Attributes(tag),
         untyped \/ ParseOptions(tag, options, own, file).clean,
         NEW key \in Attributes(tag)
  PROVE  Minds(untyped, key, options, own[key], ParseOptions(tag, options, own, file).options[key])
<1> DEFINE got == ParseOptions(tag, options, own, file).options
<1>1. CASE tag = "number"
  <2>1. got = ParseNumber(options, own).options /\ key \in {"min", "max", "step"}
    BY <1>1 DEF ParseOptions, Parsed, Attributes
  <2>2. untyped \/ ParseNumber(options, own).clean
    BY <1>1 DEF ParseOptions, Parsed
  <2> QED
    BY <1>1, <2>1, <2>2, NumberMinds
<1>2. CASE tag = "date"
  <2>1. got = ParseDate(options, own).options /\ key = "format" /\ DOMAIN own = {"format"}
    BY <1>2 DEF ParseOptions, Parsed, Attributes
  <2>2. got["format"] = Scalar(options, "format", "string", own["format"])
    BY <2>1 DEF ParseDate, Parsed
  <2>3. untyped \/ ("format" \in DOMAIN options => Has(options, "format", "string"))
    BY <1>2 DEF ParseOptions, ParseDate, Parsed
  <2> QED
    BY <2>1, <2>2, <2>3, ScalarMinds
<1>3. CASE tag = "file"
  <2>1. got = ParseFile(options, own).options /\ key \in {"folders", "ext", "class"}
    BY <1>3 DEF ParseOptions, Parsed, Attributes
  <2>2. untyped \/ ParseFile(options, own).clean
    BY <1>3 DEF ParseOptions, Parsed
  <2>3. CASE key = "ext"
    BY <2>1, <2>2, <2>3, ScalarMinds DEF ParseFile, Parsed
  <2>4. CASE key \in {"folders", "class"}
    <3>1. got[key] = Strings(options, key, own[key])
      BY <2>1, <2>4 DEF ParseFile, Parsed
    <3>2. untyped \/ (key \in DOMAIN options => IsStringList(options[key]))
      BY <2>2, <2>4 DEF ParseFile, Parsed
    <3> QED
      BY <2>4, <3>1, <3>2, StringsMind
  <2> QED
    BY <2>1, <2>3, <2>4
<1>4. CASE tag = "select"
  <2>1. got = ParseSelect(options, own, file).options /\ key = "values"
    BY <1>4 DEF ParseOptions, Parsed, Attributes
  <2>2. untyped \/ ParseSelect(options, own, file).clean
    BY <1>4 DEF ParseOptions, Parsed
  <2> QED
    BY <2>1, <2>2, SelectMinds
<1>5. CASE tag \notin {"number", "date", "file", "select"}
  BY <1>5 DEF Attributes
<1> QED
  BY <1>1, <1>2, <1>3, <1>4, <1>5

LEMMA FieldHolds ==
  ASSUME NEW global, NEW raw, AreValues(raw.options), NEW file,
         Base(raw) # <<>> => Sound(Base(raw)[1]),
         FieldOf(global, raw, Base(raw), file).ok
  PROVE  TableHolds(raw, FieldOf(global, raw, Base(raw), file).def)
<1> DEFINE base == Base(raw)
           tag == TagOf(raw, base)
           own == BaseOptions(tag, base)
           def == FieldOf(global, raw, base, file).def
           untyped == raw.type = Untyped
<1>1. def.tag = tag /\ def.options = ParseOptions(tag, raw.options, own, file).options
  BY DEF FieldOf
<1>2. untyped \/ ParseOptions(tag, raw.options, own, file).clean
  BY DEF FieldOf
<1>3. /\ DOMAIN own = Attributes(tag)
      /\ tag = "number" => own \in NumberOptions /\ IsRange(own)
  BY OwnIsSound
<1>4. untyped \in BOOLEAN
  OBVIOUS
<1> HIDE DEF untyped, own, tag
<1>5. \A key \in Attributes(tag) : Minds(untyped, key, raw.options, own[key], def.options[key])
  BY <1>1, <1>2, <1>3, <1>4, ParseMinds
<1>6. \A key \in Attributes(tag) :
        own[key] = IF base # <<>> /\ base[1].tag = tag THEN base[1].options[key] ELSE <<>>
  BY DEF own, BaseOptions, Unset
<1> HIDE DEF def, base
<1> QED
  BY <1>1, <1>5, <1>6 DEF TableHolds, Misshapen, Minds, untyped, base, def

-----------------------------------------------------------------------------
(* The registry *)

SoundFields(fields) == \A f \in DOMAIN fields : Sound(fields[f])

\* What the merge maintains: only schemas before the next are resolved, and so
\* is what their tables refer to.
RegistryInv ==
  /\ \E input \in Inputs : declared = input[2]
  /\ merged \in Nat
  /\ stage \in {"global", "graph"} => merged = 0
  /\ stage = "global" => DOMAIN resolved = {}
  /\ stage = "graph" => DOMAIN resolved \subseteq {Global}
  /\ stage = "merge" => DOMAIN resolved \subseteq {Global} \cup {visited[i] : i \in 1..merged}
  /\ DOMAIN resolved \subseteq All
  /\ \A s \in DOMAIN resolved : SoundFields(resolved[s].fields)

LEMMA TablesAreTables ==
  ASSUME RegistryInv, NEW s \in All
  PROVE  AreTables(declared.own[s])
  BY InputsAssumption DEF RegistryInv

LEMMA InheritedSound ==
  ASSUME RegistryInv, Inv, NEW n \in Names
  PROVE  SoundFields(Inherited(n))
<1> DEFINE Bears(i, f) == f \in DOMAIN ParentAt(n, i).fields
           Heirlooms == UNION {DOMAIN ParentAt(n, i).fields : i \in Live(n)}
           Giver(f) == CHOOSE i \in Live(n) :
                         Bears(i, f) /\ \A j \in Live(n) : Bears(j, f) => i <= j
<1>1. Inherited(n) = [f \in Heirlooms |-> ParentAt(n, Giver(f)).fields[f]]
  BY DEF Inherited
<1>2. Live(n) \subseteq Nat
  BY DEF Live, Inv, TypeOK
<1>3. ASSUME NEW f \in Heirlooms
      PROVE  Giver(f) \in Live(n) /\ Bears(Giver(f), f)
  <2> DEFINE T == {i \in Live(n) : Bears(i, f)}
  <2>1. T \subseteq Nat /\ T # {}
    BY <1>2
  <2>2. \E x \in T : \A y \in T : x <= y
    BY <2>1, LeastNatural
  <2>3. \E i \in Live(n) : Bears(i, f) /\ \A j \in Live(n) : Bears(j, f) => i <= j
    BY <2>2
  <2> QED
    BY <2>3
<1>4. ASSUME NEW f \in Heirlooms
      PROVE  Sound(ParentAt(n, Giver(f)).fields[f])
  BY ZenonT(90), <1>3, <1>4 DEF Live, Resolved, ParentAt, RegistryInv, SoundFields
<1> QED
  BY <1>1, <1>4 DEF SoundFields

\* Where the tables build, the position of a table is found by its name.
LEMMA BuiltAt ==
  ASSUME NEW s, AreTables(declared.own[s]), NEW i \in DOMAIN declared.own[s]
  PROVE  LET table == declared.own[s][i]
         IN  /\ table.name \in DOMAIN Built(s)
             /\ Built(s)[table.name] = BuildOf(s, table.raw).def
<1>1. (CHOOSE j \in DOMAIN declared.own[s] : declared.own[s][j].name = declared.own[s][i].name) = i
  BY DEF AreTables
<1> QED
  BY ZenonT(90), <1>1 DEF Built

LEMMA BaseSound ==
  ASSUME RegistryInv, NEW raw, NEW ancestors, HasBase(raw, ancestors)
  PROVE  Base(raw) # <<>> => Sound(Base(raw)[1])
  BY DEF Base, HasBase, Resolved, RegistryInv, SoundFields

LEMMA BuiltSound ==
  ASSUME RegistryInv, NEW s \in All, NEW ancestors, BuildsAll(s, ancestors)
  PROVE  SoundFields(Built(s))
<1>1. AreTables(declared.own[s])
  BY TablesAreTables
<1>2. ASSUME NEW i \in DOMAIN declared.own[s]
      PROVE  Sound(Built(s)[declared.own[s][i].name])
  <2> DEFINE raw == declared.own[s][i].raw
  <2>1. HasBase(raw, ancestors)
    BY SMTT(90) DEF BuildsAll, Builds
  <2>2. Integral(raw.options)
    BY ZenonT(90), <1>1 DEF AreTables, Integral, IsValue, IsItem, IsScalar
  <2>3. Sound(BuildOf(s, raw).def)
    BY <2>1, <2>2, BaseSound, FieldIsSound DEF BuildOf
  <2> QED
    BY <1>1, <2>3, BuiltAt
<1>3. DOMAIN Built(s) = {declared.own[s][i].name : i \in DOMAIN declared.own[s]}
  BY DEF Built
<1> QED
  BY <1>2, <1>3 DEF SoundFields

\* merge makes sound fields of sound fields.
LEMMA EffectiveSound ==
  ASSUME RegistryInv, NEW s \in All, NEW inherited, SoundFields(inherited), NEW ancestors,
         Effective(s, inherited, ancestors) # Failed
  PROVE  SoundFields(Effective(s, inherited, ancestors).fields)
<1>1. BuildsAll(s, ancestors)
  BY DEF Effective
<1>2. Effective(s, inherited, ancestors).fields = Override(inherited, Built(s))
  BY DEF Effective, Schema
<1>3. SoundFields(Built(s))
  BY <1>1, BuiltSound
<1> QED
  BY <1>2, <1>3 DEF SoundFields, Override

LEMMA MergeSound ==
  ASSUME RegistryInv, Inv, NEW n \in Names, Merge(n) # Failed
  PROVE  SoundFields(Merge(n).fields)
<1>1. SoundFields(Without(Inherited(n), declared.excludes[n]))
  BY InheritedSound DEF SoundFields, Without
<1> QED
  BY <1>1, EffectiveSound DEF Merge, All

LEMMA RegistryInit == BuilderInit => RegistryInv
<1> SUFFICES ASSUME BuilderInit PROVE RegistryInv
  OBVIOUS
<1>1. DOMAIN resolved = {}
  BY DEF BuilderInit
<1> QED
  BY <1>1 DEF BuilderInit, RegistryInv

\* A schema joins the registry: the others stay, and its fields are sound.
Joins(n, schema) ==
  /\ n \in All /\ n \notin DOMAIN resolved
  /\ resolved' = With(n, schema)
  /\ SoundFields(schema.fields)

LEMMA JoinKeepsSound ==
  ASSUME RegistryInv, NEW n, NEW schema, Joins(n, schema)
  PROVE  /\ DOMAIN resolved' = DOMAIN resolved \cup {n}
         /\ DOMAIN resolved' \subseteq All
         /\ \A s \in DOMAIN resolved' : SoundFields(resolved'[s].fields)
<1>1. resolved' = [t \in DOMAIN resolved \cup {n} |-> IF t = n THEN schema ELSE resolved[t]]
  BY DEF Joins, With
<1> QED
  BY <1>1 DEF Joins, RegistryInv

\* The next schema of the order is not resolved yet.
LEMMA NextIsNew ==
  ASSUME Inv, RegistryInv, stage = "merge", merged < Len(visited)
  PROVE  /\ visited[merged + 1] \in Names
         /\ visited[merged + 1] \notin DOMAIN resolved
<1>1. merged + 1 \in DOMAIN visited /\ 1..merged \subseteq DOMAIN visited
  BY DEF RegistryInv, Inv, TypeOK
<1>2. visited[merged + 1] \in Names
  BY <1>1 DEF Inv, TypeOK
<1>3. \A i \in 1..merged : visited[i] # visited[merged + 1]
  BY <1>1 DEF Inv, SortInv, Injective, RegistryInv
<1> QED
  BY <1>2, <1>3, NamesAssumption DEF RegistryInv

\* What resolve_global and a round of the merge add.
LEMMA GlobalJoins ==
  ASSUME RegistryInv, ResolveGlobal
  PROVE  \/ UNCHANGED resolved
         \/ /\ stage' = "graph"
            /\ Joins(Global, Effective(Global, NoFields, {}))
            /\ BuildsAll(Global, {})
<1>1. Global \in All /\ Global \notin DOMAIN resolved
  BY DEF All, ResolveGlobal, RegistryInv
<1>2. SoundFields(NoFields)
  BY DEF SoundFields, NoFields
<1>3. CASE UNCHANGED resolved
  BY <1>3
<1>4. CASE /\ Effective(Global, NoFields, {}) # Failed
           /\ stage' = "graph" /\ resolved' = With(Global, Effective(Global, NoFields, {}))
  <2>1. SoundFields(Effective(Global, NoFields, {}).fields)
    BY <1>1, <1>2, <1>4, EffectiveSound
  <2>2. BuildsAll(Global, {})
    BY <1>4 DEF Effective
  <2> QED
    BY <1>1, <1>4, <2>1, <2>2 DEF Joins
<1> QED
  BY <1>3, <1>4 DEF ResolveGlobal

LEMMA MergeJoins ==
  ASSUME Inv, RegistryInv, MergeNext
  PROVE  LET n == visited[merged + 1]
         IN  UNCHANGED resolved \/ (Joins(n, Merge(n)) /\ BuildsAll(n, Ancestors(n)))
<1> DEFINE n == visited[merged + 1]
<1>1. n \in Names /\ n \notin DOMAIN resolved
  BY NextIsNew DEF MergeNext
<1>2. CASE UNCHANGED resolved
  BY <1>2
<1>3. CASE Merge(n) # Failed /\ resolved' = With(n, Merge(n))
  <2>1. SoundFields(Merge(n).fields)
    BY <1>1, <1>3, MergeSound
  <2>2. BuildsAll(n, Ancestors(n))
    BY <1>3 DEF Merge, Effective
  <2> QED
    BY <1>1, <1>3, <2>1, <2>2 DEF Joins, All
<1> QED
  BY <1>2, <1>3 DEF MergeNext

LEMMA RegistryStep ==
  ASSUME Inv, RegistryInv, [BuilderNext]_vars
  PROVE  RegistryInv'
<1>1. CASE ResolveGlobal
  <2>1. merged' = 0 /\ declared' = declared /\ stage' \in {"graph", "failed"}
    BY <1>1 DEF ResolveGlobal, RegistryInv
  <2>2. CASE UNCHANGED resolved
    BY <1>1, <2>1, <2>2 DEF ResolveGlobal, RegistryInv
  <2>3. CASE Joins(Global, Effective(Global, NoFields, {}))
    <3>1. DOMAIN resolved' = {Global}
      BY <1>1, <2>3, JoinKeepsSound DEF ResolveGlobal, RegistryInv
    <3> QED
      BY <2>1, <2>3, <3>1, JoinKeepsSound DEF RegistryInv
  <2> QED
    BY <1>1, <2>2, <2>3, GlobalJoins
<1>2. CASE Linearize
  <2>1. stage = "graph" /\ stage' \in {"graph", "merge", "failed"}
    <3>1. stage' = CASE phase' = "sorted" -> "merge"
                     [] phase' = "cyclic" -> "failed"
                     [] OTHER -> stage
      BY <1>2 DEF Linearize
    <3> QED
      BY <1>2, <3>1, Zenon DEF Linearize
  <2> QED
    BY <1>2, <2>1 DEF Linearize, registryVars, RegistryInv
<1>3. CASE MergeNext
  <2> DEFINE n == visited[merged + 1]
  <2>1. /\ merged' = merged + 1 /\ merged \in Nat
        /\ stage = "merge" /\ UNCHANGED <<declared, stage, visited>>
    BY <1>3 DEF MergeNext, RegistryInv, graphVars, sortVars
  <2>2. n \in {visited[i] : i \in 1..merged + 1}
    BY <2>1
  <2>3. {visited[i] : i \in 1..merged} \subseteq {visited[i] : i \in 1..merged + 1}
    BY <2>1
  <2>4. CASE UNCHANGED resolved
    BY <2>1, <2>3, <2>4 DEF RegistryInv
  <2>5. CASE Joins(n, Merge(n))
    <3>1. DOMAIN resolved' = DOMAIN resolved \cup {n}
      BY <2>5, JoinKeepsSound
    <3>2. DOMAIN resolved' \subseteq {Global} \cup {visited[i] : i \in 1..merged + 1}
      BY <2>1, <2>2, <2>3, <3>1 DEF RegistryInv
    <3>3. /\ DOMAIN resolved' \subseteq All
          /\ \A s \in DOMAIN resolved' : SoundFields(resolved'[s].fields)
      BY <2>5, JoinKeepsSound
    <3>4. DOMAIN resolved' \subseteq {Global} \cup {visited'[i] : i \in 1..merged'}
      BY <2>1, <3>2
    <3> QED
      BY <2>1, <3>3, <3>4 DEF RegistryInv, SoundFields, Sound, IsRange
  <2> QED
    BY <1>3, <2>4, <2>5, MergeJoins
<1>4. CASE Merged
  BY <1>4 DEF Merged, registryVars, RegistryInv
<1>5. CASE Accumulate
  BY <1>5 DEF Accumulate, RegistryInv
<1>6. CASE SetHierarchy
  BY <1>6 DEF SetHierarchy, RegistryInv
<1>7. CASE EditValuesFile
  BY <1>7 DEF EditValuesFile, graphVars, sortVars, RegistryInv
<1>8. CASE UNCHANGED vars
  BY <1>8 DEF vars, registryVars, graphVars, sortVars, RegistryInv
<1> QED
  BY <1>1, <1>2, <1>3, <1>4, <1>5, <1>6, <1>7, <1>8 DEF BuilderNext, BuilderStep

-----------------------------------------------------------------------------

LEMMA RegistryInductive == BuilderSpec => []RegistryInv
  BY RegistryInit, RegistryStep, SortInductive, PTL DEF BuilderSpec

\* However many tables and references make up a number's range, and whatever
\* is wrong in them, it is finite and not empty.
THEOREM RangesAreRanges == BuilderSpec => []RangesHold
<1>1. RegistryInv => RangesHold
  BY DEF RegistryInv, SoundFields, Sound, RangesHold
<1> QED
  BY <1>1, RegistryInductive, PTL

-----------------------------------------------------------------------------
(* The values file *)

\* A select built from the file shows what was read, or keeps its base's
\* entries.
LEMMA SelectReads ==
  ASSUME NEW global, NEW raw, NEW base, NEW file,
         FieldOf(global, raw, base, file).ok,
         raw.type = Untyped => base # <<>>,
         ReadsFile(FieldOf(global, raw, base, file).def.tag, raw.options)
  PROVE  LET def == FieldOf(global, raw, base, file).def
         IN  \/ /\ file.ok
                /\ def.options.values = FileEntries(raw.options["values"].map, file).options
             \/ /\ raw.type = Untyped
                /\ def.options.values = base[1].options.values
<1> DEFINE tag == TagOf(raw, base)
           own == BaseOptions(tag, base)
           given == raw.options["values"]
           entries == FileEntries(given.map, file)
           parsed == ParseOptions(tag, raw.options, own, file)
           field == FieldOf(global, raw, base, file)
<1>1. /\ field.def.tag = tag /\ field.def.options = parsed.options
      /\ field.ok => parsed.clean \/ raw.type = Untyped
  BY DEF FieldOf
<1>2. /\ tag = "select" /\ "values" \in DOMAIN raw.options
      /\ given.shape = "object" /\ Has(given.map, "path", "string")
  BY <1>1 DEF ReadsFile, Has
<1>3. given # List(<<>>)
  BY <1>2 DEF List
<1>4. ParseSelect(raw.options, own, file) =
        Parsed([values |-> IF entries.clean THEN entries.options ELSE own.values], entries.clean)
  BY <1>2, <1>3, Zenon DEF ParseSelect
<1>5. /\ parsed.options = ParseSelect(raw.options, own, file).options
      /\ parsed.clean => ParseSelect(raw.options, own, file).clean
  BY <1>2 DEF ParseOptions, Parsed
<1>6. /\ parsed.options.values = IF entries.clean THEN entries.options ELSE own.values
      /\ parsed.clean => entries.clean
  BY <1>4, <1>5 DEF Parsed
<1>7. CASE entries.clean
  <2>1. file.ok
    BY <1>7 DEF FileEntries, Parsed
  <2> QED
    BY <1>1, <1>6, <1>7, <2>1
<1>8. CASE ~entries.clean
  <2>1. raw.type = Untyped
    BY <1>1, <1>6, <1>8
  <2>2. base # <<>> /\ base[1].tag = tag
    BY <2>1 DEF TagOf
  <2>3. own = base[1].options
    BY <2>2 DEF BaseOptions
  <2> QED
    BY <1>1, <1>6, <1>8, <2>1, <2>3
<1> QED
  BY <1>7, <1>8

\* What a table refers to is resolved, and so not changed any more.
BaseThere(raw) == raw.to # <<>> => raw.to[1] \in DOMAIN resolved

TableAt(s, i) == declared.own[s][i]

ReadingInv ==
  /\ disk \in Nat \ {0}
  /\ \A s \in DOMAIN resolved : \A i \in DOMAIN declared.own[s] :
       /\ BaseThere(TableAt(s, i).raw)
       /\ ReadsOnce(TableAt(s, i).raw, resolved[s].fields[TableAt(s, i).name])
       /\ TableHolds(TableAt(s, i).raw, resolved[s].fields[TableAt(s, i).name])

\* The registry only grows, and the reading that is kept stays.
Grows ==
  /\ declared' = declared
  /\ disk' \in Nat \ {0}
  /\ DOMAIN resolved \subseteq DOMAIN resolved'
  /\ \A t \in DOMAIN resolved : resolved'[t] = resolved[t]
  /\ cached # 0 => cached' = cached

LEMMA ReadingKept ==
  ASSUME ReadingInv, Grows, NEW s \in DOMAIN resolved, NEW i \in DOMAIN declared.own[s]
  PROVE  /\ BaseThere(TableAt(s, i).raw)'
         /\ ReadsOnce(TableAt(s, i).raw, resolved[s].fields[TableAt(s, i).name])'
         /\ TableHolds(TableAt(s, i).raw, resolved[s].fields[TableAt(s, i).name])'
<1> DEFINE raw == TableAt(s, i).raw
           def == resolved[s].fields[TableAt(s, i).name]
<1>1. TableAt(s, i)' = TableAt(s, i) /\ raw' = raw /\ def' = def
  BY DEF Grows, TableAt
<1>2. BaseThere(raw) /\ ReadsOnce(raw, def) /\ TableHolds(raw, def)
  BY DEF ReadingInv
<1>3. Base(raw)' = Base(raw)
  BY <1>1, <1>2 DEF Base, BaseThere, Grows
<1>4. BaseThere(raw)'
  BY <1>1, <1>2 DEF BaseThere, Grows
<1>5. ReadsOnce(raw, def)'
  BY <1>1, <1>2, <1>3 DEF ReadsOnce, Grows
<1>6. TableHolds(raw, def)'
  BY <1>1, <1>2, <1>3 DEF TableHolds
<1> QED
  BY <1>4, <1>5, <1>6

\* A schema that joins shows what was read last.
LEMMA ReadingJoins ==
  ASSUME RegistryInv, ReadingInv, Grows,
         NEW s \in All, AreTables(declared.own[s]), s \notin DOMAIN resolved,
         NEW ancestors, BuildsAll(s, ancestors), Remember(s, ancestors),
         NEW i \in DOMAIN declared.own[s],
         resolved'[s].fields[TableAt(s, i).name] = BuildOf(s, TableAt(s, i).raw).def
  PROVE  /\ BaseThere(TableAt(s, i).raw)'
         /\ ReadsOnce(TableAt(s, i).raw, resolved[s].fields[TableAt(s, i).name])'
         /\ TableHolds(TableAt(s, i).raw, resolved[s].fields[TableAt(s, i).name])'
<1> DEFINE raw == TableAt(s, i).raw
           def == BuildOf(s, raw).def
<1>1. HasBase(raw, ancestors) /\ BuildOf(s, raw).ok
  BY DEF BuildsAll, Builds, TableAt
<1>2. raw' = raw /\ TableAt(s, i)' = TableAt(s, i)
  BY DEF Grows, TableAt
<1>3. BaseThere(raw) /\ BaseThere(raw)'
  BY <1>1, <1>2 DEF HasBase, Resolved, BaseThere, Grows
<1>4. Base(raw)' = Base(raw)
  BY SMTT(90), <1>2, <1>3 DEF Base, BaseThere, Grows
<1>5. raw.type = Untyped => Base(raw) # <<>>
  BY DEF AreTables, TableAt, Base
<1>6. ASSUME ReadsFile(def.tag, raw.options)
      PROVE  \/ /\ cached' # 0
                /\ def.options.values =
                     FileEntries(raw.options["values"].map, declared.file[cached']).options
             \/ raw.type = Untyped /\ def.options.values = Base(raw)[1].options.values
  <2>1. CASE raw.type = Untyped /\ def.options.values = Base(raw)[1].options.values
    BY <2>1
  <2>2. CASE /\ ValuesFile.ok
             /\ def.options.values = FileEntries(raw.options["values"].map, ValuesFile).options
    <3>1. def.tag = TagOf(raw, Base(raw))
      BY DEF BuildOf, FieldOf
    <3>2. \A j \in 1..i - 1 : j \in DOMAIN declared.own[s]
      BY SMTT(90) DEF AreTables
    <3>3. Reads(s, ancestors)
      BY ZenonT(90), <1>1, <1>6, <2>2, <3>1, <3>2 DEF Reads, BuildsAll, TableAt
    <3>4. cached' = Version /\ Version # 0
      BY <3>3 DEF Remember, Version, ReadingInv
    <3> QED
      BY <2>2, <3>4 DEF ValuesFile
  <2> QED
    BY <1>1, <1>5, <1>6, <2>1, <2>2, SelectReads DEF BuildOf
<1>7. ReadsOnce(raw, resolved[s].fields[TableAt(s, i).name])'
  BY <1>2, <1>4, <1>6 DEF ReadsOnce, Grows
<1>8. TableHolds(raw, def)
  <2>1. AreValues(raw.options)
    BY DEF AreTables, AreValues, TableAt
  <2>2. Base(raw) # <<>> => Sound(Base(raw)[1])
    BY <1>1, BaseSound
  <2> QED
    BY SMTT(90), <1>1, <2>1, <2>2, FieldHolds DEF BuildOf
<1>9. TableHolds(raw, resolved[s].fields[TableAt(s, i).name])'
  BY <1>2, <1>4, <1>8 DEF TableHolds
<1> QED
  BY <1>3, <1>7, <1>9

LEMMA EffectiveBuilt ==
  ASSUME NEW s, NEW inherited, NEW ancestors,
         Effective(s, inherited, ancestors) # Failed,
         AreTables(declared.own[s]), NEW i \in DOMAIN declared.own[s]
  PROVE  Effective(s, inherited, ancestors).fields[TableAt(s, i).name]
           = BuildOf(s, TableAt(s, i).raw).def
<1>1. Effective(s, inherited, ancestors).fields = Override(inherited, Built(s))
  BY DEF Effective, Schema
<1> QED
  BY <1>1, BuiltAt DEF Override, TableAt

\* A schema that joins, merged from whatever it inherits.
LEMMA JoinReads ==
  ASSUME RegistryInv, ReadingInv, Grows,
         NEW s \in All, s \notin DOMAIN resolved, NEW inherited, NEW ancestors,
         Effective(s, inherited, ancestors) # Failed,
         resolved' = With(s, Effective(s, inherited, ancestors)),
         Remember(s, ancestors)
  PROVE  ReadingInv'
<1>1. AreTables(declared.own[s])
  BY TablesAreTables
<1>2. BuildsAll(s, ancestors)
  BY DEF Effective
<1>3. /\ DOMAIN resolved' = DOMAIN resolved \cup {s}
      /\ resolved'[s] = Effective(s, inherited, ancestors)
      /\ \A t \in DOMAIN resolved : resolved'[t] = resolved[t]
  BY DEF With
<1>4. ASSUME NEW t \in DOMAIN resolved', NEW i \in DOMAIN declared'.own[t]
      PROVE  /\ BaseThere(TableAt(t, i).raw)'
             /\ ReadsOnce(TableAt(t, i).raw, resolved[t].fields[TableAt(t, i).name])'
             /\ TableHolds(TableAt(t, i).raw, resolved[t].fields[TableAt(t, i).name])'
  <2>1. CASE t \in DOMAIN resolved
    BY <1>4, <2>1, ReadingKept DEF Grows
  <2>2. CASE t = s
    <3>1. i \in DOMAIN declared.own[s]
      BY <1>4, <2>2 DEF Grows
    <3>2. resolved'[s].fields[TableAt(s, i).name] = BuildOf(s, TableAt(s, i).raw).def
      BY <1>1, <1>3, <3>1, EffectiveBuilt
    <3> QED
      BY <1>1, <1>2, <2>2, <3>1, <3>2, ReadingJoins
  <2> QED
    BY <1>3, <2>1, <2>2
<1> QED
  BY <1>4 DEF ReadingInv, Grows

LEMMA StayReads ==
  ASSUME ReadingInv, Grows, UNCHANGED resolved
  PROVE  ReadingInv'
<1>1. ASSUME NEW t \in DOMAIN resolved', NEW i \in DOMAIN declared'.own[t]
      PROVE  /\ BaseThere(TableAt(t, i).raw)'
             /\ ReadsOnce(TableAt(t, i).raw, resolved[t].fields[TableAt(t, i).name])'
             /\ TableHolds(TableAt(t, i).raw, resolved[t].fields[TableAt(t, i).name])'
  BY <1>1, ReadingKept DEF Grows
<1> QED
  BY <1>1 DEF ReadingInv, Grows

LEMMA RememberKeeps ==
  ASSUME NEW s, NEW ancestors, Remember(s, ancestors), cached # 0
  PROVE  cached' = cached
  BY DEF Remember, Version

LEMMA ReadingStep ==
  ASSUME Inv, RegistryInv, ReadingInv, [BuilderNext]_vars
  PROVE  ReadingInv'
<1>1. CASE ResolveGlobal
  <2>1. CASE UNCHANGED resolved
    <3>1. Grows
      BY <1>1, <2>1, RememberKeeps DEF ResolveGlobal, Grows, ReadingInv
    <3> QED
      BY <2>1, <3>1, StayReads
  <2>2. CASE /\ Effective(Global, NoFields, {}) # Failed
             /\ resolved' = With(Global, Effective(Global, NoFields, {}))
             /\ Remember(Global, {})
    <3>1. Global \in All /\ Global \notin DOMAIN resolved
      BY <1>1 DEF All, ResolveGlobal, RegistryInv
    <3>2. Grows
      BY <1>1, <2>2, <3>1, RememberKeeps DEF ResolveGlobal, Grows, ReadingInv, With
    <3> QED
      BY <2>2, <3>1, <3>2, JoinReads
  <2> QED
    BY <1>1, <2>1, <2>2 DEF ResolveGlobal
<1>2. CASE Linearize
  BY <1>2, StayReads DEF Linearize, registryVars, Grows, ReadingInv
<1>3. CASE MergeNext
  <2> DEFINE n == visited[merged + 1]
             inherited == Without(Inherited(n), declared.excludes[n])
  <2>1. Remember(n, Ancestors(n)) /\ declared' = declared /\ disk' = disk
    BY <1>3 DEF MergeNext
  <2>2. CASE UNCHANGED resolved
    <3>1. Grows
      BY <2>1, <2>2, RememberKeeps DEF Grows, ReadingInv
    <3> QED
      BY <2>2, <3>1, StayReads
  <2>3. CASE Merge(n) # Failed /\ resolved' = With(n, Merge(n))
    <3>1. n \in All /\ n \notin DOMAIN resolved
      BY <1>3, NextIsNew DEF All, MergeNext
    <3>2. Grows
      BY <2>1, <2>3, <3>1, RememberKeeps DEF Grows, ReadingInv, With
    <3>3. Merge(n) = Effective(n, inherited, Ancestors(n))
      BY DEF Merge
    <3> HIDE DEF n, inherited
    <3> QED
      BY <2>1, <2>3, <3>1, <3>2, <3>3, JoinReads
  <2> QED
    BY <1>3, <2>2, <2>3 DEF MergeNext
<1>4. CASE Merged
  BY <1>4, StayReads DEF Merged, registryVars, Grows, ReadingInv
<1>5. CASE Accumulate
  BY <1>5, StayReads DEF Accumulate, Grows, ReadingInv
<1>6. CASE SetHierarchy
  BY <1>6, StayReads DEF SetHierarchy, Grows, ReadingInv
<1>7. CASE EditValuesFile
  BY <1>7, StayReads DEF EditValuesFile, Grows, ReadingInv
<1>8. CASE UNCHANGED vars
  BY <1>8, StayReads DEF vars, registryVars, Grows, ReadingInv
<1> QED
  BY <1>1, <1>2, <1>3, <1>4, <1>5, <1>6, <1>7, <1>8 DEF BuilderNext, BuilderStep

\* The fields in the registry, in every state of every build.
THEOREM ReadingInductive == BuilderSpec => []ReadingInv
<1>1. BuilderInit => ReadingInv
  <2> SUFFICES ASSUME BuilderInit PROVE ReadingInv
    OBVIOUS
  <2>1. DOMAIN resolved = {} /\ disk = 1
    BY DEF BuilderInit
  <2> QED
    BY <2>1 DEF ReadingInv
<1> QED
  BY <1>1, ReadingStep, RegistryInductive, SortInductive, PTL DEF BuilderSpec

\* SelectValuesFileCache gives every select of a build the entries of one
\* version of the file, however often it is edited, broken or repaired between
\* the schemas that read it.
THEOREM FilesAreReadOnce == BuilderSpec => []OneReading
<1>1. ReadingInv => OneReading
  BY DEF ReadingInv, OneReading, TableAt
<1> QED
  BY <1>1, ReadingInductive, PTL

\* SchemaFieldBuilder: an option is what the schema's own table says or what
\* the field it refers to has, along any chain of references and for any values
\* in the tables, but for the values that are Misshapen. The entries of a list are
\* all shown, in the order they ask for, and the range that several tables make up
\* together is a range.
THEOREM OptionsAreKept == BuilderSpec => []OptionsHold
<1>1. ReadingInv /\ RangesHold => OptionsHold
  BY DEF ReadingInv, OptionsHold, TableAt
<1> QED
  BY <1>1, ReadingInductive, RangesAreRanges, PTL

-----------------------------------------------------------------------------
(* The merge: what is known of the schemas it has passed *)

\* The schemas the merge has passed.
Seen ==
  IF stage = "merge" THEN {visited[i] : i \in 1..merged}
  ELSE IF stage \in {"sweep", "done"} THEN Names ELSE {}

\* The ancestors in the registry are what merging once more would give, and
\* the least set that has the parents and what they extend.
AncestryInv ==
  /\ \A s \in DOMAIN resolved : resolved[s].ancestors \subseteq DOMAIN resolved
  /\ Resolved(Global) => resolved[Global].ancestors = {}
  /\ \A s \in Names \cap DOMAIN resolved : resolved[s].ancestors = Ancestors(s)
  /\ \A s \in DOMAIN resolved : \A x \in resolved[s].ancestors :
       resolved[x].ancestors \subseteq resolved[s].ancestors
  /\ \A s \in Names \cap DOMAIN resolved : \A U \in Upward :
       Ups({s}) \subseteq U => resolved[s].ancestors \subseteq U

\* A schema that was passed is in the registry as merging it once more would
\* put it there, or failed as it would again.
Stands(n) ==
  IF Resolved(n) THEN /\ n \notin failures
                      /\ disk = 1 => Merge(n) = resolved[n] /\ Merge(n) # Failed
  ELSE n \in failures /\ (disk = 1 => Merge(n) = Failed)

MergeInv ==
  /\ stage \in {"merge", "sweep", "done"} => phase = "sorted"
  /\ stage = "merge" => merged <= Len(visited)
  /\ disk \in Nat \ {0} /\ cached \in Nat /\ cached <= disk
  /\ failures \subseteq Seen
  /\ AncestryInv
  /\ \A n \in Seen : Stands(n)

\* What the merge of n looks at: its parents, their ancestors and the Global
\* Schema. Where these are as they were, merging gives what it gave.
Regards(n) == Listed(extends[n]) \cup Ancestors(n) \cup {Global}

SameFor(n) ==
  /\ UNCHANGED <<extends, declared>>
  /\ \A x \in Regards(n) : /\ x \in DOMAIN resolved' <=> x \in DOMAIN resolved
                           /\ x \in DOMAIN resolved => resolved'[x] = resolved[x]

LEMMA ParentsKept ==
  ASSUME NEW n, SameFor(n)
  PROVE  /\ Live(n)' = Live(n)
         /\ \A i \in Live(n) : ParentAt(n, i)' = ParentAt(n, i)
         /\ Ancestors(n)' = Ancestors(n)
<1>1. extends' = extends
  BY DEF SameFor
<1>2. \A i \in DOMAIN extends[n] : extends[n][i] \in Regards(n)
  BY DEF Regards, Listed
<1>3. Live(n)' = Live(n)
  BY <1>1, <1>2 DEF SameFor, Live, Resolved
<1>4. \A i \in Live(n) : ParentAt(n, i)' = ParentAt(n, i)
  BY <1>1, <1>2 DEF SameFor, Live, Resolved, ParentAt
<1> QED
  BY <1>1, <1>3, <1>4 DEF Ancestors

LEMMA InheritedKept ==
  ASSUME NEW n, SameFor(n), Live(n) \subseteq Nat
  PROVE  Inherited(n)' = Inherited(n)
<1>1. /\ Live(n)' = Live(n)
      /\ \A i \in Live(n) : ParentAt(n, i)' = ParentAt(n, i)
  BY ParentsKept
<1> DEFINE Here(i) == resolved[extends[n][i]]
           There(i) == resolved'[extends[n][i]]
           Bears(i, f) == f \in DOMAIN Here(i).fields
           Heirlooms == UNION {DOMAIN Here(i).fields : i \in Live(n)}
           Giver(f) == CHOOSE i \in Live(n) :
                         Bears(i, f) /\ \A j \in Live(n) : Bears(j, f) => i <= j
           BearsNow(i, f) == f \in DOMAIN There(i).fields
           HeirloomsNow == UNION {DOMAIN There(i).fields : i \in Live(n)}
           GiverNow(f) == CHOOSE i \in Live(n) :
                         BearsNow(i, f) /\ \A j \in Live(n) : BearsNow(j, f) => i <= j
<1>0. extends' = extends
  BY DEF SameFor
<1>2. Inherited(n) = [f \in Heirlooms |-> Here(Giver(f)).fields[f]]
  BY DEF Inherited, ParentAt
<1>3. Inherited(n)' = [f \in HeirloomsNow |-> There(GiverNow(f)).fields[f]]
  BY <1>0, <1>1 DEF Inherited, ParentAt
<1>5. \A i \in Live(n) : There(i) = Here(i)
  BY <1>0, <1>1 DEF ParentAt
<1>4. ASSUME NEW f \in Heirlooms
      PROVE  GiverNow(f) = Giver(f) /\ Giver(f) \in Live(n)
  <2>1. \A i \in Live(n) : BearsNow(i, f) <=> Bears(i, f)
    BY <1>5
  <2> DEFINE T == {i \in Live(n) : Bears(i, f)}
  <2>2. T \subseteq Nat /\ T # {}
    OBVIOUS
  <2>3. PICK least \in T : \A y \in T : least <= y
    BY <2>2, LeastNatural
  <2> HIDE DEF Bears, BearsNow
  <2>4. \A i \in Live(n) : Bears(i, f) /\ (\A j \in Live(n) : Bears(j, f) => i <= j) => i = least
    BY <2>3
  <2>5. Giver(f) = least
    BY <2>3, <2>4
  <2>6. GiverNow(f) = least
    BY <2>1, <2>3, <2>4
  <2> QED
    BY <2>3, <2>5, <2>6
<1>6. HeirloomsNow = Heirlooms
  BY <1>5
<1> HIDE DEF Heirlooms, HeirloomsNow, Giver, GiverNow
<1>7. \A f \in Heirlooms : There(GiverNow(f)).fields[f] = Here(Giver(f)).fields[f]
  BY <1>4, <1>5
<1> HIDE DEF Here, There
<1> QED
  BY <1>2, <1>3, <1>6, <1>7

\* Whether a table builds, and what it builds.
LEMMA BuildsKept ==
  ASSUME NEW n, SameFor(n), Version' = Version, NEW s, NEW raw, NEW ancestors,
         ancestors \subseteq Regards(n)
  PROVE  /\ HasBase(raw, ancestors)' <=> HasBase(raw, ancestors)
         /\ HasBase(raw, ancestors) => BuildOf(s, raw)' = BuildOf(s, raw)
<1>1. ValuesFile' = ValuesFile
  BY DEF ValuesFile, SameFor
<1>2. \A x \in ancestors \cup {Global} :
        /\ x \in DOMAIN resolved' <=> x \in DOMAIN resolved
        /\ x \in DOMAIN resolved => resolved'[x] = resolved[x]
  BY DEF SameFor, Regards
<1>3. HasBase(raw, ancestors)' <=> HasBase(raw, ancestors)
  BY <1>2 DEF HasBase, Resolved
<1>4. HasBase(raw, ancestors) => Base(raw)' = Base(raw)
  BY <1>2 DEF HasBase, Resolved, Base
<1> QED
  BY <1>1, <1>3, <1>4 DEF BuildOf

LEMMA MergeKept ==
  ASSUME NEW n, SameFor(n), Version' = Version, Live(n) \subseteq Nat,
         AreTables(declared.own[n])
  PROVE  Merge(n)' = Merge(n) /\ Ancestors(n)' = Ancestors(n)
<1>1. PICK ancestors, own, inherited :
        /\ ancestors = Ancestors(n) /\ own = declared.own[n]
        /\ inherited = Without(Inherited(n), declared.excludes[n])
  OBVIOUS
<1>2. declared' = declared /\ declared'.own[n] = own
  BY <1>1 DEF SameFor
<1>3. Ancestors(n)' = ancestors
  BY <1>1, ParentsKept
<1>4. Without(Inherited(n), declared.excludes[n])' = inherited
  <2>1. Inherited(n)' = Inherited(n)
    BY InheritedKept
  <2> QED
    BY <1>1, <1>2, <2>1 DEF Without
<1>5. ASSUME NEW i \in DOMAIN own
      PROVE  /\ HasBase(own[i].raw, ancestors)' <=> HasBase(own[i].raw, ancestors)
             /\ HasBase(own[i].raw, ancestors) => BuildOf(n, own[i].raw)' = BuildOf(n, own[i].raw)
  BY <1>1, BuildsKept DEF Regards
<1>6. BuildsAll(n, ancestors)' <=> BuildsAll(n, ancestors)
  <2>1. BuildsAll(n, ancestors) <=>
          \A i \in DOMAIN own : HasBase(own[i].raw, ancestors) /\ BuildOf(n, own[i].raw).ok
    BY <1>1 DEF BuildsAll, Builds
  <2>2. BuildsAll(n, ancestors)' <=>
          \A i \in DOMAIN own : HasBase(own[i].raw, ancestors)' /\ BuildOf(n, own[i].raw)'.ok
    BY <1>2 DEF BuildsAll, Builds
  <2> QED
    BY <1>5, <2>1, <2>2
<1>7. ASSUME BuildsAll(n, ancestors)
      PROVE  Built(n)' = Built(n)
  <2>1. AreTables(own)
    BY <1>1
  <2>2. \A i \in DOMAIN own : (CHOOSE j \in DOMAIN own : own[j].name = own[i].name) = i
    BY <2>1 DEF AreTables
  <2>3. \A i \in DOMAIN own : BuildOf(n, own[i].raw)' = BuildOf(n, own[i].raw)
    BY <1>1, <1>5, <1>7 DEF BuildsAll, Builds
  <2> DEFINE keys == {own[i].name : i \in DOMAIN own}
             At(f) == CHOOSE j \in DOMAIN own : own[j].name = f
  <2>4. Built(n) = [f \in keys |-> BuildOf(n, own[At(f)].raw).def]
    BY <1>1 DEF Built
  <2>5. Built(n)' = [f \in keys |-> BuildOf(n, own[At(f)].raw)'.def]
    BY <1>2 DEF Built
  <2>6. \A f \in keys : At(f) \in DOMAIN own
    BY <2>2
  <2> QED
    BY <2>3, <2>4, <2>5, <2>6
<1>8. Merge(n) = Effective(n, inherited, ancestors)
  BY <1>1 DEF Merge
<1>9. Merge(n)' = Effective(n, inherited, ancestors)'
  BY <1>3, <1>4 DEF Merge
<1>10. Effective(n, inherited, ancestors)' = Effective(n, inherited, ancestors)
  <2>1. CASE BuildsAll(n, ancestors)
    BY <1>6, <1>7, <2>1 DEF Effective
  <2>2. CASE ~BuildsAll(n, ancestors)
    BY <1>6, <2>2 DEF Effective
  <2> QED
    BY <2>1, <2>2
<1> QED
  BY <1>1, <1>3, <1>8, <1>9, <1>10

LEMMA AncestorsResolved ==
  ASSUME AncestryInv, NEW n
  PROVE  Ancestors(n) \subseteq DOMAIN resolved
  BY DEF AncestryInv, Ancestors, Live, Resolved, ParentAt

\* A schema that joins changes nothing for those that do not extend it.
Joined(m) ==
  /\ m \in Names /\ m \notin DOMAIN resolved
  /\ DOMAIN resolved \subseteq DOMAIN resolved'
  /\ DOMAIN resolved' \subseteq DOMAIN resolved \cup {m}
  /\ \A t \in DOMAIN resolved : resolved'[t] = resolved[t]

LEMMA SameAfterJoin ==
  ASSUME AncestryInv, UNCHANGED <<extends, declared>>, NEW m, Joined(m),
         NEW s \in Names, m \notin Known(s)
  PROVE  SameFor(s)
<1>1. m \notin Regards(s)
  BY AncestorsResolved, NamesAssumption DEF Joined, Regards, Known
<1> QED
  BY <1>1 DEF SameFor, Joined

LEMMA UpsHas ==
  ASSUME NEW S
  PROVE  /\ \A y : y \in Ups(S) <=>
               y \in DOMAIN resolved /\ \E n \in S \cap Names : y \in Listed(extends[n])
         /\ \A y : y \in Ups(S)' <=>
               y \in DOMAIN resolved' /\ \E n \in S \cap Names : y \in Listed(extends[n])'
  BY DEF Ups

LEMMA UpsAt ==
  ASSUME NEW s \in Names
  PROVE  Ups({s}) = Listed(extends[s]) \cap DOMAIN resolved
  BY UpsHas

LEMMA AncestryStays ==
  ASSUME AncestryInv, UNCHANGED <<extends, resolved>>
  PROVE  AncestryInv'
<1>1. \A s : Ancestors(s)' = Ancestors(s)
  BY DEF Ancestors, Live, Resolved, ParentAt
<1>2. \A S : Ups(S)' = Ups(S)
  BY DEF Ups, Listed
<1>3. Upward' = Upward
  BY <1>2 DEF Upward
<1> QED
  BY <1>1, <1>2, <1>3 DEF AncestryInv, Resolved

LEMMA AncestryJoins ==
  ASSUME AncestryInv, DOMAIN resolved \subseteq All, UNCHANGED <<extends, declared>>,
         NEW m, Joined(m), m \in DOMAIN resolved' => resolved'[m].ancestors = Ancestors(m),
         \A s \in (Names \cap DOMAIN resolved) \cup {m} : m \notin Known(s)
  PROVE  AncestryInv'
<1>1. Ancestors(m) \subseteq DOMAIN resolved
  BY AncestorsResolved
<1>2. \A s \in (Names \cap DOMAIN resolved) \cup {m} : Ancestors(s)' = Ancestors(s)
  BY SameAfterJoin, ParentsKept DEF Joined
<1>3. /\ m \in Names /\ m # Global /\ m \notin DOMAIN resolved
      /\ DOMAIN resolved \subseteq DOMAIN resolved'
      /\ DOMAIN resolved' \subseteq DOMAIN resolved \cup {m}
      /\ \A t \in DOMAIN resolved : resolved'[t] = resolved[t]
  BY NamesAssumption DEF Joined
<1>4. \A x \in Ancestors(m) : resolved[x].ancestors \subseteq Ancestors(m)
  <2> SUFFICES ASSUME NEW x \in Ancestors(m) PROVE resolved[x].ancestors \subseteq Ancestors(m)
    OBVIOUS
  <2>1. PICK i \in Live(m) : x = extends[m][i] \/ x \in ParentAt(m, i).ancestors
    BY DEF Ancestors
  <2>2. /\ ParentAt(m, i).ancestors \subseteq Ancestors(m)
        /\ extends[m][i] \in DOMAIN resolved /\ ParentAt(m, i) = resolved[extends[m][i]]
    BY DEF Ancestors, Live, Resolved, ParentAt
  <2>3. x \in ParentAt(m, i).ancestors => resolved[x].ancestors \subseteq ParentAt(m, i).ancestors
    BY <2>2 DEF AncestryInv
  <2> QED
    BY <2>1, <2>2, <2>3
<1>5. ASSUME NEW U \in Upward'
      PROVE  /\ U \cap DOMAIN resolved \in Upward
             /\ \A s \in Names \cap DOMAIN resolved :
                  Ups({s})' \subseteq U => resolved[s].ancestors \subseteq U
             /\ \A p \in Names \cap U : Ups({p})' \subseteq U
  <2> DEFINE W == U \cap DOMAIN resolved
  <2>1. U \subseteq DOMAIN resolved' /\ Ups(U)' \subseteq U
    BY <1>5 DEF Upward
  <2>2. Ups(W) \subseteq Ups(U)'
    BY <1>3 DEF Ups, Listed
  <2>3. W \in Upward
    BY <2>1, <2>2 DEF Upward, Ups
  <2>4. ASSUME NEW s \in Names \cap DOMAIN resolved, Ups({s})' \subseteq U
        PROVE  resolved[s].ancestors \subseteq U
    <3>1. Ups({s}) \subseteq W
      BY <1>3, <2>4 DEF Ups, Listed
    <3> QED
      BY <2>3, <3>1 DEF AncestryInv
  <2>5. \A p \in Names \cap U : Ups({p})' \subseteq Ups(U)'
    BY DEF Ups
  <2> QED
    BY <2>1, <2>3, <2>4, <2>5
<1>6. ASSUME NEW U \in Upward', Ups({m})' \subseteq U
      PROVE  Ancestors(m) \subseteq U
  <2> SUFFICES ASSUME NEW i \in Live(m)
               PROVE  extends[m][i] \in U /\ ParentAt(m, i).ancestors \subseteq U
    BY DEF Ancestors
  <2> DEFINE p == extends[m][i]
  <2>1. /\ p \in DOMAIN resolved /\ p \in Listed(extends[m])
        /\ ParentAt(m, i) = resolved[p]
    BY DEF Live, Resolved, ParentAt, Listed
  <2>2. p \in U
    BY <1>3, <1>6, <2>1 DEF Ups, Listed
  <2>3. CASE p \in Names
    <3>1. Ups({p})' \subseteq U
      BY <1>5, <2>2, <2>3
    <3> QED
      BY <1>5, <2>1, <2>2, <2>3, <3>1
  <2>4. CASE p = Global
    BY <2>1, <2>2, <2>4 DEF AncestryInv, Resolved
  <2> QED
    BY <2>1, <2>3, <2>4 DEF All
<1>7. \A s \in DOMAIN resolved' : resolved'[s].ancestors \subseteq DOMAIN resolved'
  BY <1>1, <1>3 DEF AncestryInv
<1>8. Resolved(Global)' => resolved'[Global].ancestors = {}
  BY <1>3 DEF AncestryInv, Resolved
<1>9. \A s \in Names \cap DOMAIN resolved' : resolved'[s].ancestors = Ancestors(s)'
  BY <1>2, <1>3 DEF AncestryInv
<1>10. \A s \in DOMAIN resolved' : \A x \in resolved'[s].ancestors :
         resolved'[x].ancestors \subseteq resolved'[s].ancestors
  <2> SUFFICES ASSUME NEW s \in DOMAIN resolved', NEW x \in resolved'[s].ancestors
               PROVE  resolved'[x].ancestors \subseteq resolved'[s].ancestors
    OBVIOUS
  <2>1. CASE s = m
    BY <1>1, <1>3, <1>4, <2>1
  <2>2. CASE s # m
    <3>1. s \in DOMAIN resolved /\ x \in resolved[s].ancestors /\ x \in DOMAIN resolved
      BY <1>3, <2>2 DEF AncestryInv
    <3> QED
      BY <1>3, <3>1 DEF AncestryInv
  <2> QED
    BY <2>1, <2>2
<1>11. \A s \in Names \cap DOMAIN resolved' : \A U \in Upward' :
         Ups({s})' \subseteq U => resolved'[s].ancestors \subseteq U
  <2> SUFFICES ASSUME NEW s \in Names \cap DOMAIN resolved', NEW U \in Upward', Ups({s})' \subseteq U
               PROVE  resolved'[s].ancestors \subseteq U
    OBVIOUS
  <2>1. CASE s = m
    <3>1. Ancestors(m) \subseteq U
      BY <1>6, <2>1
    <3>2. resolved'[m].ancestors = Ancestors(m)
      BY <2>1
    <3> QED
      BY <2>1, <3>1, <3>2
  <2>2. CASE s \in DOMAIN resolved
    <3>1. resolved[s].ancestors \subseteq U
      BY <1>5, <2>2
    <3> QED
      BY <1>3, <2>2, <3>1
  <2> QED
    BY <1>3, <2>1, <2>2
<1> QED
  BY <1>7, <1>8, <1>9, <1>10, <1>11 DEF AncestryInv

LEMMA SeenNames ==
  ASSUME Inv, RegistryInv, MergeInv
  PROVE  /\ Seen \subseteq Names
         /\ stage = "merge" => Names \cap DOMAIN resolved \subseteq Seen
<1>1. CASE stage = "merge"
  <2>1. \A i \in 1..merged : i \in DOMAIN visited /\ visited[i] \in Names
    BY <1>1 DEF MergeInv, RegistryInv, Inv, TypeOK
  <2> QED
    BY <1>1, <2>1, NamesAssumption DEF Seen, RegistryInv
<1>2. CASE stage # "merge"
  BY <1>2 DEF Seen
<1> QED
  BY <1>1, <1>2

\* The position and the tables of a schema are what the lemmas above ask for.
LEMMA MergeSame ==
  ASSUME Inv, RegistryInv, MergeInv, NEW n \in Names, SameFor(n),
         disk = 1, disk' = 1, cached' \in {cached, Version}
  PROVE  Merge(n)' = Merge(n)
<1>1. Live(n) \subseteq Nat
  BY DEF Live, Inv, TypeOK
<1>2. AreTables(declared.own[n])
  BY TablesAreTables DEF All
<1>3. Version' = Version
  BY DEF Version, MergeInv
<1> QED
  BY <1>1, <1>2, <1>3, MergeKept

\* A step that leaves the registry alone.
LEMMA MergeStays ==
  ASSUME Inv, RegistryInv, MergeInv,
         UNCHANGED <<extends, declared, resolved, failures, cached>>,
         disk' \in {disk, disk + 1}, Seen' = Seen,
         stage' \in {"merge", "sweep", "done"} => phase' = "sorted",
         stage' = "merge" => merged' <= Len(visited')
  PROVE  MergeInv'
<1>1. AncestryInv'
  BY AncestryStays DEF MergeInv
<1>2. disk' \in Nat \ {0} /\ cached' \in Nat /\ cached' <= disk'
  BY DEF MergeInv
<1>3. ASSUME NEW n \in Seen
      PROVE  Stands(n)'
  <2>1. n \in Names /\ SameFor(n) /\ Stands(n)
    BY <1>3, SeenNames DEF MergeInv, SameFor
  <2>2. disk' = 1 => disk = 1
    BY DEF MergeInv
  <2>3. disk' = 1 => Merge(n)' = Merge(n)
    BY <2>1, <2>2, MergeSame
  <2> QED
    BY <2>1, <2>2, <2>3 DEF Stands, Resolved
<1> QED
  BY <1>1, <1>2, <1>3 DEF MergeInv

\* One round: the schemas passed before do not extend the next, and neither
\* does it itself.
LEMMA NextIsNoParent ==
  ASSUME Inv, RegistryInv, MergeInv, stage = "merge", merged < Len(visited)
  PROVE  LET n == visited[merged + 1]
         IN  n \notin Seen /\ \A s \in Seen \cup {n} : n \notin Known(s)
<1> DEFINE n == visited[merged + 1]
<1>1. /\ merged \in Nat /\ merged + 1 \in DOMAIN visited
      /\ DOMAIN visited = 1..Len(visited) /\ Len(visited) \in Nat
  BY SMTT(90) DEF RegistryInv, Inv, TypeOK
<1>2. \A i \in 1..merged : i \in DOMAIN visited /\ visited[i] # n
  <2> SUFFICES ASSUME NEW i \in 1..merged PROVE i \in DOMAIN visited /\ visited[i] # n
    OBVIOUS
  <2>1. i \in DOMAIN visited /\ i # merged + 1
    BY <1>1
  <2> QED
    BY <1>1, <2>1 DEF Inv, SortInv, Injective
<1>3. ASSUME NEW i \in 1..merged + 1, n \in Known(visited[i])
      PROVE  FALSE
  <2>1. i \in DOMAIN visited
    BY <1>1, <1>2
  <2>2. PICK j \in DOMAIN visited : j < i /\ visited[j] = n
    BY <1>3, <2>1 DEF Inv, SortInv
  <2>3. j \in 1..merged
    BY <1>1, <2>2
  <2> QED
    BY <1>2, <2>2, <2>3
<1>4. Seen = {visited[i] : i \in 1..merged}
  BY DEF Seen
<1>5. \A s \in Seen \cup {n} : \E i \in 1..merged + 1 : s = visited[i]
  BY <1>1, <1>4
<1> QED
  BY <1>2, <1>3, <1>4, <1>5

LEMMA RoundKeeps ==
  ASSUME Inv, RegistryInv, MergeInv, MergeNext
  PROVE  MergeInv'
<1>1. PICK n : n = visited[merged + 1]
  OBVIOUS
<1>2. /\ stage = "merge" /\ merged < Len(visited) /\ merged' = merged + 1
      /\ UNCHANGED <<extends, declared, phase, visited, stage, disk>>
      /\ Remember(n, Ancestors(n))
      /\ \/ Merge(n) = Failed /\ failures' = failures \cup {n} /\ resolved' = resolved
         \/ Merge(n) # Failed /\ resolved' = With(n, Merge(n)) /\ failures' = failures
  BY <1>1 DEF MergeNext, graphVars, sortVars
<1>3. n \in Names /\ n \notin DOMAIN resolved
  BY <1>1, <1>2, NextIsNew
<1>4. n \notin Seen /\ \A s \in Seen \cup {n} : n \notin Known(s)
  BY <1>1, <1>2, NextIsNoParent
<1>5. Seen' = Seen \cup {n}
  <2>1. merged \in Nat
    BY DEF RegistryInv
  <2>2. Seen = {visited[i] : i \in 1..merged} /\ Seen' = {visited[i] : i \in 1..merged + 1}
    BY <1>2 DEF Seen
  <2> QED
    BY <1>1, <2>1, <2>2
<1>6. Joined(n)
  BY <1>2, <1>3 DEF Joined, With
<1>7. n \in DOMAIN resolved' => Merge(n) # Failed /\ resolved'[n] = Merge(n)
  BY <1>2, <1>3 DEF With
<1>8. Merge(n) # Failed => Merge(n).ancestors = Ancestors(n)
  BY DEF Merge, Effective, Schema
<1>9. Seen \subseteq Names /\ Names \cap DOMAIN resolved \subseteq Seen
  BY <1>2, SeenNames
<1>10. AncestryInv'
  BY <1>2, <1>4, <1>6, <1>7, <1>8, <1>9, AncestryJoins DEF RegistryInv, MergeInv
<1>11. cached' \in {cached, Version} /\ cached' \in Nat /\ cached' <= disk
  BY <1>2 DEF Remember, Version, MergeInv
<1>12. \A s \in Seen \cup {n} : SameFor(s)
  BY <1>2, <1>3, <1>4, <1>6, <1>9, SameAfterJoin DEF MergeInv
<1>13. ASSUME NEW s \in Seen \cup {n}, disk = 1
       PROVE  Merge(s)' = Merge(s)
  BY <1>2, <1>3, <1>9, <1>11, <1>12, <1>13, MergeSame
<1>14. ASSUME NEW s \in Seen
       PROVE  Stands(s)'
  <2>1. Stands(s) /\ s # n
    BY <1>4 DEF MergeInv
  <2>2. /\ s \in DOMAIN resolved' <=> s \in DOMAIN resolved
        /\ s \in DOMAIN resolved => resolved'[s] = resolved[s]
        /\ s \in failures' <=> s \in failures
    BY <1>2, <1>6, <2>1 DEF Joined
  <2> QED
    BY <1>2, <1>13, <2>1, <2>2 DEF Stands, Resolved
<1>15. Stands(n)'
  <2>1. n \notin failures
    BY <1>4 DEF MergeInv
  <2>2. CASE Merge(n) = Failed
    <3>1. n \in failures' /\ n \notin DOMAIN resolved'
      BY <1>2, <1>3, <2>2
    <3> QED
      BY <1>2, <1>13, <2>2, <3>1 DEF Stands, Resolved
  <2>3. CASE Merge(n) # Failed
    <3>1. n \notin failures' /\ n \in DOMAIN resolved'
      BY <1>2, <2>1, <2>3 DEF With
    <3> QED
      BY <1>2, <1>7, <1>13, <2>3, <3>1 DEF Stands, Resolved
  <2> QED
    BY <2>2, <2>3
<1>16. merged' <= Len(visited')
  BY <1>2 DEF RegistryInv, Inv, TypeOK
<1>17. failures' \subseteq Seen'
  BY <1>2, <1>5 DEF MergeInv
<1> QED
  BY <1>2, <1>5, <1>10, <1>11, <1>14, <1>15, <1>16, <1>17 DEF MergeInv

LEMMA GlobalKeeps ==
  ASSUME Inv, RegistryInv, MergeInv, ResolveGlobal
  PROVE  MergeInv'
<1>1. /\ stage = "global" /\ stage' \in {"graph", "failed"} /\ DOMAIN resolved = {}
      /\ UNCHANGED <<extends, failures, disk>>
  BY DEF ResolveGlobal, graphVars, RegistryInv
<1>2. Seen = {} /\ Seen' = {}
  BY <1>1 DEF Seen
<1>3. /\ DOMAIN resolved' \subseteq {Global}
      /\ Global \in DOMAIN resolved' => resolved'[Global].ancestors = {}
  <2>1. CASE UNCHANGED resolved
    BY <1>1, <2>1
  <2>2. CASE /\ Effective(Global, NoFields, {}) # Failed
             /\ resolved' = With(Global, Effective(Global, NoFields, {}))
    <3>1. Effective(Global, NoFields, {}).ancestors = {}
      BY <2>2 DEF Effective, Schema
    <3> QED
      BY <1>1, <2>2, <3>1 DEF With
  <2> QED
    BY <2>1, <2>2 DEF ResolveGlobal
<1>4. Names \cap DOMAIN resolved' = {}
  BY <1>3, NamesAssumption
<1>5. AncestryInv'
  BY <1>3, <1>4 DEF AncestryInv, Resolved
<1>6. cached' \in Nat /\ cached' <= disk
  BY <1>1 DEF ResolveGlobal, Remember, Version, MergeInv
<1> QED
  BY <1>1, <1>2, <1>5, <1>6 DEF MergeInv

LEMMA MergeStep ==
  ASSUME Inv, RegistryInv, SearchInv, MergeInv, [BuilderNext]_vars
  PROVE  MergeInv'
<1>1. CASE ResolveGlobal
  BY <1>1, GlobalKeeps
<1>2. CASE Linearize
  <2>1. /\ UNCHANGED <<extends, declared, resolved, failures, cached, disk>>
        /\ merged = 0 /\ merged' = 0 /\ stage = "graph"
    BY <1>2 DEF Linearize, registryVars, RegistryInv, Next, Resolve, Drained, Start,
                Discover, Advance, Finish, Searched
  <2>2. stage' = CASE phase' = "sorted" -> "merge"
                   [] phase' = "cyclic" -> "failed"
                   [] OTHER -> stage
    BY <1>2 DEF Linearize
  <2>3. stage' \in {"graph", "merge", "failed"} /\ (stage' = "merge" => phase' = "sorted")
    BY <2>1, <2>2, Zenon
  <2>4. 1..merged' = {}
    BY <2>1
  <2>5. Seen = {} /\ Seen' = {}
    BY <2>1, <2>3, <2>4 DEF Seen
  <2>6. visited' \in Seq(Names)
    BY <1>2, GraphStep DEF Linearize, Inv, TypeOK
  <2>7. merged' <= Len(visited')
    BY <2>1, <2>6
  <2> QED
    BY <2>1, <2>3, <2>5, <2>7, MergeStays
<1>3. CASE MergeNext
  BY <1>3, RoundKeeps
<1>4. CASE Merged
  <2>1. /\ UNCHANGED <<extends, declared, resolved, failures, cached, disk, phase>>
        /\ stage = "merge" /\ stage' = "sweep" /\ merged = Len(visited)
    BY <1>4 DEF Merged, registryVars, graphVars
  <2>2. Seen = Listed(visited)
    <3>1. Seen = {visited[i] : i \in 1..merged}
      BY <2>1 DEF Seen
    <3>2. DOMAIN visited = 1..merged
      BY <2>1 DEF Inv, TypeOK
    <3> QED
      BY <3>1, <3>2 DEF Listed
  <2>3. Seen = Names
    BY <2>1, <2>2, AllSorted DEF MergeInv
  <2>4. Seen' = Names
    BY <2>1 DEF Seen, Names
  <2> QED
    BY <2>1, <2>3, <2>4, MergeStays DEF MergeInv
<1>5. CASE Accumulate
  <2>1. /\ UNCHANGED <<extends, declared, resolved, failures, cached, disk, phase, stage>>
        /\ stage = "sweep"
    BY <1>5 DEF Accumulate, graphVars
  <2>2. Seen' = Seen
    BY <2>1 DEF Seen
  <2> QED
    BY <2>1, <2>2, MergeStays DEF MergeInv
<1>6. CASE SetHierarchy
  <2>1. /\ UNCHANGED <<extends, declared, resolved, failures, cached, disk, phase>>
        /\ stage = "sweep" /\ stage' = "done"
    BY <1>6 DEF SetHierarchy, graphVars
  <2>2. Seen' = Seen
    BY <2>1 DEF Seen
  <2> QED
    BY <2>1, <2>2, MergeStays DEF MergeInv
<1>7. CASE EditValuesFile
  <2>1. /\ UNCHANGED <<extends, declared, resolved, failures, cached, phase, stage, merged, visited>>
        /\ disk' = disk + 1
    BY <1>7 DEF EditValuesFile, graphVars, sortVars
  <2>2. Seen' = Seen
    BY <2>1 DEF Seen
  <2> QED
    BY <2>1, <2>2, MergeStays DEF MergeInv
<1>8. CASE UNCHANGED vars
  <2>1. /\ UNCHANGED <<extends, declared, resolved, failures, cached, phase, stage, merged, visited>>
        /\ disk' = disk
    BY <1>8 DEF vars, registryVars, graphVars, sortVars
  <2>2. Seen' = Seen
    BY <2>1 DEF Seen
  <2> QED
    BY <2>1, <2>2, MergeStays DEF MergeInv
<1> QED
  BY <1>1, <1>2, <1>3, <1>4, <1>5, <1>6, <1>7, <1>8 DEF BuilderNext, BuilderStep

LEMMA MergeInductive == BuilderSpec => []MergeInv
<1>1. BuilderInit => MergeInv
  <2> SUFFICES ASSUME BuilderInit PROVE MergeInv
    OBVIOUS
  <2>1. DOMAIN resolved = {} /\ failures = {} /\ stage = "global" /\ disk = 1 /\ cached = 0
    BY DEF BuilderInit
  <2>2. Seen = {}
    BY <2>1 DEF Seen
  <2>3. AncestryInv
    BY <2>1 DEF AncestryInv, Resolved
  <2> QED
    BY <2>1, <2>2, <2>3 DEF MergeInv
<1> QED
  BY <1>1, MergeStep, SortInductive, RegistryInductive, SearchInductive, PTL DEF BuilderSpec

\* merge_in_topological_order sees every parent and ancestor of a schema as it
\* stays: with the values file unchanged, merging any schema once more gives
\* what is in the registry, and it failed if it would fail.
THEOREM RegistrySettles == BuilderSpec => []Settled
<1>1. MergeInv => Settled
  BY DEF MergeInv, Seen, Stands, Settled, Resolved
<1> QED
  BY <1>1, MergeInductive, PTL

\* Of the sets that have the resolved parents of s and of their members, the
\* ancestors of s are one, and in each of them.
LEMMA AncestryLeast ==
  ASSUME Inv, AncestryInv, DOMAIN resolved \subseteq All, NEW s \in Names \cap DOMAIN resolved
  PROVE  /\ resolved[s].ancestors \in Upward
         /\ Ups({s}) \subseteq resolved[s].ancestors
<1>1. ASSUME NEW t \in Names \cap DOMAIN resolved
      PROVE  Ups({t}) \subseteq resolved[t].ancestors
  <2>0. resolved[t].ancestors = Ancestors(t)
    BY DEF AncestryInv
  <2> SUFFICES ASSUME NEW x \in Ups({t}) PROVE x \in Ancestors(t)
    BY <2>0
  <2>1. x \in DOMAIN resolved /\ \E i \in DOMAIN extends[t] : extends[t][i] = x
    BY DEF Ups, Listed
  <2>2. PICK i \in Live(t) : extends[t][i] = x
    BY <2>1 DEF Live, Resolved
  <2> QED
    BY <2>2 DEF Ancestors
<1>2. resolved[s].ancestors \subseteq DOMAIN resolved
  BY DEF AncestryInv
<1>3. ASSUME NEW y \in Ups(resolved[s].ancestors)
      PROVE  y \in resolved[s].ancestors
  <2>1. PICK t \in resolved[s].ancestors \cap Names : y \in Listed(extends[t]) /\ y \in DOMAIN resolved
    BY <1>3 DEF Ups
  <2>2. y \in Ups({t})
    BY <2>1 DEF Ups
  <2>3. y \in resolved[t].ancestors
    BY <1>1, <1>2, <2>1, <2>2
  <2> QED
    BY <2>1, <2>3 DEF AncestryInv
<1> QED
  BY <1>1, <1>2, <1>3 DEF Upward

\* merge_ancestors gathers along the sorted order what any chain of extends
\* lists leads to through schemas that resolved, and nothing else.
THEOREM AncestorsAreExact == BuilderSpec => []AncestorsExact
<1>1. Inv /\ RegistryInv /\ MergeInv => AncestorsExact
  <2> SUFFICES ASSUME Inv, RegistryInv, MergeInv, NEW s \in Names \cap DOMAIN resolved
               PROVE  resolved[s].ancestors =
                        {x \in DOMAIN resolved : \A U \in Upward : Ups({s}) \subseteq U => x \in U}
    BY DEF AncestorsExact
  <2>1. AncestryInv /\ DOMAIN resolved \subseteq All
    BY DEF MergeInv, RegistryInv
  <2>2. resolved[s].ancestors \in Upward /\ Ups({s}) \subseteq resolved[s].ancestors
    BY <2>1, AncestryLeast
  <2>3. \A U \in Upward : Ups({s}) \subseteq U => resolved[s].ancestors \subseteq U
    BY <2>1 DEF AncestryInv
  <2>4. resolved[s].ancestors \subseteq DOMAIN resolved
    BY <2>1 DEF AncestryInv
  <2> QED
    BY <2>2, <2>3, <2>4
<1> QED
  BY <1>1, MergeInductive, RegistryInductive, SortInductive, PTL

-----------------------------------------------------------------------------
(* The closure *)

\* The schemas whose descendants were gathered.
Gathered == IF stage = "sweep" THEN {visited[i] : i \in merged + 1..Len(visited)} ELSE {}

\* What is gathered may include schemas that descend through a failed link, but
\* it misses none that does not.
SweepInv ==
  /\ descendants \in [Names -> SUBSET Names]
  /\ stage = "sweep" => merged <= Len(visited)
  /\ \A n \in Gathered : \A c \in Names \cap DOMAIN resolved :
       n \in resolved[c].ancestors => c \in descendants[n]
  /\ stage = "done" => \A n \in Names :
       descendants[n] = IF Resolved(n) THEN {c \in Names : StillDescends(c, n)} ELSE {}

\* An ancestor of c is extended by c or by another ancestor of c.
LEMMA AncestorHasChild ==
  ASSUME Inv, AncestryInv, DOMAIN resolved \subseteq All,
         NEW c \in Names \cap DOMAIN resolved, NEW n \in Names, n \in resolved[c].ancestors
  PROVE  \E d \in {c} \cup resolved[c].ancestors : d \in Children(n)
<1> SUFFICES ASSUME \A d \in {c} \cup resolved[c].ancestors : d \notin Children(n)
             PROVE  FALSE
  OBVIOUS
<1>1. \A d \in Names : d \in {c} \cup resolved[c].ancestors => n \notin Listed(extends[d])
  BY DEF Children, Known
<1> DEFINE U == resolved[c].ancestors \ {n}
<1>2. resolved[c].ancestors \in Upward /\ Ups({c}) \subseteq resolved[c].ancestors
  BY AncestryLeast
<1>3. n \notin Ups({c})
  BY <1>1, UpsHas
<1>4. ASSUME NEW y \in Ups(U)
      PROVE  y \in U
  <2>1. PICK t \in U \cap Names : y \in DOMAIN resolved /\ y \in Listed(extends[t])
    BY <1>4, UpsHas
  <2>2. y # n
    BY <1>1, <2>1
  <2>3. y \in Ups(resolved[c].ancestors)
    BY <2>1, UpsHas
  <2> QED
    BY <1>2, <2>2, <2>3 DEF Upward
<1>5. U \in Upward
  BY <1>2, <1>4 DEF Upward
<1>6. resolved[c].ancestors \subseteq U
  BY <1>2, <1>3, <1>5 DEF AncestryInv
<1> QED
  BY <1>6

LEMMA ClosureGathers ==
  ASSUME Inv, RegistryInv, SearchInv, MergeInv, SweepInv, stage = "sweep", merged > 0,
         NEW c \in Names \cap DOMAIN resolved, visited[merged] \in resolved[c].ancestors
  PROVE  c \in Closure(visited[merged])
<1> DEFINE n == visited[merged]
<1>1. /\ merged \in DOMAIN visited /\ n \in Names /\ Listed(visited) = Names
      /\ DOMAIN visited = 1..Len(visited) /\ Len(visited) \in Nat
  <2>1. Listed(visited) = Names
    BY AllSorted DEF MergeInv
  <2>2. merged \in Nat /\ merged <= Len(visited) /\ visited \in Seq(Names)
    BY DEF SweepInv, RegistryInv, Inv, TypeOK
  <2> QED
    BY <2>1, <2>2
<1>2. AncestryInv /\ DOMAIN resolved \subseteq All
  BY DEF MergeInv, RegistryInv
<1>3. PICK d \in {c} \cup resolved[c].ancestors : d \in Children(n)
  BY <1>1, <1>2, AncestorHasChild
<1>4. d \in Names /\ n \in Known(d)
  BY <1>3 DEF Children
<1>5. PICK k \in DOMAIN visited : visited[k] = d
  BY <1>1, <1>4 DEF Listed
<1>6. PICK j \in DOMAIN visited : j < k /\ visited[j] = n
  BY <1>4, <1>5 DEF Inv, SortInv
<1>7. j = merged
  BY <1>1, <1>6 DEF Inv, SortInv, Injective
<1>8. d \in Gathered
  BY <1>1, <1>5, <1>6, <1>7 DEF Gathered
<1>9. d # c => c \in descendants[d]
  BY <1>3, <1>8 DEF SweepInv
<1> QED
  BY <1>3, <1>9 DEF Closure

LEMMA SweepStays ==
  ASSUME SweepInv, UNCHANGED descendants, Gathered' = {}, stage' # "done",
         stage' = "sweep" => merged' <= Len(visited')
  PROVE  SweepInv'
  BY DEF SweepInv

LEMMA AccumulateSweeps ==
  ASSUME Inv, RegistryInv, SearchInv, MergeInv, SweepInv, Accumulate
  PROVE  SweepInv'
<1>1. PICK n : n = visited[merged]
  OBVIOUS
<1>2. /\ stage = "sweep" /\ merged > 0 /\ merged' = merged - 1
      /\ UNCHANGED <<extends, stage, visited, resolved>>
      /\ descendants' = [descendants EXCEPT ![n] = Closure(n)]
  BY <1>1 DEF Accumulate, graphVars, sortVars
<1>3. /\ merged \in Nat /\ merged \in DOMAIN visited /\ n \in Names
      /\ DOMAIN visited = 1..Len(visited) /\ Len(visited) \in Nat /\ merged <= Len(visited)
  BY SMTT(90), <1>1, <1>2 DEF SweepInv, RegistryInv, Inv, TypeOK
<1>4. Closure(n) \subseteq Names
  BY DEF Closure, Children, SweepInv
<1>5. descendants' \in [Names -> SUBSET Names]
  BY <1>2, <1>4 DEF SweepInv
<1>6. Gathered' \subseteq Gathered \cup {n} /\ n \notin Gathered
  <2>1. Gathered = {visited[i] : i \in merged + 1..Len(visited)}
    BY <1>2 DEF Gathered
  <2>2. Gathered' = {visited[i] : i \in merged..Len(visited)}
    BY <1>2, <1>3 DEF Gathered
  <2>3. \A i \in merged + 1..Len(visited) : i \in DOMAIN visited /\ i # merged
    BY <1>3
  <2>4. \A i \in merged..Len(visited) : i = merged \/ i \in merged + 1..Len(visited)
    BY <1>3
  <2>5. n \notin Gathered
    BY <1>1, <1>3, <2>1, <2>3 DEF Inv, SortInv, Injective
  <2> QED
    BY <1>1, <2>1, <2>2, <2>4, <2>5
<1>7. ASSUME NEW m \in Gathered', NEW c \in Names \cap DOMAIN resolved,
             m \in resolved[c].ancestors
      PROVE  c \in descendants'[m]
  <2>1. CASE m = n
    <3>1. c \in Closure(n)
      BY <1>1, <1>2, <1>7, <2>1, ClosureGathers
    <3> QED
      BY <1>2, <1>3, <2>1, <3>1 DEF SweepInv
  <2>2. CASE m # n
    <3>1. c \in descendants[m]
      BY <1>6, <1>7, <2>2 DEF SweepInv
    <3> QED
      BY <1>2, <2>2, <3>1 DEF SweepInv
  <2> QED
    BY <2>1, <2>2
<1>8. merged' <= Len(visited')
  BY <1>2, <1>3
<1> QED
  BY <1>2, <1>5, <1>7, <1>8 DEF SweepInv

LEMMA HierarchySweeps ==
  ASSUME Inv, RegistryInv, SearchInv, MergeInv, SweepInv, SetHierarchy
  PROVE  SweepInv'
<1>1. /\ stage = "sweep" /\ merged = 0 /\ stage' = "done"
      /\ UNCHANGED <<extends, visited, resolved>>
      /\ descendants' = [n \in Names |->
           IF Resolved(n) THEN {c \in descendants[n] : StillDescends(c, n)} ELSE {}]
  BY DEF SetHierarchy, graphVars, sortVars
<1>2. Gathered = Names
  <2>1. Listed(visited) = Names /\ DOMAIN visited = 1..Len(visited)
    BY <1>1, AllSorted DEF MergeInv, Inv, TypeOK
  <2>2. Gathered = {visited[i] : i \in 1..Len(visited)}
    BY <1>1 DEF Gathered
  <2> QED
    BY <2>1, <2>2 DEF Listed
<1>3. \A n \in Names : descendants[n] \subseteq Names
  BY DEF SweepInv
<1>4. ASSUME NEW n \in Names
      PROVE  {c \in descendants[n] : StillDescends(c, n)} = {c \in Names : StillDescends(c, n)}
  <2>1. \A c \in Names : StillDescends(c, n) => c \in descendants[n]
    BY <1>2 DEF SweepInv, StillDescends, Resolved
  <2> QED
    BY <1>3, <2>1
<1>5. descendants' \in [Names -> SUBSET Names]
  BY <1>1, <1>3
<1>6. \A n \in Names :
        descendants'[n] = IF Resolved(n) THEN {c \in Names : StillDescends(c, n)} ELSE {}
  BY <1>1, <1>4
<1>7. \A n \in Names :
        descendants'[n] = IF Resolved(n)' THEN {c \in Names : StillDescends(c, n)'} ELSE {}
  BY <1>1, <1>6 DEF Resolved, StillDescends
<1>8. Gathered' = {}
  BY <1>1 DEF Gathered
<1> QED
  BY <1>1, <1>5, <1>7, <1>8 DEF SweepInv

LEMMA SweepStep ==
  ASSUME Inv, RegistryInv, SearchInv, MergeInv, SweepInv, [BuilderNext]_vars
  PROVE  SweepInv'
<1>1. CASE ResolveGlobal
  <2>1. stage' \in {"graph", "failed"} /\ UNCHANGED descendants
    BY <1>1 DEF ResolveGlobal
  <2>2. Gathered' = {}
    BY <2>1 DEF Gathered
  <2> QED
    BY <2>1, <2>2, SweepStays
<1>2. CASE Linearize
  <2>1. stage = "graph" /\ UNCHANGED descendants
    BY <1>2 DEF Linearize, registryVars
  <2>2. stage' = CASE phase' = "sorted" -> "merge"
                   [] phase' = "cyclic" -> "failed"
                   [] OTHER -> stage
    BY <1>2 DEF Linearize
  <2>3. stage' \in {"graph", "merge", "failed"}
    BY <2>1, <2>2, Zenon
  <2>4. Gathered' = {}
    BY <2>3 DEF Gathered
  <2> QED
    BY <2>1, <2>3, <2>4, SweepStays
<1>3. CASE MergeNext
  <2>1. stage' = "merge" /\ UNCHANGED descendants
    BY <1>3 DEF MergeNext
  <2>2. Gathered' = {}
    BY <2>1 DEF Gathered
  <2> QED
    BY <2>1, <2>2, SweepStays
<1>4. CASE Merged
  <2>1. /\ stage' = "sweep" /\ UNCHANGED <<descendants, visited, merged>>
        /\ merged = Len(visited) /\ Len(visited) \in Nat
    BY <1>4 DEF Merged, registryVars, graphVars, sortVars, Inv, TypeOK
  <2>2. merged' + 1..Len(visited') = {}
    BY <2>1
  <2>3. Gathered' = {}
    BY <2>1, <2>2 DEF Gathered
  <2> QED
    BY <2>1, <2>3, SweepStays
<1>5. CASE Accumulate
  BY <1>5, AccumulateSweeps
<1>6. CASE SetHierarchy
  BY <1>6, HierarchySweeps
<1>7. CASE EditValuesFile
  <2>1. stage' \in {"global", "merge"} /\ UNCHANGED descendants
    BY <1>7 DEF EditValuesFile
  <2>2. Gathered' = {}
    BY <2>1 DEF Gathered
  <2> QED
    BY <2>1, <2>2, SweepStays
<1>8. CASE UNCHANGED vars
  <2>1. UNCHANGED <<stage, merged, visited, resolved, descendants>>
    BY <1>8 DEF vars, registryVars, graphVars, sortVars
  <2>2. Gathered' = Gathered
    BY <2>1 DEF Gathered
  <2> QED
    BY <2>1, <2>2 DEF SweepInv, Resolved, StillDescends
<1> QED
  BY <1>1, <1>2, <1>3, <1>4, <1>5, <1>6, <1>7, <1>8 DEF BuilderNext, BuilderStep

\* A class query, answered from the closure that descendant_indices gathers and
\* still_descends_from filters, finds the schemas that is_a says are of the
\* class, and children those that list it.
THEOREM MatchingIsIsA == BuilderSpec => []MatchesIsA
<1>1. BuilderInit => SweepInv
  <2> SUFFICES ASSUME BuilderInit PROVE SweepInv
    OBVIOUS
  <2>1. stage = "global" /\ descendants = [n \in Names |-> {}]
    BY DEF BuilderInit
  <2>2. Gathered = {}
    BY <2>1 DEF Gathered
  <2> QED
    BY <2>1, <2>2 DEF SweepInv
<1>2. MergeInv /\ SweepInv => MatchesIsA
  <2> SUFFICES ASSUME MergeInv, SweepInv, stage = "done", NEW n \in Names \cap DOMAIN resolved
               PROVE  /\ Matches({n}) = {c \in Names \cap DOMAIN resolved : IsA(c, n)}
                      /\ ChildrenOf(n) = {c \in Names \cap DOMAIN resolved : n \in Listed(extends[c])}
    BY DEF MatchesIsA
  <2>1. descendants[n] = {c \in Names : StillDescends(c, n)}
    BY DEF SweepInv, Resolved
  <2>2. {n} \cap DOMAIN resolved = {n}
    OBVIOUS
  <2>3. Matches({n}) = {n} \cup descendants[n]
    BY <2>2 DEF Matches, DescendantsOf
  <2>4. Matches({n}) = {c \in Names \cap DOMAIN resolved : IsA(c, n)}
    BY <2>1, <2>3 DEF StillDescends, Resolved, IsA
  <2>5. ASSUME NEW c \in Names \cap DOMAIN resolved, n \in Listed(extends[c])
        PROVE  n \in resolved[c].ancestors
    <3>1. PICK i \in Live(c) : extends[c][i] = n
      BY <2>5 DEF Listed, Live, Resolved
    <3> QED
      BY <3>1 DEF Ancestors, MergeInv, AncestryInv
  <2>6. ChildrenOf(n) = {c \in Names \cap DOMAIN resolved : n \in Listed(extends[c])}
    BY <2>5 DEF ChildrenOf, Children, Known, StillDescends, Resolved
  <2> QED
    BY <2>4, <2>6
<1> QED
  BY <1>1, <1>2, SweepStep, MergeInductive, SortInductive, RegistryInductive,
     SearchInductive, PTL DEF BuilderSpec
================================================================================
