-------------------------- MODULE LinkResolution --------------------------
(***************************************************************************)
(* What a link of a note points to: LinkResolver over the files of the     *)
(* vault, and the index of one basename's candidates behind it, which is a *)
(* plain list below TRIE_THRESHOLD candidates and a folder trie with       *)
(* subtree aggregates from there on.                                       *)
(*                                                                         *)
(* A folder is the sequence of its components, a path a folder with a stem *)
(* and an extension as Path::file_stem and Path::extension split the name. *)
(* The resolver builds an index for every basename; the only one a link    *)
(* consults, that of its own stem, is the one here.  A trie node is named  *)
(* by its folder, so by_folder is membership in the arena, a node's depth  *)
(* the length of its name and its parent the name without the last part.   *)
(***************************************************************************)
EXTENDS Naturals, FiniteSets, SequencesExt

CONSTANTS
  None,        \* Option::None
  NoExt,       \* the extension of a name without one
  AnyExt,      \* no extension asked for: target_ext = None
  AnchorOnly,  \* a link to a heading of its own note
  Exts,        \* the extensions in use
  Names,       \* the names of folders
  Stems,       \* the stems of files
  MaxDepth,    \* usize::MAX
  Inputs       \* the questions to explore: files, folder of the note, link, threshold

Buckets == Exts \cup {AnyExt}
Folders == Seq(Names)
FilePaths == [folder : Folders, stem : Stems, ext : Exts \cup {NoExt}]

ASSUME ExtsAssumption == NoExt \notin Buckets /\ AnyExt \notin Exts /\ "md" \in Exts

ASSUME NoneAssumption ==
  /\ None \notin Folders \cup FilePaths \cup [distance : Nat, path : FilePaths]
  /\ AnchorOnly \notin FilePaths

\* A listing has no path twice, and no way through the folders is longer than a
\* usize can count.
ASSUME InputsAssumption ==
  /\ MaxDepth \in Nat
  /\ \A i \in Inputs :
       /\ i.files \in Seq(FilePaths) /\ IsInjective(i.files)
       /\ i.from \in Folders
       /\ i.link \in FilePaths \cup {AnchorOnly}
       /\ i.threshold \in Nat
       /\ \A p \in ToSet(i.files) : Len(i.from) + Len(p.folder) <= MaxDepth

VARIABLES
  files,       \* the indexed files, in listing order
  from,        \* the folder of the linking note
  link,        \* the link's path, or AnchorOnly
  threshold,   \* TRIE_THRESHOLD
  phase,       \* what comes next
  cursor,      \* the position of the running loop
  arena,       \* the trie's nodes, in insertion order
  full,        \* per node, the aggregate of its subtree
  excluding,   \* per child, the aggregate of its parent's subtree without its own
  want,        \* target_ext of the running lookup
  nearest,     \* nearest_flat's best candidate so far, with its distance
  tied,        \* nearest_flat's tie mark
  node,        \* the folder the walk up has reached, None above the root
  prev_child,  \* the node it came from, None in the first
  up_steps,    \* the steps up so far
  best,        \* what it has seen
  target       \* the answer

input == <<files, from, link, threshold>>
trie == <<arena, full, excluding>>
scan == <<nearest, tied>>
walk == <<node, prev_child, up_steps, best>>
vars == <<input, phase, cursor, trie, want, scan, walk, target>>

\* The elements of a sequence that are in a set, in their order.
Selected(s, T) ==
  LET upTo[n \in 0..Len(s)] ==
        IF n = 0 THEN <<>>
        ELSE IF s[n] \in T THEN Append(upTo[n - 1], s[n]) ELSE upTo[n - 1]
  IN  upTo[Len(s)]

\* by_basename: the files with the stem of the link.
Candidates == Selected(files, {p \in ToSet(files) : link # AnchorOnly /\ p.stem = link.stem})

IsTrie == Len(Candidates) >= threshold

-----------------------------------------------------------------------------
(* Distances *)

Shared(a, b) ==
  Cardinality({n \in DOMAIN a \cap DOMAIN b : SubSeq(a, 1, n) = SubSeq(b, 1, n)})

\* FolderRef::distance_to.
Distance(a, b) == (Len(a) - Shared(a, b)) + (Len(b) - Shared(a, b))

-----------------------------------------------------------------------------
(* Aggregates *)

EMPTY == [min_depth |-> MaxDepth, count |-> 0, sample |-> None]
Candidate(depth, p) == [min_depth |-> depth, count |-> 1, sample |-> p]

\* NearestCandidate::merge.
Nearer(a, b) ==
  IF a.min_depth < b.min_depth THEN a
  ELSE IF b.min_depth < a.min_depth THEN b
  ELSE [a EXCEPT !.count = a.count + b.count,
                 !.sample = IF a.sample = None THEN b.sample ELSE a.sample]

\* SubtreeAggregate: a bucket per extension, and combined under AnyExt.
NoCandidates == [e \in Buckets |-> EMPTY]
FromLocal(p) ==
  [e \in Buckets |-> IF e \in {AnyExt, p.ext} THEN Candidate(Len(p.folder), p) ELSE EMPTY]
Merged(a, b) == [e \in Buckets |-> Nearer(a[e], b[e])]
MergedFrom(start, aggs) ==
  LET upTo[n \in 0..Len(aggs)] ==
        IF n = 0 THEN start ELSE Merged(upTo[n - 1], aggs[n])
  IN  upTo[Len(aggs)]
MergedAll(aggs) == MergedFrom(NoCandidates, aggs)

-----------------------------------------------------------------------------
(* Building the index of one basename *)

Init ==
  /\ \E i \in Inputs : /\ files = i.files
                       /\ from = i.from
                       /\ link = i.link
                       /\ threshold = i.threshold
  /\ phase = IF IsTrie THEN "insert" ELSE "resolve"
  /\ cursor = 1
  /\ arena = << <<>> >>
  /\ full = << >>
  /\ excluding = << >>
  /\ want = AnyExt
  /\ nearest = None
  /\ tied = FALSE
  /\ node = None
  /\ prev_child = None
  /\ up_steps = 0
  /\ best = EMPTY
  /\ target = None

\* ensure_folder_node: missing ancestors first; the root is always there.
WithFolder(nodes, folder) ==
  LET ensured[n \in 0..Len(folder)] ==
        IF n = 0 THEN nodes
        ELSE IF Contains(nodes, SubSeq(folder, 1, n)) THEN nodes
        ELSE Append(ensured[n - 1], SubSeq(folder, 1, n))
  IN  ensured[Len(folder)]

\* One candidate enters the trie.
Insert ==
  /\ phase = "insert"
  /\ cursor <= Len(Candidates)
  /\ arena' = WithFolder(arena, Candidates[cursor].folder)
  /\ cursor' = cursor + 1
  /\ UNCHANGED <<input, phase, full, excluding, want, scan, walk, target>>

Inserted ==
  /\ phase = "insert"
  /\ cursor > Len(Candidates)
  /\ phase' = "aggregate"
  /\ cursor' = Len(arena)
  /\ UNCHANGED <<input, trie, want, scan, walk, target>>

ChildrenOf(n) == Selected(arena, {f \in ToSet(arena) : f # <<>> /\ Front(f) = n})
Locals(n) == Selected(Candidates, {p \in ToSet(Candidates) : p.folder = n})
LocalOf(n) == MergedAll([i \in DOMAIN Locals(n) |-> FromLocal(Locals(n)[i])])

\* Mutant of Excluding: the candidates of the folder itself are forgotten.
ExcludingLocals(local, aggs, i) ==
  Merged(MergedAll(SubSeq(aggs, 1, i - 1)), MergedAll(SubSeq(aggs, i + 1, Len(aggs))))

\* excluding_per_child: the prefix before the i-th child, the suffix after it,
\* and the locals.
Excluding(local, aggs, i) ==
  Merged(Merged(MergedAll(SubSeq(aggs, 1, i - 1)),
                MergedAll(SubSeq(aggs, i + 1, Len(aggs)))),
         local)

\* One node of aggregate, which goes through the arena backwards.
Aggregate ==
  /\ phase = "aggregate"
  /\ cursor > 0
  /\ LET n == arena[cursor]
         local == LocalOf(n)
         children == ChildrenOf(n)
         aggs == [i \in DOMAIN children |->
                    IF children[i] \in DOMAIN full THEN full[children[i]] ELSE NoCandidates]
         Position(c) == CHOOSE i \in DOMAIN children : children[i] = c
     IN  /\ full' = [f \in DOMAIN full \cup {n} |->
                       IF f = n THEN MergedFrom(local, aggs) ELSE full[f]]
         /\ excluding' = [c \in DOMAIN excluding \cup ToSet(children) |->
                            IF c \in ToSet(children) THEN Excluding(local, aggs, Position(c))
                            ELSE excluding[c]]
  /\ cursor' = cursor - 1
  /\ UNCHANGED <<input, phase, arena, want, scan, walk, target>>

Aggregated ==
  /\ phase = "aggregate"
  /\ cursor = 0
  /\ phase' = "resolve"
  /\ UNCHANGED <<input, cursor, trie, want, scan, walk, target>>

-----------------------------------------------------------------------------
(* LinkResolver::resolve *)

Answer(p) ==
  /\ phase' = "done"
  /\ target' = p
  /\ UNCHANGED <<input, cursor, trie, want, scan, walk>>

\* nearest_by_basename; a basename without an index is a list of nothing.
Ask(ext) ==
  /\ want' = ext
  /\ cursor' = 1
  /\ nearest' = None
  /\ tied' = FALSE
  /\ phase' = IF IsTrie THEN "probe" ELSE "scan"
  /\ node' = from
  /\ prev_child' = None
  /\ up_steps' = 0
  /\ best' = EMPTY
  /\ UNCHANGED <<input, trie, target>>

WithMd(p) == [p EXCEPT !.ext = "md"]
IsExact == Contains(files, link)
IsImplied == link.ext = NoExt /\ Contains(files, WithMd(link))

\* There is no path to look up.
NoPath == phase = "resolve" /\ link = AnchorOnly /\ Answer(None)

HasPath == phase = "resolve" /\ link # AnchorOnly

Exact == HasPath /\ IsExact /\ Answer(link)

Implied == HasPath /\ ~IsExact /\ IsImplied /\ Answer(WithMd(link))

\* A link with a directory is not looked up by its name.
Qualified ==
  /\ HasPath
  /\ ~IsExact /\ ~IsImplied
  /\ link.folder # <<>>
  /\ Answer(None)

Bare ==
  /\ HasPath
  /\ ~IsExact /\ ~IsImplied
  /\ link.folder = <<>>
  /\ Ask(IF link.ext = NoExt THEN AnyExt ELSE link.ext)

\* The lookup is over; one for an extension is repeated without it.
Reply(p) == IF p = None /\ want # AnyExt THEN Ask(AnyExt) ELSE Answer(p)

-----------------------------------------------------------------------------
(* nearest_flat *)

\* Mutant of Scanned: a nearer candidate does not lift the tie.
ScannedTied(p, distance) ==
  IF nearest = None \/ distance < nearest.distance
  THEN nearest' = [distance |-> distance, path |-> p] /\ UNCHANGED tied
  ELSE nearest' = nearest /\ tied' = (tied \/ distance = nearest.distance)

Scanned(p, distance) ==
  IF nearest = None \/ distance < nearest.distance
  THEN nearest' = [distance |-> distance, path |-> p] /\ tied' = FALSE
  ELSE nearest' = nearest /\ tied' = (tied \/ distance = nearest.distance)

Scan ==
  /\ phase = "scan"
  /\ cursor <= Len(Candidates)
  /\ LET p == Candidates[cursor]
     IN  IF want \in {AnyExt, p.ext}
         THEN Scanned(p, Distance(from, p.folder))
         ELSE UNCHANGED scan
  /\ cursor' = cursor + 1
  /\ UNCHANGED <<input, phase, trie, want, walk, target>>

ScanEnds ==
  /\ phase = "scan"
  /\ cursor > Len(Candidates)
  /\ Reply(IF nearest = None \/ tied THEN None ELSE nearest.path)

-----------------------------------------------------------------------------
(* CandidateTrie::nearest *)

\* From the note's folder to the nearest folder of the trie.
Probe ==
  /\ phase = "probe"
  /\ IF Contains(arena, node)
     THEN phase' = "climb" /\ UNCHANGED <<node, up_steps>>
     ELSE /\ node' = Front(node)
          /\ up_steps' = up_steps + 1
          /\ UNCHANGED phase
  /\ UNCHANGED <<input, cursor, trie, want, scan, prev_child, best, target>>

\* What the walk sees at its node: all of it first, then all but where it came from.
Seen == IF prev_child = None THEN full[node][want] ELSE excluding[prev_child][want]

Climb ==
  /\ phase = "climb"
  /\ node # None
  /\ best' = IF Seen.count > 0
             THEN Nearer(best, [Seen EXCEPT !.min_depth =
                                  up_steps + Seen.min_depth - Len(node)])
             ELSE best
  /\ prev_child' = node
  /\ node' = IF node = <<>> THEN None ELSE Front(node)
  /\ up_steps' = up_steps + 1
  /\ UNCHANGED <<input, phase, cursor, trie, want, scan, target>>

ClimbEnds ==
  /\ phase = "climb"
  /\ node = None
  /\ Reply(IF best.count = 1 THEN best.sample ELSE None)

Next ==
  \/ Insert \/ Inserted \/ Aggregate \/ Aggregated
  \/ NoPath \/ Exact \/ Implied \/ Qualified \/ Bare
  \/ Scan \/ ScanEnds
  \/ Probe \/ Climb \/ ClimbEnds

Spec == Init /\ [][Next]_vars

-----------------------------------------------------------------------------
(* What the resolver promises *)

Paths == ToSet(files)

\* The steps of a walk through the folders, up and then down: the least over
\* the common ancestors.
Hops(a, b) ==
  LET walks == {w \in (0..Len(a)) \X (0..Len(b)) :
                  SubSeq(a, 1, Len(a) - w[1]) = SubSeq(b, 1, Len(b) - w[2])}
      lengths == {w[1] + w[2] : w \in walks}
  IN  CHOOSE n \in lengths : \A k \in lengths : n <= k

Matching(e) == {p \in ToSet(Candidates) : e \in {AnyExt, p.ext}}
Closest(S) == {p \in S : \A q \in S : Hops(from, p.folder) <= Hops(from, q.folder)}
IsUnique(S) == Cardinality(S) = 1

\* A name with an extension that several files bear, equally near and nearer
\* than others of that extension. The docs leave the link unresolved, the code
\* goes on to look for the name alone.
IsTie == link.ext # NoExt /\ Cardinality(Closest(Matching(link.ext))) > 1

\* A link resolves to the file it spells out, then to that with .md, and a link
\* by name alone to the file of that name nearest to the note: among those of
\* its extension if there are any, else among all. Two files equally near leave
\* it unresolved, be the index a list or a trie. Nothing is said of IsTie, on
\* which code and docs disagree.
ResolvesNearest ==
  phase = "done" =>
    IF link = AnchorOnly THEN target = None
    ELSE IF link \in Paths THEN target = link
    ELSE IF link.ext = NoExt /\ WithMd(link) \in Paths THEN target = WithMd(link)
    ELSE IF link.folder # <<>> THEN target = None
    ELSE LET own == Closest(Matching(link.ext))
             wanted == IF link.ext # NoExt /\ own # {} THEN own ELSE Closest(Matching(AnyExt))
         IN  ~IsTie => IF IsUnique(wanted) THEN target \in wanted ELSE target = None

\* An aggregate tells of a set of candidates what is least by a measure, how
\* many share it, and which one if it is alone.
Tells(agg, S, measure) ==
  LET least == {p \in S : \A q \in S : measure[p] <= measure[q]}
  IN  /\ agg.count = Cardinality(least)
      /\ \A p \in least : agg.min_depth = measure[p]
      /\ IsUnique(least) => agg.sample \in least

Depth == [p \in Paths |-> Len(p.folder)]
Away == [p \in Paths |-> Hops(from, p.folder)]

Below(n, S) == {p \in S : IsPrefix(n, p.folder)}

\* Behind the aggregation pass every node tells of the candidates in its
\* subtree, and for each child of those outside the child's, per extension.
NodesTell ==
  LET done == IF phase = "insert" THEN {}
              ELSE IF phase = "aggregate" THEN (cursor + 1)..Len(arena)
              ELSE IF IsTrie THEN DOMAIN arena ELSE {}
  IN  \A i \in done : \A e \in Buckets :
        LET n == arena[i]
            inside == Below(n, Matching(e))
        IN  /\ Tells(full[n][e], inside, Depth)
            /\ \A c \in ToSet(ChildrenOf(n)) :
                 Tells(excluding[c][e], inside \ Below(c, inside), Depth)

\* Every aggregate counts each candidate of its part of the tree once; and
\* having left a folder, the walk up has seen exactly the candidates below it,
\* each at its distance from the note.
WalkSees ==
  /\ NodesTell
  /\ phase = "climb" =>
       IF prev_child = None THEN best = EMPTY
       ELSE Tells(best, Below(prev_child, Matching(want)), Away)

=============================================================================
