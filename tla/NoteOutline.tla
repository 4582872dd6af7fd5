------------------------------ MODULE NoteOutline ------------------------------
(***************************************************************************)
(* What NoteParser must make of a note, read off the note as a whole: the  *)
(* parser sees one event at a time and keeps what it needs on its stacks,  *)
(* the definitions here look at all events at once.                        *)
(***************************************************************************)
EXTENDS NoteParser

Finished == phase = "done"

Events == input.events
Is(i, kind) == i \in DOMAIN Events /\ Events[i].kind = kind
Positions(kind) == {i \in DOMAIN Events : Events[i].kind = kind}

\* The event that ends what event i starts.
EndOf(i) == EndIn(Events, i)

\* The items and the lists that are open at event i, which may end one of them.
Around(kind, i) == AroundIn(Events, kind, i)

\* The innermost item around event i, or 0.
Owner(i) == Max(Around("start_item", i) \cup {0})

\* The numbers up to n that are in S, in ascending order.
Ascending(S, n) ==
  LET to[m \in 0..n] ==
        IF m = 0 THEN <<>> ELSE IF m \in S THEN Append(to[m - 1], m) ELSE to[m - 1]
  IN to[n]

\* The items in the order they are written.
InOrder(S) == Ascending(S, Len(Events))
Starts == InOrder(Positions("start_item"))

Place(s) ==
  [line |-> Events[s].line,
   depth |-> Min({MaxDepth, Cardinality(Around("start_list", s)) - 1}),
   parent |-> IF Owner(s) = 0 THEN NoLine ELSE Events[Owner(s)].line,
   ordered |-> Events[Max(Around("start_list", s))].ordered]

(***************************************************************************)
(* The line an item leads with, up to the first event that is not its      *)
(* text, and the marker it starts with.                                    *)
(***************************************************************************)
LeadFrom(s) == IF Is(s + 1, "start_text") THEN s + 2 ELSE s + 1
LeadEnd(s) == Min({j \in LeadFrom(s)..Len(Events) : ~Is(j, "text")})
TextOf(i, j) ==
  LET to[m \in i..(Len(Events) + 1)] ==
        IF m = i THEN <<>> ELSE to[m - 1] \o Events[m - 1].text
  IN to[j]
LeadText(s) == TextOf(LeadFrom(s), LeadEnd(s))

Inline == {"barrier", "start_link", "code", "footnote"}
LineEnds == {"end_text", "break", "start_list", "end_item", "start_quote", "other"}

\* Nothing is said of an item whose line breaks off before it shows whether it
\* has a marker, at a heading or a code block.
IsSettled(s) ==
  \/ LeadText(s) # <<>> /\ ScanMarkerPrefix(LeadText(s)) # "incomplete"
  \/ Events[LeadEnd(s)].kind \in Inline \cup LineEnds

\* A marker is followed by white space, or by what ends the line.
IsMarked(s) ==
  LET t == LeadText(s)
  IN /\ Len(t) >= 3
     /\ t[1] = "[" /\ IsSymbol(t[2]) /\ t[3] = "]"
     /\ IF Len(t) > 3 THEN t[4] \in White ELSE Events[LeadEnd(s)].kind \notin Inline

LeadRest(s) == IF IsMarked(s) THEN SubSeq(LeadText(s), 5, Len(LeadText(s))) ELSE LeadText(s)

(***************************************************************************)
(* What is scanned: the text of an item between the lists in it, or of a   *)
(* block outside of all items. A block starts a line, code is nothing, and *)
(* a Markdown link has its brackets.                                       *)
(***************************************************************************)
BlockKinds == {"start_metadata", "end_metadata", "start_text", "end_text", "start_code", "end_code"}

\* The last of the events before i that start or end a block.
BlockAt(i) ==
  LET blocks == {j \in DOMAIN Events : j < i /\ Events[j].kind \in BlockKinds}
  IN IF blocks = {} THEN "none" ELSE Events[Max(blocks)].kind

LinkStart(i) == Max({j \in Positions("start_link") : j < i})

Written(i) ==
  CASE Events[i].kind \in {"text", "footnote"} /\ BlockAt(i) # "start_code" -> Events[i].text
    [] Is(i, "break") -> <<"\n">>
    [] Is(i, "start_link") /\ ~Events[i].wiki -> <<"[">>
    [] Is(i, "end_link") /\ ~Events[LinkStart(i)].wiki -> <<"]">>
    [] OTHER -> <<>>

\* An item is scanned at each list in it and at its end.
IsScanned(i) == IF Owner(i) = 0 THEN Is(i, "end_text") ELSE Is(i, "start_list") \/ Is(i, "end_item")

\* What event i makes of a text t that is still to be scanned.
Joined(t, i) ==
  IF Owner(i) # 0
  THEN CASE IsScanned(i) -> <<>>
         [] Events[i].kind \in {"start_text", "start_code", "start_quote"} -> EndLine(t)
         [] OTHER -> t \o Written(i)
  ELSE CASE Events[i].kind \in {"start_text", "end_text"} -> <<>>
         [] BlockAt(i) = "start_text" /\ Events[i].kind \notin {"start_text", "end_text"} -> t \o Written(i)
         [] OTHER -> t

\* What is still to be scanned at event i of item s, whose first line has ended,
\* or, where s is 0, of the block outside of all items.
Unscanned(s, i) ==
  LET from == IF s = 0 THEN 1 ELSE LeadEnd(s)
      to[m \in from..(Len(Events) + 1)] ==
        IF m = from THEN IF s = 0 THEN <<>> ELSE LeadRest(s)
        ELSE IF Owner(m - 1) = s THEN Joined(to[m - 1], m - 1) ELSE to[m - 1]
  IN to[i]

Found(i) == ScanMetadata(Unscanned(Owner(i), i), Owner(i) # 0 /\ IsMarked(Owner(i)))

\* Fields, tags and entries of the metadata block, with those event i adds.
Joining(g, i) ==
  [fields |-> IF IsScanned(i) THEN g.fields \o Found(i).fields ELSE g.fields,
   tags |-> IF IsScanned(i) THEN g.tags \o Found(i).tags ELSE g.tags,
   entries |-> IF Is(i, "yaml") THEN g.entries \o Events[i].entries ELSE g.entries]

\* What is found at the events of S before event i, in their order.
Gathered(S, i) ==
  LET to[m \in 1..(Len(Events) + 1)] ==
        IF m = 1 THEN [fields |-> <<>>, tags |-> <<>>, entries |-> <<>>]
        ELSE IF m - 1 \in S THEN Joining(to[m - 1], m - 1) ELSE to[m - 1]
  IN to[i]

EventsOf(s) == {i \in DOMAIN Events : Owner(i) = s}
OfItem(s) == Gathered(EventsOf(s), EndOf(s) + 1)
OfNote == Gathered(DOMAIN Events, Len(Events) + 1)

(***************************************************************************)
(* The configuration as its two files have it.                             *)
(***************************************************************************)
Winning(list) == IF input.local[list] # <<>> THEN input.local[list] ELSE input.global[list]

\* What the winning file says of a symbol: the last status it lists for it.
StatusOf(symbol) ==
  LET list == Winning("statuses")
      said == {n \in DOMAIN list : list[n].symbol = symbol}
  IN IF said # {} THEN list[Max(said)] ELSE ResolveStatus(DefaultStatuses, symbol)

-----------------------------------------------------------------------------
(***************************************************************************)
(* Properties.                                                             *)
(***************************************************************************)
\* The flat list of a note (ListTracker::end_item) is its outline: every item
\* once, in the order written, with its depth, its list and the line of the
\* item around it, so that the items below one are those that follow it deeper
\* (descendants_of), as far as depths are recorded.
OutlineAsWritten ==
  Finished =>
    /\ Len(note.lists) = Len(Starts)
    /\ \A n \in DOMAIN Starts :
         LET s == Starts[n]
             item == note.lists[n]
             below == DescendantsOf(SubSeq(note.lists, n + 1, Len(note.lists)), item.depth)
         IN /\ Place(s) = [line |-> item.line, depth |-> item.depth,
                           parent |-> item.parent, ordered |-> item.ordered]
            /\ item.depth < MaxDepth =>
                 Len(below) = Cardinality({i \in Positions("start_item") : s < i /\ i < EndOf(s)})

\* An item is marked when its first line is, however the events cut that line
\* and whatever ends it (MarkerAccumulator, resolve_pending_marker), and only
\* the marker is missing from its text.
MarkersAsWritten ==
  Finished =>
    \A n \in DOMAIN Starts :
      LET s == Starts[n]
          item == note.lists[n]
      IN IsSettled(s) =>
           /\ (item.type = Plain) = ~IsMarked(s)
           /\ item.type.kind = "task" => item.type.status.symbol = LeadText(s)[2]
           /\ IsPrefix(LeadRest(s), item.text)

\* Each stretch of text is scanned once, under the item it belongs to and with
\* task emojis only if that item is marked (flush_scan_buffer); an item has what
\* its own text holds and the note all of it in the order written, then the
\* tags of its frontmatter under their configured name.
MetadataAsWritten ==
  Finished =>
    /\ \A n \in DOMAIN Starts :
         IsSettled(Starts[n]) =>
           /\ note.lists[n].fields = OfItem(Starts[n]).fields
           /\ note.lists[n].tags = OfItem(Starts[n]).tags
    /\ (\A s \in Positions("start_item") : IsSettled(s)) =>
         /\ note.fields = OfNote.fields
         /\ note.tags = OfNote.tags \o FrontmatterTags(OfNote.entries, config.values["tags"])

\* A task is fully complete when every task below it, at any depth and also
\* under items that are no tasks, has a complete status (SubTaskCompletion).
CompletionExact ==
  Finished =>
    \A n \in DOMAIN Starts :
      note.lists[n].type.kind = "task" =>
        note.lists[n].type.fully_complete =
          \A m \in DOMAIN Starts :
            /\ Starts[n] < Starts[m] /\ Starts[m] < EndOf(Starts[n])
            /\ note.lists[m].type.kind = "task"
            => IsComplete(note.lists[m].type.status.kind)

\* A marked item is a task when the winning file names no tags or one of the
\* item's, and its status is what the winning file says last of the symbol on its
\* line, else the default, else a thing to do: no file adds to the list of another.
\* Nothing is said of whether an item whose status is of the kind non-task is a
\* task: the docs (raw.rs, NonTask) say it is none, the code does not ask.
ClassifiedAsConfigured ==
  Finished =>
    \A n \in DOMAIN Starts :
      LET item == note.lists[n]
          status == StatusOf(LeadText(Starts[n])[2])
          filters == Winning("tag_filters")
      IN item.type # Plain /\ IsSettled(Starts[n]) =>
           /\ status.kind # "non-task" =>
                (item.type.kind = "task") = (filters = <<>> \/ ToSet(item.tags) \cap ToSet(filters) # {})
           /\ item.type.kind = "task" => item.type.status = status

\* The three lookups of statuses tell one story (TaskStatusMap::insert): the
\* statuses of a kind are just those whose symbol leads to that kind, each once,
\* a name leads to a status that is still there and has that name, and whatever
\* the defaults and the winning file say last of a symbol and of a name is found
\* by that name.
LookupsAgree ==
  phase \in {"parsing", "done"} =>
    LET map == config.statuses
    IN /\ \A k \in Kinds :
            /\ IsInjective(map.kinds[k])
            /\ ToSet(map.kinds[k]) = {s \in {map.symbols[c] : c \in DOMAIN map.symbols} : s.kind = k}
       /\ NamesLead(map)
       /\ NamesFind(map, Defaults \o Winning("statuses"))

\* TaskStatusMap::insert: "so all three lookups stay consistent". A status that
\* its symbol leads to has a name that leads to a status.
NamesStand ==
  phase \in {"parsing", "done"} =>
    \A c \in DOMAIN config.statuses.symbols :
      NormalName(config.statuses.symbols[c].name) \in DOMAIN config.statuses.names
================================================================================
