------------------------------ MODULE NoteParser ------------------------------
(***************************************************************************)
(* The walk over the Markdown events of one note (note/parser.rs) with its *)
(* stacks of open lists and items (note/parser/list.rs), as it is run      *)
(* under a configuration merged from two files.                            *)
(*                                                                         *)
(* A note is a sequence of the events that pulldown-cmark makes of it:     *)
(* records whose `kind` is                                                 *)
(*   "start_list" (ordered), "end_list", "start_item" (line), "end_item",  *)
(*   "start_text" (level, line; a paragraph has level 0), "end_text",      *)
(*   "start_code", "end_code", "start_quote",                              *)
(*   "start_metadata", "end_metadata", "start_link" (wiki, target),        *)
(*   "end_link",                                                           *)
(*   "text" (text), "code" (text: an inline span), "break",                *)
(*   "footnote" (text: as written), "yaml" (entries: a text inside the     *)
(*   metadata block), "barrier" (emphasis, an image, HTML begins) and      *)
(*   "other" (what ends a quote, an emphasis, an image; a rule).           *)
(***************************************************************************)
EXTENDS NoteMarker, ConfigValues, FiniteSetsExt

CONSTANTS
  Inputs,        \* what is parsed: [events, local, global]
  Characters,    \* the characters of texts
  MaxDepth       \* the deepest nesting an item records (a u8 in the code)

ASSUME MaxDepthAssumption == MaxDepth \in Nat \ {0}

\* The statuses a file lists, each of one of the kinds.
IsStatuses(list) ==
  /\ list \in Seq({list[n] : n \in DOMAIN list})
  /\ \A n \in DOMAIN list : list[n].kind \in Kinds

ASSUME InputsAssumption ==
  \A i \in Inputs : IsStatuses(i.local.statuses) /\ IsStatuses(i.global.statuses)

(***************************************************************************)
(* Lists and items nest, and they alternate: a list starts outside of all  *)
(* items or right in one, an item starts right in a list.                  *)
(***************************************************************************)
Closing == [start_list |-> "end_list", start_item |-> "end_item"]

\* The event that ends what event i starts: the first one by which as many
\* were ended as started.
EndIn(events, i) ==
  LET opened == {j \in DOMAIN events : j >= i /\ events[j].kind = events[i].kind}
      closed == {j \in DOMAIN events : j > i /\ events[j].kind = Closing[events[i].kind]}
      Balanced(k) == Cardinality({j \in opened : j < k}) = Cardinality({j \in closed : j <= k})
  IN CHOOSE k \in closed : Balanced(k) /\ \A j \in closed : Balanced(j) => k <= j

\* What is open at event i, which may end one of them.
AroundIn(events, kind, i) ==
  {j \in DOMAIN events : events[j].kind = kind /\ j < i /\ i <= EndIn(events, j)}

Nest(events) ==
  LET Of(kinds) == {i \in DOMAIN events : events[i].kind \in kinds}
      starts == Of({"start_list", "start_item"})
      Depth(kind, i) == Cardinality(AroundIn(events, kind, i))
  IN /\ events \in Seq({events[n] : n \in DOMAIN events})
     /\ \A i \in starts : i < EndIn(events, i) /\ EndIn(events, i) \in Of({Closing[events[i].kind]})
     /\ \A i, j \in starts : i < j /\ j < EndIn(events, i) => EndIn(events, j) < EndIn(events, i)
     /\ \A k \in Of({"end_list", "end_item"}) : \E i \in starts : k = EndIn(events, i)
     /\ \A i \in starts :
          Depth("start_list", i) =
            Depth("start_item", i) + (IF events[i].kind = "start_item" THEN 1 ELSE 0)

ASSUME NestingAssumption == \A i \in Inputs : Nest(i.events)

ASSUME CharactersAssumption == {"\n", "[", "]"} \subseteq Characters /\ NoMarker \notin Characters

ASSUME TextsAssumption ==
  \A i \in Inputs : \A n \in DOMAIN i.events :
    i.events[n].kind \in {"text", "code", "footnote"} => i.events[n].text \in Seq(Characters)

(***************************************************************************)
(* A code block holds its text, there is one metadata block at most, and   *)
(* both end.                                                               *)
(***************************************************************************)
BlocksEnd(events) ==
  LET Of(kind) == {i \in DOMAIN events : events[i].kind = kind}
  IN /\ \A i \in Of("start_code") : \E k \in Of("end_code") :
          i < k /\ \A j \in (i + 1)..(k - 1) : events[j].kind = "text"
     /\ \A i, j \in Of("start_metadata") : i = j
     /\ \A i \in Of("yaml") : \E k \in Of("end_metadata") : i < k

ASSUME BlocksAssumption == \A i \in Inputs : BlocksEnd(i.events)

VARIABLES
  input,
  phase,         \* "starting", "parsing", "done" or "refused"
  config,        \* the merged configuration
  at,            \* the next event
  block,         \* "none", "metadata", "code" or "text"
  metadata,      \* the entries of the metadata block so far
  frontmatter,
  body,          \* the text of a block outside of all items
  link,          \* the link being walked, or NoLink
  outlinks,
  listStack,     \* of each open list, whether it is ordered
  itemStack,     \* the frames of the open items
  lists,         \* the items that are done, the outermost only after those in it
  fields,
  tags,
  note           \* the result

parts == <<block, metadata, frontmatter, body, link, outlinks,
           listStack, itemStack, lists, fields, tags>>
vars == <<input, phase, config, at, parts, note>>

NoLink == [target |-> "none"]
NoLine == 0
Nothing == [missing |-> TRUE]

Init ==
  /\ input \in Inputs
  /\ phase = "starting"
  /\ config = Nothing
  /\ at = 1
  /\ block = "none"
  /\ metadata = <<>> /\ frontmatter = <<>> /\ body = <<>>
  /\ link = NoLink /\ outlinks = <<>>
  /\ listStack = <<>> /\ itemStack = <<>> /\ lists = <<>>
  /\ fields = <<>> /\ tags = <<>>
  /\ note = Nothing

\* A command merges its configuration before it reads a note.
Configure ==
  /\ phase = "starting"
  /\ config' = Build(input.local, input.global)
  /\ phase' = IF config' = Rejected THEN "refused" ELSE "parsing"
  /\ UNCHANGED <<input, at, parts, note>>

(***************************************************************************)
(* The frame of an open item: its text as shown, the positions of code in  *)
(* it, the text still to be scanned, what was scanned, its place, its      *)
(* marker, and what its items said of themselves.                          *)
(***************************************************************************)
Active == itemStack # <<>>

Frame(line, depth) ==
  [text |-> <<>>, code |-> {}, scan |-> <<>>, fields |-> <<>>, tags |-> <<>>,
   line |-> line,
   depth |-> depth,
   parent |-> IF Active THEN Last(itemStack).line ELSE NoLine,
   ordered |-> Last(listStack),
   marker |-> NewMarker, incomplete |-> FALSE, descendants |-> <<>>]

\* Mutant: a depth cut to its width.
NewFrameWrapped(line) == Frame(line, (Len(listStack) - 1) % (MaxDepth + 1))

NewFrame(line) == Frame(line, Min({MaxDepth, Len(listStack) - 1}))

\* Code is shown, and hidden from the scan.
Write(f, t, hidden) ==
  [f EXCEPT !.text = @ \o t,
            !.code = IF hidden THEN @ \cup Len(f.text) + 1..Len(f.text) + Len(t) ELSE @,
            !.scan = IF hidden THEN @ ELSE @ \o t]

\* After a step of the marker: what it releases is written as text.
After(f, step, hidden) ==
  Write(Write([f EXCEPT !.marker = step.marker], step.flushed, FALSE), step.rest, hidden)

PushItemText(f, t, hidden) == After(f, PushMarkerText(f.marker, t), hidden)

Reject(f) == After(f, RejectMarker(f.marker), FALSE)

ResolvePending(f) == After(f, ResolveMarker(f.marker), FALSE)

EndLine(t) == IF t = <<>> \/ Last(t) = "\n" THEN t ELSE Append(t, "\n")

SeparateBlock(f) == [f EXCEPT !.text = EndLine(@), !.scan = EndLine(@)]

\* The scan so far becomes metadata: with task emojis if the item is marked.
Scanned(item, found) ==
  [item |-> [item EXCEPT !.scan = <<>>, !.fields = @ \o found.fields, !.tags = @ \o found.tags],
   found |-> found]

FlushResolved(item) == Scanned(item, ScanMetadata(item.scan, item.marker.symbol # NoMarker))

Flush(f) == FlushResolved(ResolvePending(f))

IsFiltered(own, filters) ==
  filters = <<>> \/ \E n \in DOMAIN own : \E m \in DOMAIN filters : filters[m] = own[n]

Plain == [kind |-> "plain"]
Checkbox == [kind |-> "checkbox"]

Classify(f, tokens, filters, statuses) ==
  CASE f.marker.symbol = NoMarker -> Plain
    [] f.marker.symbol # NoMarker /\ IsFiltered(f.tags, filters) ->
         [kind |-> "task",
          status |-> ResolveStatus(statuses, f.marker.symbol),
          done |-> DoneDate(tokens, f.fields),
          priority |-> PriorityOf(tokens, f.fields),
          fully_complete |-> ~f.incomplete]
    [] OTHER -> Checkbox

Finish(f, tokens, filters, statuses) ==
  [line |-> f.line, depth |-> f.depth, parent |-> f.parent, ordered |-> f.ordered,
   fields |-> f.fields, tags |-> f.tags, text |-> f.text,
   clean |-> CleanText(f.text, tokens, filters),
   type |-> Classify(f, tokens, filters, statuses)]

ListItem(f) == Finish(f, TaskTokens(f.text, f.code), config.tag_filters, config.statuses)

\* Mutant: an item hears of its children only.
ObserveChildOnly(parent, child, descendants, incomplete) ==
  [parent EXCEPT
     !.incomplete = @ \/ (child.type.kind = "task" /\ ~IsComplete(child.type.status.kind)),
     !.descendants = (@ \o <<child>>) \o descendants]

\* What an item learns when one directly below it ends.
ObserveChild(parent, child, descendants, incomplete) ==
  [parent EXCEPT
     !.incomplete = \/ @
                    \/ child.type.kind = "task" /\ ~IsComplete(child.type.status.kind)
                    \/ incomplete,
     !.descendants = (@ \o <<child>>) \o descendants]

(***************************************************************************)
(* The handlers, one for each kind of event.                               *)
(***************************************************************************)
event == input.events[at]

Handle(kind) ==
  /\ phase = "parsing"
  /\ at \in DOMAIN input.events
  /\ event.kind = kind
  /\ at' = at + 1
  /\ UNCHANGED <<input, phase, config, note>>

\* The stack with a step of the innermost open item, if there is one.
OnItem(Step(_)) == IF Active THEN Append(Front(itemStack), Step(Last(itemStack))) ELSE itemStack

StartMetadata ==
  /\ Handle("start_metadata")
  /\ block' = "metadata"
  /\ metadata' = <<>>
  /\ UNCHANGED <<frontmatter, body, link, outlinks, listStack, itemStack, lists, fields, tags>>

EndMetadata ==
  /\ Handle("end_metadata")
  /\ block' = "none"
  /\ frontmatter' = IF metadata = <<>> THEN frontmatter ELSE metadata
  /\ metadata' = <<>>
  /\ UNCHANGED <<body, link, outlinks, listStack, itemStack, lists, fields, tags>>

PushYaml ==
  /\ Handle("yaml")
  /\ block = "metadata"
  /\ metadata' = metadata \o event.entries
  /\ UNCHANGED <<block, frontmatter, body, link, outlinks, listStack, itemStack, lists, fields, tags>>

\* A paragraph or a heading. Only one outside of all items has the body.
StartTextBlock ==
  /\ Handle("start_text")
  /\ block' = "text"
  /\ itemStack' = OnItem(SeparateBlock)
  /\ body' = IF Active THEN body ELSE <<>>
  /\ UNCHANGED <<metadata, frontmatter, link, outlinks, listStack, lists, fields, tags>>

ExtendFromFlush(found) ==
  /\ fields' = fields \o found.fields
  /\ tags' = tags \o found.tags

EndTextBlock ==
  /\ Handle("end_text")
  /\ block' = "none"
  /\ IF Active
     THEN /\ itemStack' = OnItem(ResolvePending)
          /\ UNCHANGED <<body, fields, tags>>
     ELSE /\ ExtendFromFlush(ScanMetadata(body, FALSE))
          /\ body' = <<>>
          /\ UNCHANGED itemStack
  /\ UNCHANGED <<metadata, frontmatter, link, outlinks, listStack, lists>>

StartCodeBlock ==
  /\ Handle("start_code")
  /\ block' = "code"
  /\ itemStack' = OnItem(SeparateBlock)
  /\ UNCHANGED <<metadata, frontmatter, body, link, outlinks, listStack, lists, fields, tags>>

EndCodeBlock ==
  /\ Handle("end_code")
  /\ block' = "none"
  /\ UNCHANGED <<metadata, frontmatter, body, link, outlinks, listStack, itemStack, lists, fields, tags>>

StartQuote ==
  /\ Handle("start_quote")
  /\ itemStack' = OnItem(LAMBDA f : SeparateBlock(ResolvePending(f)))
  /\ UNCHANGED <<block, metadata, frontmatter, body, link, outlinks, listStack, lists, fields, tags>>

\* A nested list cuts the scan of the item around it, so that the item's
\* metadata comes before that of the items below it.
\* Mutant: the item around a nested list is scanned at its end only.
StartListUnflushed ==
  /\ Handle("start_list")
  /\ listStack' = Append(listStack, event.ordered)
  /\ UNCHANGED <<block, metadata, frontmatter, body, link, outlinks, itemStack, lists, fields, tags>>

FlushActive(flushed) ==
  /\ itemStack' = Append(Front(itemStack), flushed.item)
  /\ ExtendFromFlush(flushed.found)

StartList ==
  /\ Handle("start_list")
  /\ listStack' = Append(listStack, event.ordered)
  /\ IF Active THEN FlushActive(Flush(Last(itemStack))) ELSE UNCHANGED <<itemStack, fields, tags>>
  /\ UNCHANGED <<block, metadata, frontmatter, body, link, outlinks, lists>>

EndList ==
  /\ Handle("end_list")
  /\ listStack' = Front(listStack)
  /\ UNCHANGED <<block, metadata, frontmatter, body, link, outlinks, itemStack, lists, fields, tags>>

StartItem ==
  /\ Handle("start_item")
  /\ itemStack' = Append(itemStack, NewFrame(event.line))
  /\ UNCHANGED <<block, metadata, frontmatter, body, link, outlinks, listStack, lists, fields, tags>>

Attach(child, descendants, incomplete) ==
  IF Len(itemStack) > 1
  THEN /\ itemStack' = Append(Front(Front(itemStack)),
                             ObserveChild(Last(Front(itemStack)), child, descendants, incomplete))
       /\ UNCHANGED lists
  ELSE /\ itemStack' = <<>>
       /\ lists' = (lists \o <<child>>) \o descendants

PopItem(flushed) ==
  /\ ExtendFromFlush(flushed.found)
  /\ Attach(ListItem(flushed.item), flushed.item.descendants, flushed.item.incomplete)

EndItem ==
  /\ Handle("end_item")
  /\ PopItem(Flush(Last(itemStack)))
  /\ UNCHANGED <<block, metadata, frontmatter, body, link, outlinks, listStack>>

\* The brackets of a Markdown link are put back for the scan, and only for it.
PushScanChar(stack, ch) ==
  IF stack = <<>> THEN stack
  ELSE Append(Front(stack), [Last(stack) EXCEPT !.scan = Append(@, ch)])

BodyWith(t) == IF ~Active /\ block = "text" THEN body \o t ELSE body

StartLink ==
  /\ Handle("start_link")
  /\ link' = [target |-> event.target, wiki |-> event.wiki, text |-> <<>>]
  /\ itemStack' = IF event.wiki THEN OnItem(Reject) ELSE PushScanChar(OnItem(Reject), "[")
  /\ body' = IF event.wiki THEN body ELSE BodyWith(<<"[">>)
  /\ UNCHANGED <<block, metadata, frontmatter, outlinks, listStack, lists, fields, tags>>

EndLink ==
  /\ Handle("end_link")
  /\ link # NoLink
  /\ link' = NoLink
  /\ outlinks' = Append(outlinks, link)
  /\ itemStack' = IF link.wiki THEN itemStack ELSE PushScanChar(itemStack, "]")
  /\ body' = IF link.wiki THEN body ELSE BodyWith(<<"]">>)
  /\ UNCHANGED <<block, metadata, frontmatter, listStack, lists, fields, tags>>

LinkWith(t) == IF link = NoLink THEN link ELSE [link EXCEPT !.text = @ \o t]

PushText ==
  /\ Handle("text")
  /\ link' = LinkWith(event.text)
  /\ itemStack' = OnItem(LAMBDA f : PushItemText(f, event.text, block = "code"))
  /\ body' = BodyWith(event.text)
  /\ UNCHANGED <<block, metadata, frontmatter, outlinks, listStack, lists, fields, tags>>

\* An inline code span: shown in the item, never scanned.
HandleCode ==
  /\ Handle("code")
  /\ link' = LinkWith(event.text)
  /\ itemStack' = OnItem(LAMBDA f : Write(Reject(f), event.text, TRUE))
  /\ UNCHANGED <<block, metadata, frontmatter, body, outlinks, listStack, lists, fields, tags>>

PushBreak ==
  /\ Handle("break")
  /\ link' = LinkWith(<<"\n">>)
  /\ itemStack' = OnItem(LAMBDA f : Write(ResolvePending(f), <<"\n">>, FALSE))
  /\ body' = BodyWith(<<"\n">>)
  /\ UNCHANGED <<block, metadata, frontmatter, outlinks, listStack, lists, fields, tags>>

\* A footnote reference is text as it is written, but not the text of a link.
PushFootnote ==
  /\ Handle("footnote")
  /\ itemStack' = OnItem(LAMBDA f : PushItemText(Reject(f), event.text, block = "code"))
  /\ body' = BodyWith(event.text)
  /\ UNCHANGED <<block, metadata, frontmatter, link, outlinks, listStack, lists, fields, tags>>

Barrier ==
  /\ Handle("barrier")
  /\ itemStack' = OnItem(Reject)
  /\ UNCHANGED <<block, metadata, frontmatter, body, link, outlinks, listStack, lists, fields, tags>>

OtherEvent ==
  /\ Handle("other")
  /\ itemStack' = OnItem(ResolvePending)
  /\ UNCHANGED <<block, metadata, frontmatter, body, link, outlinks, listStack, lists, fields, tags>>

(***************************************************************************)
(* The note. Tags of its frontmatter come under the configured name; its   *)
(* headings are collected by a walk of their own.                          *)
(***************************************************************************)
FrontmatterTags(entries, name) ==
  FlattenSeq([n \in DOMAIN entries |-> IF entries[n].key = name THEN entries[n].tags ELSE <<>>])

\* The first item's descendants: those that follow it while they lie deeper.
DescendantsOf(items, depth) ==
  LET end == SelectInSeq(items, LAMBDA child : child.depth <= depth)
  IN IF end = 0 THEN items ELSE SubSeq(items, 1, end - 1)

CollectHeadings(events) ==
  LET Step(acc, e) ==
        CASE e.kind = "start_text" /\ e.level > 0 ->
               [acc EXCEPT !.active = <<[level |-> e.level, line |-> e.line, text |-> <<>>]>>]
          [] e.kind = "end_text" ->
               [done |-> acc.done \o acc.active, active |-> <<>>]
          [] e.kind \in {"text", "code", "break"} /\ acc.active # <<>> ->
               [acc EXCEPT !.active[1].text = @ \o (IF e.kind = "break" THEN <<" ">> ELSE e.text)]
          [] OTHER -> acc
  IN FoldLeft(Step, [done |-> <<>>, active |-> <<>>], events).done

IntoNote ==
  /\ phase = "parsing"
  /\ at = Len(input.events) + 1
  /\ phase' = "done"
  /\ note' = [lists |-> lists, outlinks |-> outlinks, fields |-> fields,
              tags |-> tags \o FrontmatterTags(frontmatter, config.values["tags"]),
              headings |-> CollectHeadings(input.events)]
  /\ UNCHANGED <<input, config, at, parts>>

Next ==
  \/ Configure
  \/ StartMetadata \/ EndMetadata \/ PushYaml
  \/ StartTextBlock \/ EndTextBlock \/ StartCodeBlock \/ EndCodeBlock \/ StartQuote
  \/ StartList \/ EndList \/ StartItem \/ EndItem
  \/ StartLink \/ EndLink
  \/ PushText \/ HandleCode \/ PushBreak \/ PushFootnote
  \/ Barrier \/ OtherEvent
  \/ IntoNote

Spec == Init /\ [][Next]_vars
================================================================================
