------------------------------ MODULE NoteMarker ------------------------------
(***************************************************************************)
(* The task marker that may lead a list item: `[`, one character, `]` and  *)
(* a white space (note/parser/marker.rs). The text of an item arrives in   *)
(* pieces cut anywhere, so a MarkerAccumulator holds back the characters   *)
(* of a possible marker, up to eight bytes, until it is decided whether    *)
(* they are one. A marker is not part of the item's text.                  *)
(***************************************************************************)
EXTENDS NoteText

MaxMarkerBytes == 8

NoMarker == "none"

\* Bytes of a character; a date is ten characters of one byte.
Width(c) ==
  CASE c \in {"w", "D", "P"} -> 4
    [] c = "::" -> 2
    [] c \in Date -> 10
    [] OTHER -> 1

Bytes(t) ==
  LET to[n \in 0..Len(t)] == IF n = 0 THEN 0 ELSE to[n - 1] + Width(t[n]) IN to[Len(t)]

\* A date or a separator is more than one character.
IsSymbol(c) == c # "]" /\ c \notin Date \cup {"::"}

(***************************************************************************)
(* What a text that leads an item is: "complete" with a marker at its      *)
(* front, "rejected" when it can lead none, else "incomplete".             *)
(***************************************************************************)
ScanMarkerPrefix(t) ==
  LET leads == /\ At(t, 1) = "["
               /\ Len(t) >= 2 => IsSymbol(t[2])
               /\ Len(t) >= 3 => t[3] = "]"
               /\ Len(t) >= 4 => t[4] \in White
  IN  IF ~leads THEN "rejected" ELSE IF Len(t) >= 4 THEN "complete" ELSE "incomplete"

\* The end of the line stands for the white space.
MarksAtLineEnd(t) ==
  \/ ScanMarkerPrefix(t) = "complete"
  \/ ScanMarkerPrefix(t) = "incomplete" /\ Len(t) = 3

(***************************************************************************)
(* The accumulator: undecided while it holds text back, then decided, with *)
(* the symbol of its marker or none. A step of it gives the accumulator    *)
(* after it, the text it releases (`flushed`, which was never code) and    *)
(* the rest of the text it was given (`rest`).                             *)
(***************************************************************************)
NewMarker == [decided |-> FALSE, symbol |-> NoMarker, held |-> <<>>]

Decide(symbol, flushed, rest) ==
  [marker |-> [decided |-> TRUE, symbol |-> symbol, held |-> <<>>],
   flushed |-> flushed, rest |-> rest]

Keep(m, rest) == [marker |-> m, flushed |-> <<>>, rest |-> rest]

\* How many characters of a non-empty t the eight bytes have room for after
\* `used` of them: all, or those before the last character that starts within
\* the room.
Room(t, used) ==
  LET room == MaxMarkerBytes - used
      fits == {n \in 0..(Len(t) - 1) : Bytes(SubSeq(t, 1, n)) <= room}
  IN IF Bytes(t) <= room THEN Len(t)
     ELSE CHOOSE n \in fits : \A k \in fits : k <= n

\* With `held` in the buffer and `rest` the part of t it has no room for.
TakeText(m, held, t, rest) ==
  CASE ScanMarkerPrefix(held) = "complete" ->
         Decide(held[2], <<>>, SubSeq(t, 5 - Len(m.held), Len(t)))
    [] ScanMarkerPrefix(held) = "incomplete" /\ rest = <<>> -> Keep([m EXCEPT !.held = held], <<>>)
    [] OTHER -> Decide(NoMarker, held, rest)

PushBuffering(m, t, take) ==
  IF take = 0 \/ (m.held = <<>> /\ t[1] # "[") THEN Decide(NoMarker, m.held, t)
  ELSE TakeText(m, m.held \o SubSeq(t, 1, take), t, SubSeq(t, take + 1, Len(t)))

PushMarkerText(m, t) ==
  CASE m.decided -> Keep(m, t)
    [] ~m.decided /\ t = <<>> -> Keep(m, <<>>)
    [] OTHER -> PushBuffering(m, t, Room(t, Bytes(m.held)))

\* Inline content takes the leading place: what is held is text.
RejectMarker(m) == IF m.decided THEN Keep(m, <<>>) ELSE Decide(NoMarker, m.held, <<>>)

\* Mutant: the end of the line is no white space.
ResolveMarkerStrict(m) ==
  CASE m.decided -> Keep(m, <<>>)
    [] ~m.decided /\ ScanMarkerPrefix(m.held) = "complete" -> Decide(m.held[2], <<>>, <<>>)
    [] OTHER -> Decide(NoMarker, m.held, <<>>)

\* The first line ends here.
ResolveMarker(m) ==
  CASE m.decided -> Keep(m, <<>>)
    [] ~m.decided /\ MarksAtLineEnd(m.held) -> Decide(m.held[2], <<>>, <<>>)
    [] OTHER -> Decide(NoMarker, m.held, <<>>)
================================================================================
