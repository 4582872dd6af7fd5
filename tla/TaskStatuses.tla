----------------------------- MODULE TaskStatuses -----------------------------
(***************************************************************************)
(* The table of task statuses (task.rs): what the character between the    *)
(* brackets of a marker means. It is looked up by symbol, by name and by   *)
(* kind, from three maps that every insertion must keep in step.           *)
(***************************************************************************)
EXTENDS Naturals, Sequences, Functions

CONSTANT NormalName(_)      \* a name without its case and spare white space

Status(symbol, name, kind) == [symbol |-> symbol, name |-> name, kind |-> kind]

Kinds == {"todo", "in-progress", "on-hold", "done", "cancelled", "non-task"}

\* A cancelled task counts as complete: nothing is left to do.
IsComplete(kind) == kind \in {"done", "cancelled"}

Delimiters == {"(", ")", "[", "]", "{", "}"}

NoStatuses == [symbols |-> <<>>, names |-> <<>>, kinds |-> [k \in Kinds |-> <<>>]]

\* A function with one more argument, or another value for it.
With(f, a, v) == [x \in DOMAIN f \cup {a} |-> IF x = a THEN v ELSE f[x]]

IndexStatus(map, s) ==
  [symbols |-> With(map.symbols, s.symbol, s),
   names |-> With(map.names, NormalName(s.name), s),
   kinds |-> [map.kinds EXCEPT ![s.kind] = Append(@, s)]]

\* The statuses of a list but that of one symbol (retain).
Without(list, symbol) ==
  LET kept[n \in 0..Len(list)] ==
        IF n = 0 THEN <<>>
        ELSE IF list[n].symbol = symbol THEN kept[n - 1] ELSE Append(kept[n - 1], list[n])
  IN kept[Len(list)]

\* Mutant: the status that goes stays among those of its kind.
PurgeStaleNames(map, s) ==
  IF s.symbol \notin DOMAIN map.symbols THEN map
  ELSE LET key == NormalName(map.symbols[s.symbol].name)
           own == key \in DOMAIN map.names /\ map.names[key].symbol = s.symbol
       IN [map EXCEPT !.names = Restrict(@, DOMAIN @ \ (IF own THEN {key} ELSE {}))]

\* Forgets the status that had the symbol before: its name only while that
\* name still leads to the symbol.
PurgeStaleEntries(map, s) ==
  IF s.symbol \notin DOMAIN map.symbols THEN map
  ELSE LET previous == map.symbols[s.symbol]
           key == NormalName(previous.name)
           own == key \in DOMAIN map.names /\ map.names[key].symbol = s.symbol
       IN [symbols |-> map.symbols,
           names |-> Restrict(map.names, DOMAIN map.names \ (IF own THEN {key} ELSE {})),
           kinds |-> [map.kinds EXCEPT ![previous.kind] = Without(@, s.symbol)]]

InsertStatus(map, s) == IndexStatus(PurgeStaleEntries(map, s), s)

\* The table with a list of statuses inserted, one after the other.
Inserted(map, list) ==
  LET after[n \in 0..Len(list)] ==
        IF n = 0 THEN map ELSE InsertStatus(after[n - 1], list[n])
  IN after[Len(list)]

\* The statuses there are without a configuration.
Defaults ==
  << Status(" ", "Todo", "todo"), Status("x", "Done", "done"), Status("X", "Done", "done"),
     Status("/", "In Progress", "in-progress"), Status("-", "Cancelled", "cancelled"),
     Status("!", "On Hold", "on-hold") >>

DefaultStatuses ==
  LET after[n \in 0..Len(Defaults)] ==
        IF n = 0 THEN NoStatuses ELSE IndexStatus(after[n - 1], Defaults[n])
  IN after[Len(Defaults)]

\* A symbol nobody configured is a thing to do.
ResolveStatus(map, symbol) ==
  IF symbol \in DOMAIN map.symbols THEN map.symbols[symbol] ELSE Status(symbol, "Todo", "todo")

\* A name leads to a status only if the status is still there, under its symbol,
\* and has that name.
NamesLead(map) ==
  \A name \in DOMAIN map.names :
    /\ map.names[name].symbol \in DOMAIN map.symbols
    /\ map.names[name] = map.symbols[map.names[name].symbol]
    /\ NormalName(map.names[name].name) = name

\* Of what is said of statuses, one after the other: no later word is on the
\* same symbol, or on the same name under another symbol.
IsLastWord(told, n) ==
  \A m \in DOMAIN told :
    m > n => /\ told[m].symbol # told[n].symbol
             /\ NormalName(told[m].name) # NormalName(told[n].name)

\* What is the last word on a symbol and on a name is found by the name. Of a
\* name that two symbols had one after the other nothing is said: when the later
\* one gives it up it leads nowhere, though the other one may still have it.
NamesFind(map, told) ==
  \A n \in DOMAIN told :
    IsLastWord(told, n) =>
      LET name == NormalName(told[n].name)
      IN name \in DOMAIN map.names /\ map.names[name] = told[n]
================================================================================
