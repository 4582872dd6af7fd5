---------------------------- MODULE SchemaGraph ----------------------------
(***************************************************************************)
(* The `extends` graph of the schema registry: Kahn's topological sort     *)
(* (SchemaGraphBuilder) and, over what the sort leaves, the iterative      *)
(* search for strongly connected components (CycleDetector).               *)
(*                                                                         *)
(* A schema other than the Global Schema is its dense index: its position  *)
(* in the raw map, which is the order the directory was listed in.  The    *)
(* CSR arrays are the operator Children, read in index order.  Warnings    *)
(* are left out.                                                           *)
(***************************************************************************)
EXTENDS Naturals, Sequences, FiniteSets

CONSTANTS
  Count,       \* the number of schema files without the Global Schema's
  Global,      \* the name of the Global Schema, the graph's `excluded`
  Missing      \* a name that no schema file has

Names == 1..Count
Targets == Names \cup {Global, Missing}

ASSUME CountAssumption == Count \in Nat \ {0}
ASSUME NamesAssumption == Global \notin Names /\ Missing \notin Names

VARIABLES
  extends,     \* the raw `extends` list of every schema
  phase,       \* "sort", "search", and in the end "sorted" or "cyclic"
  unresolved,  \* unresolved_parent_count
  ready,       \* ready_queue
  visited,     \* the schemas the sort yielded, in order
  work,        \* work_stack: a node and the position reached in its list
  order,       \* discovery_order, 0 for none
  lowest,      \* lowest_reachable
  stack,       \* component_stack; on_stack is membership in it
  cyclic       \* the schemas found on cycles

sortVars == <<unresolved, ready, visited>>
searchVars == <<work, order, lowest, stack, cyclic>>
graphVars == <<extends, phase, sortVars, searchVars>>

Listed(s) == {s[i] : i \in DOMAIN s}

\* Mutant of InOrder: the last first.
InReverse(S) ==
  {s \in [1..Cardinality(S) -> S] :
     Listed(s) = S /\ \A i, j \in DOMAIN s : i < j => s[i] > s[j]}

\* The one sequence of the members of S in index order.
InOrder(S) ==
  {s \in [1..Cardinality(S) -> S] :
     Listed(s) = S /\ \A i, j \in DOMAIN s : i < j => s[i] < s[j]}

-----------------------------------------------------------------------------
(* SchemaAdjacency *)

\* validate_edges drops the targets that are not nodes of the graph.
Known(n) == Listed(extends[n]) \cap Names

Children(n) == {c \in Names : n \in Known(c)}

\* The positions in the list of n of the parents that the sort left: a target
\* counts where it is listed first (dedupe_declared_parents).
Left(n) ==
  LET list == extends[n]
  IN  {i \in DOMAIN list : /\ list[i] \in Names \ Listed(visited)
                           /\ \A j \in 1..(i - 1) : list[j] # list[i]}

\* Mutant of Scan: the scan does not resume behind the last parent.
ScanAgain(n, from) == {i \in Left(n) : \A j \in Left(n) : i <= j}

\* next_unvisited_parent: the first of them behind position `from`.
Scan(n, from) ==
  {i \in Left(n) : i > from /\ \A j \in Left(n) : j > from => i <= j}

-----------------------------------------------------------------------------
(* SchemaGraphBuilder: the sort *)

\* new, for the given lists.
SortInit ==
  /\ phase = "sort"
  /\ unresolved = [n \in Names |-> Cardinality(Known(n))]
  /\ ready \in InOrder({n \in Names : unresolved[n] = 0})
  /\ visited = <<>>
  /\ work = <<>>
  /\ order = [n \in Names |-> 0]
  /\ lowest = [n \in Names |-> 0]
  /\ stack = <<>>
  /\ cyclic = <<>>

\* Mutant of Released: a child is released by its first resolved parent.
ReleasedEarly(n) == {c \in Children(n) : unresolved[c] = Cardinality(Known(c))}

\* The children of n whose last unresolved parent is n.
Released(n) == {c \in Children(n) : unresolved[c] = 1}

\* next_ready and mark_resolved.
Resolve ==
  /\ phase = "sort"
  /\ ready # <<>>
  /\ LET n == Head(ready)
     IN  /\ visited' = Append(visited, n)
         /\ unresolved' = [c \in Names |-> IF c \in Children(n)
                                           THEN unresolved[c] - 1
                                           ELSE unresolved[c]]
         /\ \E s \in InOrder(Released(n)) : ready' = Tail(ready) \o s
  /\ UNCHANGED <<extends, phase, searchVars>>

\* The queue is empty; find returns at once if every node was visited.
Drained ==
  /\ phase = "sort"
  /\ ready = <<>>
  /\ phase' = IF Len(visited) = Count THEN "sorted" ELSE "search"
  /\ UNCHANGED <<extends, sortVars, searchVars>>

-----------------------------------------------------------------------------
(* CycleDetector: Tarjan's algorithm with an explicit stack *)

Undiscovered == {n \in Names \ Listed(visited) : order[n] = 0}

Frame(n, at) == [node |-> n, at |-> at]
Top == work[Len(work)]
Below == SubSeq(work, 1, Len(work) - 1)

\* The outer loop of find takes the next node in index order.
Start ==
  /\ phase = "search"
  /\ work = <<>>
  /\ \E n \in Undiscovered :
       /\ \A m \in Undiscovered : n <= m
       /\ work' = <<Frame(n, 0)>>
  /\ UNCHANGED <<extends, phase, sortVars, order, lowest, stack, cyclic>>

\* A frame's first turn: the node gets the next discovery order.
Discover ==
  /\ phase = "search"
  /\ work # <<>>
  /\ order[Top.node] = 0
  /\ LET rank == Cardinality({n \in Names : order[n] # 0}) + 1
     IN  /\ order' = [order EXCEPT ![Top.node] = rank]
         /\ lowest' = [lowest EXCEPT ![Top.node] = rank]
  /\ stack' = Append(stack, Top.node)
  /\ UNCHANGED <<extends, phase, sortVars, work, cyclic>>

\* Mutant of Lower: the lowest rank is not passed on.
LowerNot(low, n, candidate) == low

\* lower_reachable
Lower(low, n, candidate) ==
  [low EXCEPT ![n] = IF candidate < @ THEN candidate ELSE @]

\* advance: the frame moves behind the parent; an undiscovered parent gets a
\* frame of its own, one on the component stack closes a cycle, and one of a
\* component already closed does nothing.
Advance ==
  /\ phase = "search"
  /\ work # <<>>
  /\ order[Top.node] # 0
  /\ \E at \in Scan(Top.node, Top.at) :
       LET parent == extends[Top.node][at]
           moved == Append(Below, Frame(Top.node, at))
       IN  \/ /\ order[parent] = 0
              /\ work' = Append(moved, Frame(parent, 0))
              /\ UNCHANGED lowest
           \/ /\ parent \in Listed(stack)
              /\ work' = moved
              /\ lowest' = Lower(lowest, Top.node, order[parent])
           \/ /\ order[parent] # 0 /\ parent \notin Listed(stack)
              /\ work' = moved
              /\ UNCHANGED lowest
  /\ UNCHANGED <<extends, phase, sortVars, order, stack, cyclic>>

\* A component is a cycle if it has two members or its one extends itself.
IsCycle(component, n) == component # {n} \/ n \in Known(n)

\* finish_node and record_cyclic_component: the root of a component takes it
\* off the stack, and the caller's frame inherits the lowest rank.
Finish ==
  /\ phase = "search"
  /\ work # <<>>
  /\ order[Top.node] # 0
  /\ Scan(Top.node, Top.at) = {}
  /\ LET n == Top.node
     IN  /\ IF order[n] = lowest[n]
            THEN \E root \in DOMAIN stack :
                   LET component == Listed(SubSeq(stack, root, Len(stack)))
                   IN  /\ stack[root] = n
                       /\ stack' = SubSeq(stack, 1, root - 1)
                       /\ IF IsCycle(component, n)
                          THEN \E s \in InOrder(component) : cyclic' = cyclic \o s
                          ELSE UNCHANGED cyclic
            ELSE UNCHANGED <<stack, cyclic>>
         /\ lowest' = IF Below = <<>> THEN lowest
                      ELSE Lower(lowest, Below[Len(Below)].node, lowest[n])
  /\ work' = Below
  /\ UNCHANGED <<extends, phase, sortVars, order>>

Searched ==
  /\ phase = "search"
  /\ work = <<>>
  /\ Undiscovered = {}
  /\ phase' = IF cyclic = <<>> THEN "sorted" ELSE "cyclic"
  /\ UNCHANGED <<extends, sortVars, searchVars>>

Next == Resolve \/ Drained \/ Start \/ Discover \/ Advance \/ Finish \/ Searched

-----------------------------------------------------------------------------
(* Properties *)

TypeOK ==
  /\ extends \in [Names -> Seq(Targets)]
  /\ phase \in {"sort", "search", "sorted", "cyclic"}
  /\ unresolved \in [Names -> Nat]
  /\ ready \in Seq(Names)
  /\ visited \in Seq(Names)
  /\ work \in Seq([node : Names, at : Nat])
  /\ order \in [Names -> Nat]
  /\ lowest \in [Names -> Nat]
  /\ stack \in Seq(Names)
  /\ cyclic \in Seq(Names)

\* A schema is yielded once, and only after every known parent of it: merge
\* looks its parents up in what is resolved so far.
TopologicalOrder ==
  \A i \in DOMAIN visited :
    /\ \A j \in DOMAIN visited : visited[i] = visited[j] => i = j
    /\ \A p \in Known(visited[i]) : \E j \in DOMAIN visited : j < i /\ visited[j] = p

\* Schemas with the same known parents become ready together and are yielded
\* in raw-map order.
SiblingsInOrder ==
  \A i, j \in DOMAIN visited :
    Known(visited[i]) = Known(visited[j]) /\ visited[i] < visited[j] => i < j

\* Sets that have the known parents of their members. A schema extends into
\* every closed set it is in, and extends itself if it is in each of those that
\* its parents are in.
ClosedSets == {U \in SUBSET Names : \A n \in U : Known(n) \subseteq U}
Cycles(closed) == {n \in Names : \A U \in closed : Known(n) \subseteq U => n \in U}

\* The sort stops short of exactly the schemas on a cycle and those that
\* extend into one; of these the search reports exactly those on a cycle, each
\* once.
CyclesExact ==
  LET closed == ClosedSets
      onCycle == Cycles(closed)
  IN  /\ phase # "sort" =>
           Names \ Listed(visited) = {n \in Names : \A U \in closed : n \in U => U \cap onCycle # {}}
      /\ phase \in {"sorted", "cyclic"} =>
           Listed(cyclic) = onCycle /\ Len(cyclic) = Cardinality(onCycle)

=============================================================================
