--------------------------- MODULE WorkspaceIndex ---------------------------
(***************************************************************************)
(* What traces promises about the index a command works with, with no      *)
(* store, delta, lock or crash in sight: the command looks at the disk     *)
(* while it runs and serves what it saw.  Every entry carries metadata the *)
(* path really had during the command, a note read no earlier than that    *)
(* metadata, and the links a full resolution of those entries gives        *)
(* (IndexerService::build, the reference for refresh and refresh_store).   *)
(***************************************************************************)
EXTENDS IndexData

CONSTANT Proc

VARIABLES meta, body, clock,  \* the disk
          seen,               \* versions of each path since a command began
          running,            \* processes in a command
          result              \* the index each one serves

vars == <<meta, body, clock, seen, running, result>>

NoIndex == [files |-> [f \in Path |-> Absent], notes |-> [f \in Path |-> NoBody],
            links |-> {}, served |-> FALSE]

Unseen == [f \in Path |-> {}]

Init ==
  /\ clock \in Nat /\ meta \in [Path -> 0..clock]
  /\ body \in [Path -> Body \cup {NoBody}]
  /\ running = {}
  /\ seen = [p \in Proc |-> Unseen] /\ result = [p \in Proc |-> NoIndex]

\* One path is created, rewritten or removed, in plain sight of the commands.
Edit(f) ==
  /\ clock' = clock + 1
  /\ meta' \in {[meta EXCEPT ![f] = s] : s \in {Absent, clock + 1}}
  /\ body' \in {[body EXCEPT ![f] = c] : c \in Body \cup {NoBody}}
  /\ seen' = [p \in Proc |-> IF p \notin running THEN seen[p]
                ELSE [g \in Path |-> seen[p][g] \cup {<<meta'[g], body'[g]>>}]]
  /\ UNCHANGED <<running, result>>

Begin(p) ==
  /\ p \notin running
  /\ running' = running \cup {p}
  /\ seen' = [seen EXCEPT ![p] = [f \in Path |-> {<<meta[f], body[f]>>}]]
  /\ UNCHANGED <<meta, body, clock, result>>

\* An entry made of one version's metadata and the same or a later version's
\* contents.
SeenEntry(index, versions, f) ==
  \E v \in versions : \E w \in versions :
    /\ index.files[f] = v[1]
    /\ IF v[1] = Absent \/ f \notin NotePath THEN index.notes[f] = NoBody
       ELSE w[1] >= v[1] /\ index.notes[f] = w[2]

SeenIndex(index, versions) ==
  /\ index.served
  /\ \A f \in Path : SeenEntry(index, versions[f], f)
  /\ index.links = WithResolver(index.files, index.notes)

Return(p) ==
  /\ p \in running /\ ~result[p].served
  /\ \A q \in Proc \ {p} : result'[q] = result[q]
  /\ SeenIndex(result'[p], seen[p])
  /\ UNCHANGED <<meta, body, clock, seen, running>>

\* The command is over, served or failed.
End(p) ==
  /\ p \in running
  /\ running' = running \ {p}
  /\ seen' = [seen EXCEPT ![p] = Unseen]
  /\ result' = [result EXCEPT ![p] = NoIndex]
  /\ UNCHANGED <<meta, body, clock>>

Next == \/ \E f \in Path : Edit(f)
        \/ \E p \in Proc : Begin(p) \/ Return(p) \/ End(p)

Spec == Init /\ [][Next]_vars
=============================================================================
