--------------------------- MODULE MCIndexRefresh ---------------------------
(* Small vaults for IndexRefresh.  A body is the set of links and axis      *)
(* values it has; a link is a path, resolved when a file is there.          *)
EXTENDS IndexRefresh, TLC

CONSTANTS a, b, img, p, q, linked, tagged, plain

MCOutlinks(x) == IF x = linked THEN {a, img} ELSE {}
MCAxisValues(x, k) == CASE x = tagged -> {"t", k} [] x = linked -> {"t"}
                        [] OTHER -> {}
MCResolve(paths, source, link) == IF link \in paths THEN link ELSE NoTarget

MCAge == [f \in Path |-> CASE f = a -> 1 [] f = b -> 2 [] OTHER -> 3]

\* Notes are moved away and never back.
OneWay == {<<a, b>>}

\* The vault has one note at the start; the other path only gets what is moved
\* there or written.
OneNoteInit == /\ Init /\ classField = "class"
               /\ body = [f \in Path |-> IF f = a THEN linked ELSE NoBody]
OneNoteFairSpec == OneNoteInit /\ [][Next]_vars /\ Fairness

ProcSymmetry == Permutations(Proc)
=============================================================================
