------------------------- MODULE IndexRefresh_proofs -------------------------
(***************************************************************************)
(* Proofs about IndexRefresh for every vault, every set of processes, and  *)
(* every bound.  IInv is inductive; StoreCoherent is one of its conjuncts. *)
(* RowInv, ServeInv and TraceInv, which rest on it, are inductive as long  *)
(* as nobody moves a file over another with its times; from the last one   *)
(* follows the refinement of WorkspaceIndex.                               *)
(***************************************************************************)
EXTENDS IndexRefresh, TLAPS

-----------------------------------------------------------------------------
(* The functions of IndexData: whatever the vault, a rebuild and an        *)
(* incremental update of a coherent database are coherent.                 *)

\* The deltas partition the change: applying them to the old rows gives the scan.
LEMMA DeltaReproducesScan ==
  ASSUME NEW cur \in Files, NEW old \in Files
  PROVE  [f \in Path |-> IF f \in Upserted(cur, old) THEN cur[f]
                         ELSE IF f \in Deleted(cur, old) THEN Absent
                         ELSE old[f]] = cur
<1>1. \A f \in Path : (IF f \in Upserted(cur, old) THEN cur[f]
                       ELSE IF f \in Deleted(cur, old) THEN Absent
                       ELSE old[f]) = cur[f]
  BY DEF Upserted, Deleted, Absent, Files
<1> QED  BY <1>1 DEF Files

\* A resolved link leads to a file.
LEMMA ResolveNotePresent ==
  ASSUME NEW P \in SUBSET Path, NEW s \in Path, NEW b \in Body
  PROVE  ResolveNote(P, s, b) \subseteq P
BY ResolveAssumption DEF ResolveNote

\* In a coherent database reading the links back loses none of them.
LEMMA ReadLinksComplete ==
  ASSUME NEW db \in Db, NotesOfFiles(db), LinksOfNotes(db)
  PROVE  ReadLinks(db, db.files) = db.links
<1>1. ASSUME NEW e \in db.links
      PROVE  db.files[e[1]] # Absent /\ db.files[e[2]] # Absent /\ e[2] \in NotePath
  <2>1. /\ e \in Edge /\ db.notes[e[2]] # NoBody
        /\ e[1] \in ResolveNote(Present(db.files), e[2], db.notes[e[2]])
    BY DEF LinksOfNotes, EdgesFor
  <2>2. e[1] \in Path /\ e[2] \in Path
    BY <2>1 DEF Edge
  <2>3. e[2] \in Present(db.files) \cap NotePath
    BY <2>1, <2>2 DEF NotesOfFiles, NoteRows
  <2>4. db.notes[e[2]] \in Body
    BY <2>1, <2>2 DEF Db, Notes
  <2>5. e[1] \in Present(db.files)
    BY <2>1, <2>2, <2>4, ResolveNotePresent DEF Present
  <2> QED  BY <2>3, <2>5 DEF Present
<1> QED  BY <1>1 DEF ReadLinks

\* Deleting and inserting what a full comparison found turns one link set into
\* the other.
LEMMA DiffReproduces ==
  ASSUME NEW cur, NEW old
  PROVE  LET d == InlinkDeltaCompute(cur, old)
         IN  (old \ d.deleted) \cup d.upserted = cur
BY DEF InlinkDeltaCompute

\* The same for the patch of edited sources: what is persisted is what is
\* returned.
LEMMA PatchReproduces ==
  ASSUME NEW links, NEW edited, NEW new
  PROVE  LET d == PatchAndDiff(links, edited, new)
         IN  /\ (links \ d.deleted) \cup d.upserted = d.links
             /\ d.links = {e \in links : e[2] \notin edited} \cup new
BY DEF PatchAndDiff

\* Under an unchanged path set the patched links are a full recompute's: links
\* of the notes that were not reparsed resolve as before.
LEMMA PatchIsRecompute ==
  ASSUME NEW cur \in Files, NEW old \in Files, Present(cur) = Present(old),
         NEW stored \in Notes, NEW modified \in Notes
  PROVE  {e \in EdgesFor(old, stored) : e[2] \notin NoteRows(modified)}
           \cup EdgesFor(cur, modified)
         = EdgesFor(cur, MergeRefreshedNotes(stored, {}, modified))
<1> DEFINE merged == MergeRefreshedNotes(stored, {}, modified)
<1>1. \A f \in Path : merged[f] = IF f \in NoteRows(modified)
                                    THEN modified[f] ELSE stored[f]
  BY DEF MergeRefreshedNotes, NoteRows
<1>2. \A e \in Edge : e[1] \in Path /\ e[2] \in Path
  BY DEF Edge
<1>3. ASSUME NEW e \in Edge, e[2] \in NoteRows(modified)
      PROVE  e \in EdgesFor(cur, modified) <=> e \in EdgesFor(cur, merged)
  <2>1. merged[e[2]] = modified[e[2]]
    BY <1>1, <1>2, <1>3
  <2> QED  BY <2>1 DEF EdgesFor
<1>4. ASSUME NEW e \in Edge, e[2] \notin NoteRows(modified)
      PROVE  /\ e \notin EdgesFor(cur, modified)
             /\ e \in EdgesFor(old, stored) <=> e \in EdgesFor(cur, merged)
  <2>1. merged[e[2]] = stored[e[2]] /\ modified[e[2]] = NoBody
    BY <1>1, <1>2, <1>4 DEF NoteRows
  <2> QED  BY <2>1 DEF EdgesFor
<1>5. EdgesFor(cur, modified) \subseteq Edge /\ EdgesFor(old, stored) \subseteq Edge
      /\ EdgesFor(cur, merged) \subseteq Edge
  BY DEF EdgesFor
<1> HIDE DEF merged
<1>6. {e \in EdgesFor(old, stored) : e[2] \notin NoteRows(modified)}
        \cup EdgesFor(cur, modified) = EdgesFor(cur, merged)
  <2>1. ASSUME NEW e \in Edge
        PROVE  e \in {d \in EdgesFor(old, stored) : d[2] \notin NoteRows(modified)}
                       \cup EdgesFor(cur, modified)
               <=> e \in EdgesFor(cur, merged)
    BY <1>3, <1>4
  <2> QED  BY <2>1, <1>5
<1> QED  BY <1>6 DEF merged

\* What a pass knows when it is about to commit.
PassInputs(db, cur, modified) ==
  /\ db \in Db /\ Coherent(db)
  /\ cur \in Files /\ modified \in Notes
  /\ NoteRows(modified) = Upserted(cur, db.files) \cap NotePath

\* The note rows to write are the reparsed notes, in both scopes (to_upsert).
LEMMA NotesToUpsert ==
  ASSUME NEW db, NEW cur, NEW modified, PassInputs(db, cur, modified)
  PROVE  Reconcile(db, cur, db.files, modified).notes = modified
<1> DEFINE up  == Upserted(cur, db.files)
           del == Deleted(cur, db.files)
           merged == MergeRefreshedNotes(db.notes, del, modified)
<1>1. ASSUME NEW f \in Path
      PROVE  (IF f \in up THEN merged[f] ELSE NoBody) = modified[f]
  <2>1. CASE modified[f] # NoBody
    BY <2>1 DEF PassInputs, NoteRows, MergeRefreshedNotes
  <2>2. CASE modified[f] = NoBody
    <3>1. f \in up => db.notes[f] = NoBody
      BY <2>2 DEF PassInputs, Coherent, NotesOfFiles, NoteRows
    <3> QED  BY <2>2, <3>1 DEF MergeRefreshedNotes
  <2> QED  BY <2>1, <2>2
<1>2. modified = [f \in Path |-> modified[f]]
  BY DEF PassInputs, Notes
<1>3. [f \in Path |-> IF f \in up THEN merged[f] ELSE NoBody] = modified
  BY <1>1, <1>2
<1> QED  BY <1>3 DEF Reconcile

\* After the commit the rows are the scan's, and the merged notes.
LEMMA RowsAfter ==
  ASSUME NEW db, NEW cur, NEW modified, PassInputs(db, cur, modified), NEW k, NEW edges
  PROVE  LET new == ApplyIncremental(db, cur, db.files, modified, edges, k)
         IN  /\ new.files = cur
             /\ new.notes = MergeRefreshedNotes(db.notes, Deleted(cur, db.files), modified)
             /\ NotesOfFiles(new)
<1> DEFINE new == ApplyIncremental(db, cur, db.files, modified, edges, k)
           merged == MergeRefreshedNotes(db.notes, Deleted(cur, db.files), modified)
<1>1. db.files \in Files
  BY DEF PassInputs, Db
<1>2. new.files = cur
  BY <1>1, DeltaReproducesScan DEF ApplyIncremental, PassInputs
<1>3. new.notes = merged
  BY DEF ApplyIncremental, MergeRefreshedNotes, NoteRows
<1>4. ASSUME NEW f \in Path
      PROVE  merged[f] # NoBody <=> f \in Present(cur) /\ f \in NotePath
  BY <1>1 DEF PassInputs, Coherent, NotesOfFiles, NoteRows, Present, Files,
              MergeRefreshedNotes, Upserted, Deleted
<1>5. NoteRows(merged) = Present(cur) \cap NotePath
  BY <1>4 DEF NoteRows, Present
<1> QED  BY <1>2, <1>3, <1>5 DEF NotesOfFiles

\* The links written are those of the merged notes over the scanned files.
LEMMA LinksAfter ==
  ASSUME NEW db, NEW cur, NEW modified, PassInputs(db, cur, modified)
  PROVE  LET d == Reconcile(db, cur, db.files, modified).edges
         IN  /\ (db.links \ d.deleted) \cup d.upserted = d.links
             /\ d.links = EdgesFor(cur, MergeRefreshedNotes(db.notes,
                                          Deleted(cur, db.files), modified))
<1> DEFINE del == Deleted(cur, db.files)
           merged == MergeRefreshedNotes(db.notes, del, modified)
           d == Reconcile(db, cur, db.files, modified).edges
<1>1. ReadLinks(db, db.files) = db.links /\ db.links = EdgesFor(db.files, db.notes)
  BY ReadLinksComplete DEF PassInputs, Coherent, LinksOfNotes
<1>2. CASE IsPathsUnchanged(cur, db.files)
  <2>1. d = PatchAndDiff(db.links, NoteRows(modified), EdgesFor(cur, modified))
    BY <1>1, <1>2 DEF Reconcile
  <2>2. del = {} /\ Present(cur) = Present(db.files)
    BY <1>2 DEF IsPathsUnchanged, Present, Upserted, Deleted
  <2>3. d.links = EdgesFor(cur, merged)
    <3>1. d.links = {e \in db.links : e[2] \notin NoteRows(modified)}
                      \cup EdgesFor(cur, modified)
      BY <2>1, PatchReproduces
    <3>2. db.files \in Files /\ db.notes \in Notes /\ cur \in Files
          /\ modified \in Notes
      BY DEF PassInputs, Db
    <3>3. {e \in EdgesFor(db.files, db.notes) : e[2] \notin NoteRows(modified)}
            \cup EdgesFor(cur, modified)
          = EdgesFor(cur, MergeRefreshedNotes(db.notes, {}, modified))
      BY <2>2, <3>2, PatchIsRecompute
    <3> QED  BY <1>1, <2>2, <3>1, <3>3
  <2> QED  BY <2>1, <2>3, PatchReproduces
<1>3. CASE ~IsPathsUnchanged(cur, db.files)
  <2>1. d = InlinkDeltaCompute(EdgesFor(cur, merged), db.links)
    BY <1>1, <1>3 DEF Reconcile, WithResolver
  <2> QED  BY <2>1, DiffReproduces DEF InlinkDeltaCompute
<1> QED  BY <1>2, <1>3

\* The axis rows of a path depend on that path's note only.
LEMMA ValuesLocal ==
  ASSUME NEW m \in Notes, NEW n \in Notes, NEW f \in Path, m[f] = n[f], NEW k
  PROVE  Values(m, {f} \cap NoteRows(m), k) = Values(n, {f} \cap NoteRows(n), k)
BY DEF Values, NoteRows

\* Flipping pairs is a bijection, so it commutes with the update of an axis.
LEMMA FlipUpdate ==
  ASSUME NEW old \in SUBSET Axis, NEW dropped \in SUBSET Axis,
         NEW added \in SUBSET Axis
  PROVE  (Flip(old) \ Flip(dropped)) \cup Flip(added)
         = Flip((old \ dropped) \cup added)
<1>1. \A x \in Axis, y \in Axis : <<x[2], x[1]>> = <<y[2], y[1]>> => x = y
  BY DEF Axis
<1>2. Flip(old) \ Flip(dropped) = Flip(old \ dropped)
  BY <1>1 DEF Flip
<1> QED  BY <1>2 DEF Flip

\* Both tables of each axis follow the rewritten notes.
LEMMA AxesAfter ==
  ASSUME NEW db, NEW cur, NEW modified, PassInputs(db, cur, modified),
         NEW k \in ClassField, NEW edges
  PROVE  LET new == ApplyIncremental(db, cur, db.files, modified, edges, k)
         IN  AxesInverse(new) /\ AxesOfNotes(new)
<1> DEFINE new == ApplyIncremental(db, cur, db.files, modified, edges, k)
           del == Deleted(cur, db.files)
           F == NoteRows(modified)
           dropped == {x \in db.byPath : x[1] \in del \cup F}
           added == Values(modified, F, k)
<1>1. new.byPath = (db.byPath \ dropped) \cup added
      /\ new.byValue = (db.byValue \ Flip(dropped)) \cup Flip(added)
  BY DEF ApplyIncremental
<1>2. /\ db.byPath \in SUBSET Axis /\ dropped \in SUBSET Axis
      /\ added \in SUBSET Axis
  BY DEF PassInputs, Db, Values
<1>3. new.byValue = Flip(new.byPath)
  <2>1. db.byValue = Flip(db.byPath)
    BY DEF PassInputs, Coherent, AxesInverse
  <2> QED  BY <1>1, <1>2, <2>1, FlipUpdate
<1>4. new.notes = MergeRefreshedNotes(db.notes, del, modified)
  BY RowsAfter
<1>5. ASSUME NEW f \in Path
      PROVE  \E c \in ClassField :
               {x \in new.byPath : x[1] = f}
                 = Values(new.notes, {f} \cap NoteRows(new.notes), c)
  <2>1. CASE f \in F
    <3>1. {x \in new.byPath : x[1] = f} = Values(modified, {f} \cap F, k)
      <4>1. {x \in new.byPath : x[1] = f} = {x \in added : x[1] = f}
        BY <1>1, <2>1
      <4> QED  BY <4>1, <2>1 DEF Values
    <3>2. new.notes[f] = modified[f] /\ new.notes \in Notes /\ modified \in Notes
      BY <1>4, <2>1 DEF MergeRefreshedNotes, NoteRows, PassInputs, Db, Notes
    <3>3. Values(new.notes, {f} \cap NoteRows(new.notes), k) = Values(modified, {f} \cap F, k)
      BY <3>2, ValuesLocal
    <3> QED  BY <3>1, <3>3
  <2>2. CASE f \notin F /\ f \in del
    <3>1. {x \in new.byPath : x[1] = f} = {}
      BY <1>1, <2>2 DEF Values
    <3>2. f \notin NoteRows(new.notes)
      BY <1>4, <2>2 DEF MergeRefreshedNotes, NoteRows
    <3>3. \A c : Values(new.notes, {f} \cap NoteRows(new.notes), c) = {}
      BY <3>2 DEF Values
    <3> QED  BY <3>1, <3>3
  <2>3. CASE f \notin F /\ f \notin del
    <3>1. {x \in new.byPath : x[1] = f} = {x \in db.byPath : x[1] = f}
      BY <1>1, <2>3 DEF Values
    <3>2. new.notes[f] = db.notes[f] /\ new.notes \in Notes /\ db.notes \in Notes
      BY <1>4, <2>3 DEF MergeRefreshedNotes, NoteRows, PassInputs, Db, Notes
    <3>3. \A c : Values(new.notes, {f} \cap NoteRows(new.notes), c)
                 = Values(db.notes, {f} \cap NoteRows(db.notes), c)
      BY <3>2, ValuesLocal
    <3>4. PICK c \in ClassField : {x \in db.byPath : x[1] = f}
                 = Values(db.notes, {f} \cap NoteRows(db.notes), c)
      BY DEF PassInputs, Coherent, AxesOfNotes
    <3> QED  BY <3>1, <3>3, <3>4
  <2> QED  BY <2>1, <2>2, <2>3
<1> HIDE DEF new
<1>6. AxesInverse(new) /\ AxesOfNotes(new)
  BY <1>3, <1>5 DEF AxesInverse, AxesOfNotes
<1> QED  BY <1>6 DEF new

\* An incremental update of a coherent database is coherent: rows, links and
\* axes patched from the delta are what a recomputation from scratch gives
\* (refresh.rs: reconcile, store.rs: apply_incremental).
THEOREM IncrementalCoherent ==
  ASSUME NEW db, NEW cur, NEW modified, PassInputs(db, cur, modified),
         NEW k \in ClassField
  PROVE  LET u == Reconcile(db, cur, db.files, modified)
         IN  Coherent(ApplyIncremental(db, cur, db.files, u.notes, u.edges, k))
<1> DEFINE u == Reconcile(db, cur, db.files, modified)
           merged == MergeRefreshedNotes(db.notes, Deleted(cur, db.files), modified)
           new == ApplyIncremental(db, cur, db.files, modified, u.edges, k)
<1>1. u.notes = modified
  BY NotesToUpsert
<1>2. new.files = cur /\ new.notes = merged /\ NotesOfFiles(new)
  BY RowsAfter
<1>3. new.links = (db.links \ u.edges.deleted) \cup u.edges.upserted
  BY DEF ApplyIncremental
<1>4. LinksOfNotes(new)
  BY <1>2, <1>3, LinksAfter DEF LinksOfNotes
<1>5. AxesInverse(new) /\ AxesOfNotes(new)
  BY AxesAfter
<1> HIDE DEF new
<1>6. Coherent(new)
  BY <1>2, <1>4, <1>5 DEF Coherent
<1> QED  BY <1>1, <1>6 DEF new

\* So is a rebuilt one (service.rs: rebuild, store.rs: apply_rebuild).
THEOREM RebuildCoherent ==
  ASSUME NEW cur \in Files, NEW notes \in Notes, NEW k \in ClassField,
         NoteRows(notes) = Present(cur) \cap NotePath
  PROVE  Coherent(ApplyRebuild(BuildIndex(cur, notes), k))
<1> DEFINE new == ApplyRebuild(BuildIndex(cur, notes), k)
<1>1. [f \in Path |-> IF cur[f] = Absent THEN NoBody ELSE notes[f]] = notes
  <2>1. \A f \in Path : (IF cur[f] = Absent THEN NoBody ELSE notes[f]) = notes[f]
    BY DEF NoteRows, Present
  <2> QED  BY <2>1 DEF Notes
<1>2. {e \in EdgesFor(cur, notes) : cur[e[1]] # Absent} = EdgesFor(cur, notes)
  <2>1. ASSUME NEW e \in EdgesFor(cur, notes)  PROVE cur[e[1]] # Absent
    <3>1. /\ e[1] \in Path /\ e[2] \in Path /\ notes[e[2]] # NoBody
          /\ e[1] \in ResolveNote(Present(cur), e[2], notes[e[2]])
      BY DEF EdgesFor, Edge
    <3>2. notes[e[2]] \in Body /\ Present(cur) \in SUBSET Path
      BY <3>1 DEF Notes, Present
    <3>3. e[1] \in Present(cur)
      BY <3>1, <3>2, ResolveNotePresent
    <3> QED  BY <3>3 DEF Present
  <2> QED  BY <2>1
<1>3. BuildIndex(cur, notes) = [files |-> cur, notes |-> notes,
                                links |-> EdgesFor(cur, notes)]
  BY <1>1, <1>2 DEF BuildIndex, Assemble, WithResolver
<1>4. /\ new.files = cur /\ new.notes = notes /\ new.links = EdgesFor(cur, notes)
      /\ new.byPath = Values(notes, NoteRows(notes), k)
      /\ new.byValue = Flip(new.byPath)
  BY <1>3 DEF ApplyRebuild
<1>5. \A f \in Path : {x \in new.byPath : x[1] = f}
                        = Values(notes, {f} \cap NoteRows(notes), k)
  BY <1>4 DEF Values
<1> HIDE DEF new
<1>6. Coherent(new)
  BY <1>4, <1>5 DEF Coherent, NotesOfFiles, LinksOfNotes, AxesInverse, AxesOfNotes
<1> QED  BY <1>6 DEF new

\* And an empty one.
LEMMA EmptyCoherent ==
  ASSUME NEW status, ClassField # {}
  PROVE  Coherent(EmptyDb(status))
<1> DEFINE db == EmptyDb(status)
<1>1. NoteRows(db.notes) = {} /\ Present(db.files) = {}
  BY DEF EmptyDb, NoteRows, Present
<1>2. EdgesFor(db.files, db.notes) = {}
  BY DEF EdgesFor, EmptyDb, Edge
<1>3. db.links = {} /\ db.byPath = {} /\ db.byValue = {}
  BY DEF EmptyDb
<1>4. \A f \in Path, k \in ClassField :
        Values(db.notes, {f} \cap NoteRows(db.notes), k) = {}
  BY <1>1 DEF Values
<1> HIDE DEF db
<1>5. Coherent(db)
  BY <1>1, <1>2, <1>3, <1>4
     DEF Coherent, NotesOfFiles, LinksOfNotes, AxesInverse, AxesOfNotes, Flip
<1> QED  BY <1>5 DEF db

-----------------------------------------------------------------------------
(* Types                                                                   *)

LEMMA EmptyType ==
  ASSUME NEW status \in {"missing", "ok", "damaged"}
  PROVE  EmptyDb(status) \in Db
BY DEF EmptyDb, Db, Files, Notes, Stamp, Absent

LEMMA EdgesType == \A files, notes : EdgesFor(files, notes) \in SUBSET Edge
BY DEF EdgesFor

LEMMA ValuesType == \A notes, F, k : Values(notes, F, k) \in SUBSET Axis
BY DEF Values

LEMMA FlipType ==
  ASSUME NEW S \in SUBSET Axis
  PROVE  Flip(S) \in SUBSET {<<x[2], x[1]>> : x \in Axis}
BY DEF Flip

LEMMA MergeType ==
  ASSUME NEW m \in Notes, NEW n \in Notes, NEW D
  PROVE  MergeRefreshedNotes(m, D, n) \in Notes
BY DEF MergeRefreshedNotes, Notes

LEMMA ReconcileType ==
  ASSUME NEW db \in Db, NEW cur \in Files, NEW old \in Files, NEW modified \in Notes
  PROVE  LET u == Reconcile(db, cur, old, modified)
         IN  /\ u.notes \in Notes
             /\ u.edges.links \in SUBSET Edge
             /\ u.edges.upserted \in SUBSET Edge
<1> DEFINE u == Reconcile(db, cur, old, modified)
           links == ReadLinks(db, old)
           merged == MergeRefreshedNotes(db.notes, Deleted(cur, old), modified)
<1>1. links \in SUBSET Edge
  BY DEF ReadLinks, Db
<1>2. merged \in Notes
  BY MergeType DEF Db
<1>3. CASE IsPathsUnchanged(cur, old)
  <2>1. /\ u.notes = modified
        /\ u.edges = PatchAndDiff(links, NoteRows(modified), EdgesFor(cur, modified))
    BY <1>3 DEF Reconcile
  <2> QED  BY <1>1, <2>1, EdgesType DEF PatchAndDiff
<1>4. CASE ~IsPathsUnchanged(cur, old)
  <2>1. /\ u.notes = [f \in Path |-> IF f \in Upserted(cur, old) THEN merged[f] ELSE NoBody]
        /\ u.edges = InlinkDeltaCompute(EdgesFor(cur, merged), links)
    BY <1>4 DEF Reconcile, WithResolver
  <2>2. u.notes \in Notes
    BY <1>2, <2>1 DEF Notes
  <2> QED  BY <1>1, <2>1, <2>2, EdgesType DEF InlinkDeltaCompute
<1> QED  BY <1>3, <1>4

LEMMA IncrementalType ==
  ASSUME NEW db \in Db, NEW cur \in Files, NEW old \in Files, NEW notes \in Notes,
         NEW edges, edges.upserted \in SUBSET Edge, NEW k
  PROVE  ApplyIncremental(db, cur, old, notes, edges, k) \in Db
<1> DEFINE new == ApplyIncremental(db, cur, old, notes, edges, k)
           up == Upserted(cur, old)
           del == Deleted(cur, old)
           F == NoteRows(notes)
           dropped == {x \in db.byPath : x[1] \in del \cup F}
           added == Values(notes, F, k)
           tables == db.tables \cup {"files"}
                     \cup (IF del # {} \/ F # {} THEN {"notes", "axes"} ELSE {})
                     \cup (IF edges.upserted # {} \/ edges.deleted # {}
                             THEN {"links"} ELSE {})
           files == [f \in Path |-> IF f \in up THEN cur[f]
                                    ELSE IF f \in del THEN Absent ELSE db.files[f]]
           rows == [f \in Path |-> IF f \in F THEN notes[f]
                                   ELSE IF f \in del THEN NoBody ELSE db.notes[f]]
<1>1. tables \in SUBSET TABLES
  BY DEF Db, TABLES
<1>2. files \in Files
  BY DEF Db, Files, Stamp, Absent
<1>3. rows \in Notes
  BY DEF Db, Notes
<1>4. (db.links \ edges.deleted) \cup edges.upserted \in SUBSET Edge
  BY DEF Db
<1>5. (db.byPath \ dropped) \cup added \in SUBSET Axis
  BY ValuesType DEF Db
<1>6. (db.byValue \ Flip(dropped)) \cup Flip(added)
        \in SUBSET {<<x[2], x[1]>> : x \in Axis}
  BY ValuesType, FlipType DEF Db
<1>7. new = [status |-> "ok", tables |-> tables, files |-> files, notes |-> rows,
             links |-> (db.links \ edges.deleted) \cup edges.upserted,
             byPath |-> (db.byPath \ dropped) \cup added,
             byValue |-> (db.byValue \ Flip(dropped)) \cup Flip(added)]
  BY DEF ApplyIncremental
<1> HIDE DEF new, tables, files, rows, dropped, added
<1>8. new \in Db
  BY <1>1, <1>2, <1>3, <1>4, <1>5, <1>6, <1>7 DEF Db
<1> QED  BY <1>8 DEF new

LEMMA AssembleType ==
  ASSUME NEW files \in Files, NEW notes \in Notes, NEW links \in SUBSET Edge
  PROVE  LET i == Assemble(files, notes, links)
         IN  i.files \in Files /\ i.notes \in Notes /\ i.links \in SUBSET Edge
BY DEF Assemble, Notes, Files

LEMMA BuildType ==
  ASSUME NEW files \in Files, NEW notes \in Notes
  PROVE  LET i == BuildIndex(files, notes)
         IN  i.files \in Files /\ i.notes \in Notes /\ i.links \in SUBSET Edge
BY AssembleType, EdgesType DEF BuildIndex, WithResolver

LEMMA StoreIndexType ==
  ASSUME NEW db \in Db
  PROVE  LET i == StoreIndex(db)
         IN  i.files \in Files /\ i.notes \in Notes /\ i.links \in SUBSET Edge
<1>1. ReadLinks(db, db.files) \in SUBSET Edge
  BY DEF ReadLinks, Db
<1>2. db.files \in Files /\ db.notes \in Notes
  BY DEF Db
<1> QED  BY <1>1, <1>2, AssembleType DEF StoreIndex

LEMMA IntoIndexType ==
  ASSUME NEW before \in Db, NEW after \in Db, NEW cur \in Files, NEW old \in Files,
         NEW modified \in Notes
  PROVE  LET i == IntoIndex(before, after, cur, old, modified)
         IN  i.files \in Files /\ i.notes \in Notes /\ i.links \in SUBSET Edge
<1> DEFINE stored == IF IsPathsUnchanged(cur, old) THEN after.notes ELSE before.notes
<1>1. MergeRefreshedNotes(stored, Deleted(cur, old), modified) \in Notes
  BY MergeType DEF Db
<1>2. Reconcile(before, cur, old, modified).edges.links \in SUBSET Edge
  BY ReconcileType
<1> QED  BY <1>1, <1>2, AssembleType DEF IntoIndex

LEMMA RebuildType ==
  ASSUME NEW files \in Files, NEW notes \in Notes, NEW k
  PROVE  ApplyRebuild(BuildIndex(files, notes), k) \in Db
<1> DEFINE i == BuildIndex(files, notes)
           axis == Values(i.notes, NoteRows(i.notes), k)
<1>1. i.files \in Files /\ i.notes \in Notes /\ i.links \in SUBSET Edge
  BY BuildType
<1>2. axis \in SUBSET Axis /\ Flip(axis) \in SUBSET {<<x[2], x[1]>> : x \in Axis}
  BY ValuesType, FlipType
<1>3. ApplyRebuild(i, k) = [status |-> "ok", tables |-> TABLES, files |-> i.files,
                            notes |-> i.notes, links |-> i.links,
                            byPath |-> axis, byValue |-> Flip(axis)]
  BY DEF ApplyRebuild
<1> HIDE DEF i, axis
<1>4. ApplyRebuild(i, k) \in Db
  BY <1>1, <1>2, <1>3 DEF Db
<1> QED  BY <1>4 DEF i

-----------------------------------------------------------------------------
(* The steps of IndexRefresh: what they rest on                            *)

LEMMA NoNotesRows == NoteRows(NoNotes) = {} /\ NoNotes \in Notes /\ NoFiles \in Files
BY DEF NoteRows, NoNotes, Notes, NoFiles, Files, Stamp, Absent

LEMMA MineType == TypeOK => \A p \in Proc : Mine(p) \in Db
BY DEF TypeOK, Mine

LEMMA NoIndexType == NoIndex \in Index
BY NoNotesRows DEF NoIndex, Index

LEMMA ServeType ==
  ASSUME NEW i, i.files \in Files, i.notes \in Notes, i.links \in SUBSET Edge
  PROVE  Serve(i) \in Index
BY DEF Serve, Index

\* The states of a handle on its way to a new database are none of the others.
LEMMA GapStates ==
  /\ \A s : Gaps(s) \in Gone
  /\ "replacing" \in Gap /\ "mending" \in Gap /\ "repairing" \in Gap
  /\ \A s \in Gap \cup Gone : s \notin {"closed", "open", "orphan"}
BY DEF Gaps, Gap, Gone

LEMMA CreatedType == TypeOK => Created \in Db
BY EmptyType DEF TypeOK, Created

-----------------------------------------------------------------------------
(* Type correctness                                                        *)

LEMMA InitType == Init => TypeOK
<1> SUFFICES ASSUME Init PROVE TypeOK
  OBVIOUS
<1>1. PICK P \in SUBSET Path : meta = [f \in Path |-> IF f \in P THEN Age[f] ELSE Absent]
  BY DEF Init
<1>2. meta \in Files
  BY <1>1, AgeAssumption DEF Files, Stamp, Absent
<1>3. EmptyDb("missing") \in Db
  BY EmptyType
<1>4. seen \in [Proc -> [Path -> SUBSET Version_]]
  BY DEF Init
<1> QED
  BY <1>2, <1>3, <1>4, NoNotesRows, NoIndexType, AgeAssumption
     DEF Init, TypeOK, Notes

\* The two halves of leaving a command.
LEMMA AbortType ==
  ASSUME TypeOK, NEW p \in Proc, Release(p) \/ Lose(p), Forget(p), faults' \in Nat
  PROVE  TypeOK'
<1>1. EmptyDb("missing") \in Db
  BY EmptyType
<1>2. /\ store' \in Db /\ durable' \in Db /\ orphan' \in [Proc -> Db]
      /\ holder' \in Proc \cup {NoProc}
      /\ conn' \in [Proc -> {"closed", "open", "orphan"} \cup Gap \cup Gone]
  <2>1. CASE Release(p)
    BY <1>1, <2>1 DEF TypeOK, Release
  <2>2. CASE Lose(p)
    BY <1>1, <2>2 DEF TypeOK, Lose
  <2> QED  BY <2>1, <2>2
<1>3. seen' \in [Proc -> [Path -> SUBSET Version_]]
  BY DEF Forget, TypeOK
<1>4. pc' \in [Proc -> {"idle", "collect", "build", "parse", "serve"}]
      /\ cmd' \in [Proc -> Commands \cup {"none"}]
  BY DEF Forget, TypeOK
<1>5. /\ scanned' \in [Proc -> Files] /\ persisted' \in [Proc -> Files]
      /\ parsed' \in [Proc -> Notes] /\ result' \in [Proc -> Index]
      /\ toScan' \in [Proc -> SUBSET Path] /\ toParse' \in [Proc -> SUBSET Path]
  BY NoNotesRows, NoIndexType DEF Forget, TypeOK
<1> QED  BY <1>2, <1>3, <1>4, <1>5 DEF Forget, TypeOK, diskVars

LEMMA WitnessType ==
  ASSUME TypeOK, Witness, meta' \in Files, body' \in Notes
  PROVE  seen' \in [Proc -> [Path -> SUBSET Version_]]
<1>1. ASSUME NEW p \in Proc
      PROVE  [f \in Path |-> seen[p][f] \cup {<<meta'[f], body'[f]>>}]
               \in [Path -> SUBSET Version_]
  BY DEF TypeOK, Version_, Files, Notes
<1> QED  BY <1>1 DEF Witness, TypeOK

LEMMA UserType == TypeOK /\ UserNext => TypeOK'
<1> SUFFICES ASSUME TypeOK, UserNext PROVE TypeOK'
  OBVIOUS
<1> USE DEF UserStep, dbVars, planVars, cmdVars, envVars, diskVars
<1>1. ASSUME NEW f \in Path, NEW b \in Body \cup {NoBody}, WriteFile(f, b)
      PROVE  TypeOK'
  <2>1. meta' \in Files /\ body' \in Notes /\ clock' \in Nat
    BY <1>1 DEF WriteFile, TypeOK, Files, Notes, Stamp
  <2>2. seen' \in [Proc -> [Path -> SUBSET Version_]]
    BY <1>1, <2>1, WitnessType DEF WriteFile
  <2> QED  BY <1>1, <2>1, <2>2 DEF WriteFile, TypeOK
<1>2. ASSUME NEW f \in Path, RemoveFile(f)
      PROVE  TypeOK'
  <2>1. meta' \in Files /\ body' \in Notes /\ clock' \in Nat
    BY <1>2 DEF RemoveFile, TypeOK, Files, Notes, Stamp, Absent
  <2>2. seen' \in [Proc -> [Path -> SUBSET Version_]]
    BY <1>2, <2>1, WitnessType DEF RemoveFile
  <2> QED  BY <1>2, <2>1, <2>2 DEF RemoveFile, TypeOK
<1>3. ASSUME NEW f \in Path, NEW g \in Path, MoveFile(f, g)
      PROVE  TypeOK'
  <2>1. meta' \in Files /\ body' \in Notes /\ clock' \in Nat
    <3>1. meta[f] \in Stamp /\ body[f] \in Body \cup {NoBody}
      BY DEF TypeOK, Files, Notes
    <3>2. meta' \in [Path -> Stamp]
      BY <1>3, <3>1 DEF MoveFile, TypeOK, Files, Stamp, Absent
    <3>3. body' \in [Path -> Body \cup {NoBody}]
      BY <1>3, <3>1 DEF MoveFile, TypeOK, Notes
    <3>4. clock' \in Nat
      BY <1>3 DEF MoveFile, TypeOK
    <3> QED  BY <3>2, <3>3, <3>4 DEF Files, Notes
  <2>2. seen' \in [Proc -> [Path -> SUBSET Version_]]
    BY <1>3, <2>1, WitnessType DEF MoveFile
  <2> QED  BY <1>3, <2>1, <2>2 DEF MoveFile, TypeOK
<1>4. ASSUME NEW k \in ClassField, SetClassField(k)
      PROVE  TypeOK'
  BY <1>4 DEF SetClassField, TypeOK
<1> QED  BY <1>1, <1>2, <1>3, <1>4 DEF UserNext

LEMMA OpenType ==
  ASSUME TypeOK, NEW p \in Proc,
         OpenStore(p) \/ OpenUnusable(p) \/ RemoveDb(p) \/ RecreateDb(p)
           \/ OpenDamaged(p)
  PROVE  TypeOK'
<1> USE DEF dbVars, planVars, cmdVars, envVars, diskVars, ProcStep
<1>1. EmptyDb("missing") \in Db /\ Created \in Db /\ Created.files \in Files
  BY EmptyType, CreatedType DEF Db
<1>2. CASE OpenStore(p) \/ RecreateDb(p)
  <2>1. /\ store' \in Db /\ durable' \in Db /\ holder' = p
        /\ orphan' = orphan
        /\ conn' \in [Proc -> {"closed", "open", "orphan"} \cup Gap \cup Gone]
        /\ persisted' \in [Proc -> Files]
    BY <1>1, <1>2 DEF OpenStore, RecreateDb, Opened, TypeOK
  <2> QED  BY <1>2, <2>1 DEF OpenStore, RecreateDb, TypeOK
<1>3. CASE OpenUnusable(p) \/ OpenDamaged(p)
  <2>1. PICK s \in Gap : conn' = [conn EXCEPT ![p] = s]
    <3>1. CASE OpenUnusable(p)
      BY <3>1, GapStates DEF OpenUnusable
    <3>2. CASE OpenDamaged(p)
      BY <3>2, GapStates DEF OpenDamaged
    <3> QED  BY <1>3, <3>1, <3>2
  <2>2. conn \in [Proc -> {"closed", "open", "orphan"} \cup Gap \cup Gone]
    BY DEF TypeOK
  <2>3. conn' \in [Proc -> {"closed", "open", "orphan"} \cup Gap \cup Gone]
    BY <2>1, <2>2
  <2> QED  BY <1>3, <2>3 DEF OpenUnusable, OpenDamaged, TypeOK
<1>4. CASE RemoveDb(p)
  <2>1. /\ store' \in Db /\ durable' \in Db /\ holder' = NoProc
        /\ orphan' \in [Proc -> Db]
        /\ conn' \in [Proc -> {"closed", "open", "orphan"} \cup Gap \cup Gone]
    BY <1>1, <1>4, GapStates DEF RemoveDb, TypeOK
  <2> QED  BY <1>4, <2>1 DEF RemoveDb, TypeOK
<1> QED  BY <1>2, <1>3, <1>4

\* What a commit writes and what the command then serves.
LEMMA NextDbType ==
  ASSUME TypeOK, NEW p \in Proc
  PROVE  NextDb(p) \in Db
<1>1. /\ Mine(p) \in Db /\ scanned[p] \in Files /\ persisted[p] \in Files
      /\ parsed[p] \in Notes
  BY MineType DEF TypeOK
<1>2. Update(p).notes \in Notes /\ Update(p).edges.upserted \in SUBSET Edge
  BY <1>1, ReconcileType DEF Update
<1>3. ApplyIncremental(Mine(p), scanned[p], persisted[p], Update(p).notes,
                       Update(p).edges, key[p]) \in Db
  BY <1>1, <1>2, IncrementalType
<1>4. ApplyRebuild(BuildIndex(scanned[p], parsed[p]), key[p]) \in Db
  BY <1>1, RebuildType
<1> QED  BY <1>3, <1>4 DEF NextDb

LEMMA OutcomeType ==
  ASSUME TypeOK, NEW p \in Proc, NEW after \in Db
  PROVE  Serve(Outcome(p, after)) \in Index
<1>1. /\ Mine(p) \in Db /\ scanned[p] \in Files /\ persisted[p] \in Files
      /\ parsed[p] \in Notes
  BY MineType DEF TypeOK
<1>2. CASE cmd[p] = "rebuild"
  BY <1>1, <1>2, BuildType, ServeType DEF Outcome
<1>3. CASE cmd[p] = "refresh_store"
  BY <1>3, StoreIndexType, ServeType DEF Outcome
<1>4. CASE cmd[p] \notin {"rebuild", "refresh_store"}
  BY <1>1, <1>4, IntoIndexType, ServeType DEF Outcome
<1> QED  BY <1>2, <1>3, <1>4

LEMMA PassType ==
  ASSUME TypeOK, NEW p \in Proc,
         \/ \E f \in Path : ScanFile(p, f) \/ ParseNote(p, f)
         \/ ServeFresh(p) \/ PlanParse(p) \/ Persist(p)
  PROVE  TypeOK'
<1> USE DEF dbVars, planVars, cmdVars, envVars, diskVars, ProcStep
<1>1. ASSUME NEW f \in Path, ScanFile(p, f)
      PROVE  TypeOK'
  <2>1. scanned' \in [Proc -> Files] /\ toScan' \in [Proc -> SUBSET Path]
    BY <1>1 DEF ScanFile, TypeOK, Files
  <2> QED  BY <1>1, <2>1 DEF ScanFile, TypeOK
<1>2. ASSUME NEW f \in Path, ParseNote(p, f)
      PROVE  TypeOK'
  <2>1. parsed' \in [Proc -> Notes] /\ toParse' \in [Proc -> SUBSET Path]
    BY <1>2 DEF ParseNote, TypeOK, Notes
  <2> QED  BY <1>2, <2>1 DEF ParseNote, TypeOK
<1>3. CASE ServeFresh(p)
  <2>1. Serve(StoreIndex(Mine(p))) \in Index
    BY MineType, StoreIndexType, ServeType
  <2> QED  BY <1>3, <2>1 DEF ServeFresh, TypeOK
<1>4. CASE PlanParse(p)
  <2>1. PICK S \in SUBSET Path : toParse' = [toParse EXCEPT ![p] = S]
    <3>1. \A S : S \cap NotePath \in SUBSET Path
      BY NotePathAssumption
    <3> QED  BY <1>4, <3>1 DEF PlanParse
  <2> QED  BY <1>4, <2>1 DEF PlanParse, TypeOK
<1>5. CASE Persist(p)
  <2>1. NextDb(p) \in Db /\ Serve(Outcome(p, NextDb(p))) \in Index
    BY NextDbType, OutcomeType
  <2>2. store' \in Db /\ orphan' \in [Proc -> Db]
    BY SMTT(60), <1>5, <2>1 DEF Persist, TypeOK
  <2> QED  BY <1>5, <2>1, <2>2 DEF Persist, TypeOK
<1> QED  BY <1>1, <1>2, <1>3, <1>4, <1>5

LEMMA LeaveType ==
  ASSUME TypeOK, NEW p \in Proc,
         \/ OpenFails(p) \/ Finish(p) \/ PersistFails(p) \/ IoError(p) \/ Crash(p)
         \/ \E f \in Path : ScanVanished(p, f) \/ ParseVanished(p, f)
  PROVE  TypeOK'
<1>1. CASE Abort(p)
  <2>1. faults' \in Nat
    BY <1>1 DEF Abort, TypeOK
  <2> QED  BY <1>1, <2>1, AbortType DEF Abort
<1>2. CASE PersistFails(p)
  <2>1. Serve(Outcome(p, Mine(p))) \in Index
    BY MineType, OutcomeType
  <2>2. CASE cmd[p] = "refresh"
    <3>1. /\ faults' = faults + 1
          /\ pc' = [pc EXCEPT ![p] = "serve"]
          /\ result' = [result EXCEPT ![p] = Serve(Outcome(p, Mine(p)))]
          /\ UNCHANGED <<diskVars, dbVars, planVars, cmdVars, conn, seen,
                         classField, settings>>
      BY <1>2, <2>2 DEF PersistFails
    <3>2. result' \in [Proc -> Index] /\ faults' \in Nat
          /\ pc' \in [Proc -> {"idle", "collect", "build", "parse", "serve"}]
      BY <2>1, <3>1 DEF TypeOK
    <3> QED  BY <3>1, <3>2 DEF TypeOK, dbVars, planVars, cmdVars, diskVars
  <2>3. CASE cmd[p] # "refresh"
    <3>1. faults' \in Nat /\ Release(p) /\ Forget(p)
      BY <1>2, <2>3 DEF PersistFails, TypeOK
    <3> QED  BY <3>1, AbortType
  <2> QED  BY <2>2, <2>3
<1>3. CASE IoError(p)
  <2>1. faults' \in Nat
    BY <1>3 DEF IoError, TypeOK
  <2> QED  BY <1>3, <2>1, AbortType DEF IoError
<1>4. CASE Crash(p)
  <2>1. faults' \in Nat
    BY <1>4 DEF Crash, TypeOK
  <2> QED  BY <1>4, <2>1, AbortType DEF Crash
<1> QED  BY <1>1, <1>2, <1>3, <1>4 DEF OpenFails, Finish, ScanVanished, ParseVanished

LEMMA NextType == TypeOK /\ [Next]_vars => TypeOK'
<1> SUFFICES ASSUME TypeOK, [Next]_vars PROVE TypeOK'
  OBVIOUS
<1>1. ASSUME NEW p \in Proc, NEW c \in Commands, Begin(p, c)
      PROVE  TypeOK'
  <2>1. seen' \in [Proc -> [Path -> SUBSET Version_]]
    BY <1>1 DEF Begin, Now, Version, Version_, TypeOK, Files, Notes
  <2>2. pc' \in [Proc -> {"idle", "collect", "build", "parse", "serve"}]
        /\ cmd' \in [Proc -> Commands \cup {"none"}] /\ key' \in [Proc -> ClassField]
        /\ toScan' \in [Proc -> SUBSET Path]
    BY <1>1 DEF Begin, TypeOK
  <2> QED  BY <1>1, <2>1, <2>2 DEF Begin, TypeOK, diskVars, dbVars, envVars
<1>2. ASSUME NEW p \in Proc, ProcNext(p)
      PROVE  TypeOK'
  BY <1>2, OpenType, PassType, LeaveType DEF ProcNext
<1>3. CASE FaultNext
  <2>1. CASE DamageDb
    BY <2>1, EmptyType DEF DamageDb, TypeOK, diskVars, planVars, cmdVars
  <2> QED  BY <1>3, <2>1, LeaveType DEF FaultNext
<1>4. CASE UserNext
  BY <1>4, UserType
<1>5. CASE UNCHANGED vars
  BY <1>5 DEF vars, TypeOK
<1> QED  BY <1>1, <1>2, <1>3, <1>4, <1>5 DEF Next

\* Every variable keeps its type in every reachable state.
THEOREM TypeCorrect == Spec => []TypeOK
<1> QED  BY InitType, NextType, PTL DEF Spec

-----------------------------------------------------------------------------
(* The lock                                                                *)

LEMMA LeaveLock ==
  ASSUME TypeOK, LockExclusive, NEW p \in Proc, Release(p) \/ Lose(p)
  PROVE  LockExclusive'
<1>1. conn' = [conn EXCEPT ![p] = "closed"]
      /\ holder' = IF conn[p] = "open" THEN NoProc ELSE holder
  BY DEF Release, Lose
<1> QED  BY <1>1, ProcAssumption DEF LockExclusive, TypeOK

\* The actions that touch neither a handle nor the lock.
KeepsHandles == UNCHANGED <<conn, holder>>

LEMMA HandleSteps ==
  ASSUME [Next]_vars
  PROVE  \/ KeepsHandles
         \/ \E p \in Proc : OpenStore(p) \/ RecreateDb(p)
         \/ \E p \in Proc : OpenUnusable(p) \/ OpenDamaged(p)
         \/ \E p \in Proc : RemoveDb(p)
         \/ \E p \in Proc : (Release(p) \/ Lose(p)) /\ Forget(p)
<1> USE DEF KeepsHandles, dbVars, planVars, cmdVars, envVars, diskVars, ProcStep, UserStep
<1>1. ASSUME NEW p \in Proc, NEW c \in Commands, Begin(p, c)  PROVE KeepsHandles
  BY <1>1 DEF Begin
<1>2. ASSUME UserNext  PROVE KeepsHandles
  BY <1>2 DEF UserNext, WriteFile, RemoveFile, MoveFile, SetClassField
<1>3. ASSUME DamageDb  PROVE KeepsHandles
  BY <1>3 DEF DamageDb
<1>4. ASSUME NEW p \in Proc, PersistFails(p)
      PROVE  KeepsHandles \/ (Release(p) /\ Forget(p))
  BY <1>4 DEF PersistFails
<1>5. ASSUME NEW p \in Proc, NEW f \in Path, ScanFile(p, f) \/ ParseNote(p, f)
      PROVE  KeepsHandles
  BY <1>5 DEF ScanFile, ParseNote
<1>6. ASSUME NEW p \in Proc, ServeFresh(p) \/ PlanParse(p) \/ Persist(p)
      PROVE  KeepsHandles
  BY <1>6 DEF ServeFresh, PlanParse, Persist
<1>7. ASSUME NEW p \in Proc, NEW f \in Path, ScanVanished(p, f) \/ ParseVanished(p, f)
      PROVE  Release(p) /\ Forget(p)
  BY <1>7 DEF ScanVanished, ParseVanished, Abort
<1>8. ASSUME NEW p \in Proc, OpenFails(p) \/ Finish(p) \/ IoError(p)
      PROVE  Release(p) /\ Forget(p)
  BY <1>8 DEF OpenFails, Finish, IoError, Abort
<1>9. ASSUME NEW p \in Proc, Crash(p)  PROVE Lose(p) /\ Forget(p)
  BY <1>9 DEF Crash
<1>10. ASSUME UNCHANGED vars  PROVE KeepsHandles
  BY <1>10 DEF vars
<1> QED
  BY <1>1, <1>2, <1>3, <1>4, <1>5, <1>6, <1>7, <1>8, <1>9, <1>10
     DEF Next, ProcNext, FaultNext

LEMMA NextLock == TypeOK /\ LockExclusive /\ [Next]_vars => LockExclusive'
<1> SUFFICES ASSUME TypeOK, LockExclusive, [Next]_vars PROVE LockExclusive'
  OBVIOUS
<1>1. CASE KeepsHandles
  BY <1>1 DEF KeepsHandles, LockExclusive
<1>2. ASSUME NEW p \in Proc, OpenStore(p) \/ RecreateDb(p)
      PROVE  LockExclusive'
  <2>1. conn' = [conn EXCEPT ![p] = "open"] /\ holder' = p /\ holder = NoProc
    BY <1>2 DEF OpenStore, RecreateDb, Opened
  <2> QED  BY <2>1, ProcAssumption DEF LockExclusive, TypeOK
<1>3. ASSUME NEW p \in Proc, OpenUnusable(p) \/ OpenDamaged(p)
      PROVE  LockExclusive'
  <2>1. PICK s \in Gap : conn' = [conn EXCEPT ![p] = s]
    BY <1>3, GapStates DEF OpenUnusable, OpenDamaged
  <2>2. holder' = holder /\ holder = NoProc /\ s # "open"
    BY <1>3, GapStates DEF OpenUnusable, OpenDamaged, dbVars
  <2> QED  BY <2>1, <2>2, ProcAssumption DEF LockExclusive, TypeOK
<1>4. ASSUME NEW p \in Proc, RemoveDb(p)
      PROVE  LockExclusive'
  BY <1>4, GapStates, ProcAssumption DEF RemoveDb, LockExclusive, TypeOK
<1>5. ASSUME NEW p \in Proc, Release(p) \/ Lose(p)
      PROVE  LockExclusive'
  BY <1>5, LeaveLock
<1> QED  BY <1>1, <1>2, <1>3, <1>4, <1>5, HandleSteps

-----------------------------------------------------------------------------
(* The disk                                                                *)

LEMMA NextDisk == TypeOK /\ DiskNotes /\ [Next]_vars => DiskNotes'
<1> SUFFICES ASSUME TypeOK, DiskNotes, [Next]_vars PROVE DiskNotes'
  OBVIOUS
<1> USE DEF dbVars, planVars, cmdVars, envVars, diskVars, ProcStep, UserStep
<1>1. CASE UNCHANGED <<meta, body>>
  BY <1>1 DEF DiskNotes
<1>2. CASE UserNext
  <2>1. ASSUME NEW f \in Path, NEW b \in Body \cup {NoBody}, WriteFile(f, b)
        PROVE  DiskNotes'
    <3>1. clock + 1 # Absent /\ (b # NoBody <=> f \in NotePath)
      BY <2>1, NoBodyAssumption DEF WriteFile, BodiesAt, TypeOK, Absent
    <3> QED  BY <2>1, <3>1 DEF WriteFile, DiskNotes, TypeOK, Files, Notes
  <2>2. ASSUME NEW f \in Path, RemoveFile(f)
        PROVE  DiskNotes'
    BY <2>2 DEF RemoveFile, DiskNotes, TypeOK, Files, Notes
  <2>3. ASSUME NEW f \in Path, NEW g \in Path, MoveFile(f, g)
        PROVE  DiskNotes'
    <3>1. /\ \A x \in Path : meta'[x] = IF x = g THEN meta[f]
                                        ELSE IF x = f THEN Absent ELSE meta[x]
          /\ \A x \in Path : body'[x] = IF x = g THEN body[f]
                                        ELSE IF x = f THEN NoBody ELSE body[x]
          /\ f \in NotePath /\ g \in NotePath /\ f # g /\ meta[f] # Absent
      BY <2>3 DEF MoveFile, TypeOK, Files, Notes
    <3> QED  BY <3>1 DEF DiskNotes
  <2>4. ASSUME NEW k \in ClassField, SetClassField(k)
        PROVE  DiskNotes'
    BY <2>4 DEF SetClassField, DiskNotes
  <2> QED  BY <1>2, <2>1, <2>2, <2>3, <2>4 DEF UserNext
<1>3. ASSUME NEW p \in Proc, NEW c \in Commands, Begin(p, c)
      PROVE  UNCHANGED <<meta, body>>
  BY <1>3 DEF Begin
<1>4. ASSUME NEW p \in Proc, ProcNext(p)
      PROVE  UNCHANGED <<meta, body>>
  BY <1>4 DEF ProcNext, OpenStore, OpenUnusable, RemoveDb, RecreateDb, OpenDamaged,
     OpenFails, ScanFile, ScanVanished, ServeFresh, PlanParse, ParseNote, ParseVanished,
     Persist, Finish, Abort, Forget
<1>5. CASE FaultNext
  BY <1>5, <1>1 DEF FaultNext, DamageDb, PersistFails, IoError, Crash, Forget
<1> QED  BY <1>1, <1>2, <1>3, <1>4, <1>5 DEF Next, vars

-----------------------------------------------------------------------------
(* Progress of the commands                                                *)

ProgressOf(p) == 
  /\ pc[p] = "build" => cmd[p] = "rebuild" /\ conn[p] = "closed"
  /\ pc[p] = "collect" => cmd[p] # "rebuild"
  /\ pc[p] = "idle" => conn[p] = "closed" /\ toScan[p] = {}
  /\ pc[p] \in {"idle", "collect", "build"} => toParse[p] = {} /\ parsed[p] = NoNotes
  /\ pc[p] = "parse" =>
       /\ cmd[p] = "rebuild" \/ Connected(p)
       /\ toScan[p] = {}
       /\ toParse[p] \subseteq ToParse(p)
       /\ NoteRows(parsed[p]) = ToParse(p) \ toParse[p]
  /\ pc[p] = "serve" => conn[p] \notin Gap \cup Gone /\ toScan[p] = {}

LEMMA ProgressByProcess == Progress <=> \A p \in Proc : ProgressOf(p)
BY DEF Progress, ProgressOf

\* A process keeps its progress while its own state stays, its handle perhaps
\* unlinked under it.
Undisturbed(q) ==
  /\ pc'[q] = pc[q] /\ cmd'[q] = cmd[q] /\ toScan'[q] = toScan[q]
  /\ scanned'[q] = scanned[q] /\ persisted'[q] = persisted[q]
  /\ toParse'[q] = toParse[q] /\ parsed'[q] = parsed[q]
  /\ conn'[q] = conn[q] \/ (conn[q] = "open" /\ conn'[q] = "orphan")

LEMMA UndisturbedProgress ==
  ASSUME NEW q \in Proc, ProgressOf(q), Undisturbed(q)
  PROVE  ProgressOf(q)'
BY DEF ProgressOf, Undisturbed, Connected, ToParse, Gap, Gone

LEMMA ForgetProgress ==
  ASSUME TypeOK, NEW p \in Proc, Release(p) \/ Lose(p), Forget(p)
  PROVE  ProgressOf(p)' /\ \A q \in Proc \ {p} : Undisturbed(q)
<1>1. conn' = [conn EXCEPT ![p] = "closed"]
  BY DEF Release, Lose
<1>2. \A q \in Proc \ {p} : Undisturbed(q)
  BY <1>1 DEF Forget, Undisturbed, TypeOK
<1>3. pc'[p] = "idle" /\ conn'[p] = "closed" /\ toScan'[p] = {} /\ toParse'[p] = {}
      /\ parsed'[p] = NoNotes
  BY <1>1 DEF Forget, TypeOK
<1>4. NoNotes' = NoNotes
  BY DEF NoNotes
<1> QED  BY <1>2, <1>3, <1>4 DEF ProgressOf

LEMMA NextProgress ==
  TypeOK /\ LockExclusive /\ DiskNotes /\ Progress /\ [Next]_vars => Progress'
<1> SUFFICES ASSUME TypeOK, LockExclusive, DiskNotes, Progress, [Next]_vars
             PROVE  Progress'
  OBVIOUS
<1>0. \A p \in Proc : ProgressOf(p)
  BY ProgressByProcess
<1>a. SUFFICES ASSUME NEW q \in Proc PROVE ProgressOf(q)'
  BY DEF Progress, ProgressOf
<1> USE DEF dbVars, planVars, cmdVars, envVars, diskVars, ProcStep, UserStep
<1>1. CASE Undisturbed(q)
  BY <1>0, <1>1, UndisturbedProgress
<1>2. CASE UserNext \/ DamageDb \/ UNCHANGED vars
  <2>1. Undisturbed(q)
    BY <1>2 DEF UserNext, WriteFile, RemoveFile, MoveFile, SetClassField, DamageDb,
       vars, Undisturbed
  <2> QED  BY <1>1, <2>1
<1>3. ASSUME NEW p \in Proc, (Release(p) \/ Lose(p)) /\ Forget(p)
      PROVE  ProgressOf(q)'
  BY <1>1, <1>3, ForgetProgress
<1>4. ASSUME NEW p \in Proc, NEW c \in Commands, Begin(p, c)
      PROVE  ProgressOf(q)'
  <2>1. CASE q # p
    BY <1>1, <1>4, <2>1 DEF Begin, Undisturbed, TypeOK
  <2>2. CASE q = p
    <3>1. /\ pc'[p] = IF c = "rebuild" THEN "build" ELSE "collect"
          /\ cmd'[p] = c /\ conn'[p] = conn[p] /\ pc[p] = "idle"
          /\ toParse'[p] = toParse[p] /\ parsed'[p] = parsed[p]
      BY <1>4 DEF Begin, TypeOK
    <3>2. NoNotes' = NoNotes
      BY DEF NoNotes
    <3> QED  BY <1>0, <2>2, <3>1, <3>2 DEF ProgressOf
  <2> QED  BY <2>1, <2>2
<1>5. ASSUME NEW p \in Proc,
             OpenStore(p) \/ OpenUnusable(p) \/ RecreateDb(p) \/ OpenDamaged(p)
      PROVE  ProgressOf(q)'
  <2>1. CASE q # p
    BY <1>1, <1>5, <2>1
       DEF OpenStore, OpenUnusable, RecreateDb, OpenDamaged, Opened, Undisturbed, TypeOK
  <2>2. CASE q = p
    <3>1. /\ UNCHANGED <<pc, cmd, toScan, scanned, toParse, parsed>>
          /\ conn'[p] \in {"open"} \cup Gap
          /\ conn[p] \in {"closed"} \cup Gone
      BY <1>5, GapStates DEF Gone,  OpenStore, OpenUnusable, RecreateDb, OpenDamaged, Opened, TypeOK,
         MayOpen
    <3>2. pc[p] = "collect" \/ (pc[p] = "parse" /\ cmd[p] = "rebuild")
      <4>1. CASE MayOpen(p)
        BY <4>1 DEF MayOpen
      <4>2. CASE conn[p] \in Gone
        BY <1>0, <4>2, GapStates DEF ProgressOf, Connected, TypeOK
      <4> QED  BY <1>5, <4>1, <4>2
           DEF OpenStore, OpenUnusable, RecreateDb, OpenDamaged, Gone
    <3>3. ToParse(p)' = ToParse(p) \/ pc[p] = "collect"
      BY <3>1, <3>2 DEF ToParse
    <3>4. NoNotes' = NoNotes
      BY DEF NoNotes
    <3>5. conn'[p] # "closed" /\ ~Connected(p)
      BY <3>1, GapStates DEF Connected
    <3> QED  BY <1>0, <2>2, <3>1, <3>2, <3>3, <3>4, <3>5 DEF ProgressOf
  <2> QED  BY <2>1, <2>2
<1>6. ASSUME NEW p \in Proc, RemoveDb(p)
      PROVE  ProgressOf(q)'
  <2>1. CASE q # p
    <3>1. Undisturbed(q)
      BY <1>6, <2>1 DEF RemoveDb, Undisturbed, TypeOK, LockExclusive
    <3> QED  BY <1>1, <3>1
  <2>2. CASE q = p
    <3>1. /\ UNCHANGED <<pc, cmd, toScan, scanned, persisted, toParse, parsed>>
          /\ conn'[p] \in Gone /\ conn[p] \in Gap
      BY <1>6, GapStates DEF RemoveDb, TypeOK
    <3>2. ToParse(p)' = ToParse(p) /\ NoNotes' = NoNotes
      BY <3>1 DEF ToParse, NoNotes
    <3>3. ~Connected(p) /\ conn[p] # "closed"
      BY <3>1, GapStates DEF Connected
    <3> QED  BY <1>0, <2>2, <3>1, <3>2, <3>3 DEF ProgressOf
  <2> QED  BY <2>1, <2>2
<1>7. ASSUME NEW p \in Proc, NEW f \in Path, ScanFile(p, f)
      PROVE  ProgressOf(q)'
  <2>1. CASE q # p
    BY <1>1, <1>7, <2>1 DEF ScanFile, Undisturbed, TypeOK
  <2>2. CASE q = p
    <3>1. /\ UNCHANGED <<pc, cmd, conn, persisted, toParse, parsed>> /\ toScan[p] # {}
      BY <1>7 DEF ScanFile
    <3>2. pc[p] \in {"build", "collect"}
      BY <1>0, <3>1 DEF ProgressOf, TypeOK
    <3>3. NoNotes' = NoNotes
      BY DEF NoNotes
    <3> QED  BY <1>0, <2>2, <3>1, <3>2, <3>3 DEF ProgressOf
  <2> QED  BY <2>1, <2>2
<1>8. ASSUME NEW p \in Proc, PlanParse(p)
      PROVE  ProgressOf(q)'
  <2>1. CASE q # p
    BY <1>1, <1>8, <2>1 DEF PlanParse, Undisturbed, TypeOK
  <2>2. CASE q = p
    <3>1. /\ UNCHANGED <<cmd, conn, toScan, scanned, persisted, parsed>>
          /\ pc'[p] = "parse" /\ toScan[p] = {}
      BY <1>8 DEF PlanParse, TypeOK
    <3>2. parsed[p] = NoNotes /\ toParse'[p] = ToParse(p)
          /\ (cmd[p] = "rebuild" \/ Connected(p))
      <4>1. CASE pc[p] = "build"
        BY <1>0, <1>8, <4>1 DEF PlanParse, ProgressOf, ToParse, TypeOK, Collected
      <4>2. CASE pc[p] = "collect"
        BY <1>0, <1>8, <4>2 DEF PlanParse, ProgressOf, ToParse, TypeOK, Collected
      <4> QED  BY <1>8, <4>1, <4>2 DEF PlanParse, Collected
    <3>3. ToParse(p)' = ToParse(p) /\ Connected(p)' = Connected(p)
      BY <3>1 DEF ToParse, Connected
    <3>4. NoteRows(parsed'[p]) = {}
      BY <3>1, <3>2, NoNotesRows
    <3> QED  BY <2>2, <3>1, <3>2, <3>3, <3>4 DEF ProgressOf
  <2> QED  BY <2>1, <2>2
<1>9. ASSUME NEW p \in Proc, NEW f \in Path, ParseNote(p, f)
      PROVE  ProgressOf(q)'
  <2>1. CASE q # p
    BY <1>1, <1>9, <2>1 DEF ParseNote, Undisturbed, TypeOK
  <2>2. CASE q = p
    <3>1. /\ UNCHANGED <<pc, cmd, conn, toScan, scanned, persisted>>
          /\ f \in toParse[p] /\ toParse'[p] = toParse[p] \ {f}
          /\ parsed'[p] = [parsed[p] EXCEPT ![f] = body[f]] /\ meta[f] # Absent
      BY <1>9 DEF ParseNote, TypeOK
    <3>2. pc[p] = "parse" \/ pc[p] = "serve"
      BY <1>0, <3>1 DEF ProgressOf, TypeOK
    <3>3. CASE pc[p] = "parse"
      <4>1. f \in NotePath /\ body[f] # NoBody
        BY <1>0, <3>1, <3>3 DEF ProgressOf, ToParse, DiskNotes
      <4>2. NoteRows(parsed'[p]) = NoteRows(parsed[p]) \cup {f}
        BY <3>1, <4>1 DEF NoteRows, TypeOK, Notes
      <4>3. ToParse(p)' = ToParse(p) /\ Connected(p)' = Connected(p)
        BY <3>1 DEF ToParse, Connected
      <4> QED  BY <1>0, <2>2, <3>1, <3>3, <4>2, <4>3 DEF ProgressOf
    <3>4. CASE pc[p] = "serve"
      BY <1>0, <2>2, <3>1, <3>4 DEF ProgressOf
    <3> QED  BY <3>2, <3>3, <3>4
  <2> QED  BY <2>1, <2>2
<1>10. ASSUME NEW p \in Proc, ServeFresh(p) \/ Persist(p) \/ PersistFails(p)
       PROVE  ProgressOf(q)'
  <2>1. CASE Release(p) /\ Forget(p)
    BY <1>3, <2>1
  <2>2. CASE ~(Release(p) /\ Forget(p))
    <3>1. /\ UNCHANGED <<cmd, conn, toScan, scanned, persisted, toParse, parsed>>
          /\ pc' = [pc EXCEPT ![p] = "serve"] /\ Connected(p)
          /\ (pc[p] = "collect" /\ toScan[p] = {}) \/ pc[p] = "parse"
      BY <1>10, <2>2 DEF ServeFresh, Persist, PersistFails, Ready, Collected
    <3>2. CASE q # p
      BY <1>1, <3>1, <3>2 DEF Undisturbed, TypeOK
    <3>3. CASE q = p
      BY <1>0, <3>1, <3>3, GapStates DEF ProgressOf, Connected, TypeOK
    <3> QED  BY <3>2, <3>3
  <2> QED  BY <2>1, <2>2
<1>11. ASSUME NEW p \in Proc, NEW f \in Path, ScanVanished(p, f) \/ ParseVanished(p, f)
       PROVE  ProgressOf(q)'
  BY <1>3, <1>11 DEF ScanVanished, ParseVanished, Abort
<1>12. ASSUME NEW p \in Proc, OpenFails(p) \/ Finish(p) \/ IoError(p) \/ Crash(p)
       PROVE  ProgressOf(q)'
  BY <1>3, <1>12 DEF OpenFails, Finish, IoError, Crash, Abort
<1>13. ASSUME NEW p \in Proc, ProcNext(p)
       PROVE  ProgressOf(q)'
  BY <1>5, <1>6, <1>7, <1>8, <1>9, <1>10, <1>11, <1>12, <1>13 DEF ProcNext
<1>14. CASE FaultNext
  BY <1>2, <1>10, <1>12, <1>14 DEF FaultNext
<1> QED  BY <1>2, <1>4, <1>13, <1>14 DEF Next

-----------------------------------------------------------------------------
(* The snapshot a delta is computed against                                *)

SnapshotOf(q) ==
  Connected(q) /\ pc[q] \in {"collect", "parse"} => persisted[q] = Mine(q).files

\* A process keeps its snapshot while its handle's database stays.
SameSnapshot(q) ==
  /\ persisted'[q] = persisted[q] /\ Mine(q)' = Mine(q)
  /\ Connected(q)' => Connected(q)
  /\ pc'[q] \in {"collect", "parse"} => pc[q] \in {"collect", "parse"}

LEMMA SameSnapshotOf ==
  ASSUME NEW q \in Proc, SnapshotOf(q), SameSnapshot(q)
  PROVE  SnapshotOf(q)'
BY DEF SnapshotOf, SameSnapshot

LEMMA LeaveSnapshot ==
  ASSUME TypeOK, LockExclusive, NEW p \in Proc, Release(p) \/ Lose(p), Forget(p),
         NEW q \in Proc, SnapshotOf(q)
  PROVE  SnapshotOf(q)'
<1>1. conn' = [conn EXCEPT ![p] = "closed"]
  BY DEF Release, Lose
<1>2. CASE q = p
  BY <1>1, <1>2 DEF SnapshotOf, Connected, TypeOK
<1>3. CASE q # p
  <2>1. conn'[q] = conn[q] /\ orphan'[q] = orphan[q]
        /\ persisted'[q] = persisted[q] /\ pc'[q] = pc[q]
    BY <1>1, <1>3 DEF Release, Lose, Forget, TypeOK
  <2>2. conn[q] = "open" => store' = store
    BY <1>3 DEF Release, Lose, LockExclusive
  <2>3. Connected(q) => Mine(q)' = Mine(q)
    BY <2>1, <2>2 DEF Connected, Mine
  <2> QED  BY <2>1, <2>3 DEF SnapshotOf, Connected
<1> QED  BY <1>2, <1>3

LEMMA NextSnapshot ==
  TypeOK /\ LockExclusive /\ Progress /\ SnapshotCurrent /\ [Next]_vars
  => SnapshotCurrent'
<1> SUFFICES ASSUME TypeOK, LockExclusive, Progress, SnapshotCurrent, [Next]_vars,
                    NEW q \in Proc
             PROVE  SnapshotOf(q)'
  BY DEF SnapshotCurrent, SnapshotOf
<1>0. SnapshotOf(q)
  BY DEF SnapshotCurrent, SnapshotOf
<1> USE DEF dbVars, planVars, cmdVars, envVars, diskVars, ProcStep, UserStep
<1>1. CASE SameSnapshot(q)
  BY <1>0, <1>1, SameSnapshotOf
<1>2. CASE UserNext \/ UNCHANGED vars
  <2>1. SameSnapshot(q)
    BY <1>2 DEF UserNext, WriteFile, RemoveFile, MoveFile, SetClassField, vars,
       SameSnapshot, Mine, Connected
  <2> QED  BY <1>1, <2>1
<1>3. CASE DamageDb
  <2>1. conn[q] # "open" /\ UNCHANGED <<conn, orphan, persisted, pc>>
    BY <1>3, ProcAssumption DEF DamageDb, LockExclusive
  <2> QED  BY <1>0, <2>1 DEF SnapshotOf, Mine, Connected
<1>4. ASSUME NEW p \in Proc, (Release(p) \/ Lose(p)) /\ Forget(p)
      PROVE  SnapshotOf(q)'
  BY <1>0, <1>4, LeaveSnapshot
<1>5. ASSUME NEW p \in Proc, NEW c \in Commands, Begin(p, c)
      PROVE  SnapshotOf(q)'
  <2>1. CASE q = p
    <3>1. ~Connected(q)'
      BY <1>5, <2>1 DEF Begin, Progress, Connected
    <3> QED  BY <3>1 DEF SnapshotOf
  <2>2. CASE q # p
    <3>1. SameSnapshot(q)
      BY <1>5, <2>2 DEF Begin, SameSnapshot, Mine, Connected, TypeOK
    <3> QED  BY <1>1, <3>1
  <2> QED  BY <2>1, <2>2
<1>6. ASSUME NEW p \in Proc, OpenStore(p) \/ RecreateDb(p)
      PROVE  SnapshotOf(q)'
  <2>1. /\ conn' = [conn EXCEPT ![p] = "open"] /\ store' = Created /\ orphan' = orphan
        /\ persisted' = [persisted EXCEPT ![p] = Created.files]
        /\ pc' = pc /\ holder = NoProc
    BY <1>6 DEF OpenStore, RecreateDb, Opened
  <2>2. CASE q = p
    BY <2>1, <2>2 DEF SnapshotOf, Mine, TypeOK
  <2>3. CASE q # p
    <3>1. conn[q] # "open" /\ conn'[q] = conn[q] /\ persisted'[q] = persisted[q]
      BY <2>1, <2>3, ProcAssumption DEF LockExclusive, TypeOK
    <3> QED  BY <1>0, <2>1, <3>1 DEF SnapshotOf, Mine, Connected
  <2> QED  BY <2>2, <2>3
<1>7. ASSUME NEW p \in Proc, OpenUnusable(p) \/ OpenDamaged(p)
      PROVE  SnapshotOf(q)'
  <2>1. PICK s \in Gap : conn' = [conn EXCEPT ![p] = s]
    BY <1>7, GapStates DEF OpenUnusable, OpenDamaged
  <2>2. UNCHANGED <<store, orphan, persisted, pc>> /\ s \notin {"open", "orphan"}
    BY <1>7, GapStates DEF OpenUnusable, OpenDamaged
  <2> QED  BY <1>0, <2>1, <2>2 DEF SnapshotOf, Mine, Connected, TypeOK
<1>8. ASSUME NEW p \in Proc, RemoveDb(p)
      PROVE  SnapshotOf(q)'
  <2>1. /\ conn'[q] = IF q = p THEN Gaps(conn[p])
                      ELSE IF q = holder THEN "orphan" ELSE conn[q]
        /\ orphan'[q] = IF q = holder THEN store ELSE orphan[q]
        /\ UNCHANGED <<persisted, pc>>
    BY <1>8 DEF RemoveDb
  <2>2. conn[q] = "open" <=> q = holder
    BY DEF LockExclusive
  <2> QED  BY <1>0, <2>1, <2>2, GapStates DEF SnapshotOf, Mine, Connected
<1>9. ASSUME NEW p \in Proc, NEW f \in Path, ScanFile(p, f) \/ ParseNote(p, f)
      PROVE  SnapshotOf(q)'
  <2>1. SameSnapshot(q)
    BY <1>9 DEF ScanFile, ParseNote, SameSnapshot, Mine, Connected
  <2> QED  BY <1>1, <2>1
<1>10. ASSUME NEW p \in Proc, ServeFresh(p)
      PROVE  SnapshotOf(q)'
  <2>1. SameSnapshot(q)
    BY <1>10 DEF ServeFresh, SameSnapshot, Mine, Connected, TypeOK
  <2> QED  BY <1>1, <2>1
<1>11. ASSUME NEW p \in Proc, PlanParse(p)
      PROVE  SnapshotOf(q)'
  <2>1. UNCHANGED <<conn, store, orphan, persisted>> /\ pc' = [pc EXCEPT ![p] = "parse"]
    BY <1>11 DEF PlanParse
  <2>2. pc[p] = "collect" \/ ~Connected(p)
    BY <1>11 DEF PlanParse, Collected, Progress, Connected
  <2> QED  BY <1>0, <2>1, <2>2 DEF SnapshotOf, Mine, Connected, TypeOK
<1>12. ASSUME NEW p \in Proc, Persist(p) \/ PersistFails(p)
      PROVE  SnapshotOf(q)'
  <2>1. CASE Release(p) /\ Forget(p)
    BY <1>4, <2>1
  <2>2. CASE ~(Release(p) /\ Forget(p))
    <3>1. /\ UNCHANGED <<conn, persisted>> /\ pc' = [pc EXCEPT ![p] = "serve"]
          /\ \/ conn[p] = "open" /\ orphan' = orphan
             \/ conn[p] # "open" /\ orphan' = [orphan EXCEPT ![p] = NextDb(p)] /\ store' = store
             \/ UNCHANGED <<store, orphan>>
      BY <1>12, <2>2 DEF Persist, PersistFails
    <3>2. CASE q = p
      BY <3>1, <3>2 DEF SnapshotOf, TypeOK
    <3>3. CASE q # p
      <4>1. pc'[q] = pc[q] /\ orphan'[q] = orphan[q]
        BY <3>1, <3>3 DEF TypeOK
      <4>2. conn[q] = "open" => store' = store
        BY <3>1, <3>3 DEF LockExclusive
      <4> QED  BY <1>0, <3>1, <4>1, <4>2 DEF SnapshotOf, Mine, Connected
    <3> QED  BY <3>2, <3>3
  <2> QED  BY <2>1, <2>2
<1>13. ASSUME NEW p \in Proc, NEW f \in Path, ScanVanished(p, f) \/ ParseVanished(p, f)
       PROVE  SnapshotOf(q)'
  BY <1>4, <1>13 DEF ScanVanished, ParseVanished, Abort
<1>14. ASSUME NEW p \in Proc, OpenFails(p) \/ Finish(p) \/ IoError(p) \/ Crash(p)
       PROVE  SnapshotOf(q)'
  BY <1>4, <1>14 DEF OpenFails, Finish, IoError, Crash, Abort
<1>15. ASSUME NEW p \in Proc, ProcNext(p)
       PROVE  SnapshotOf(q)'
  BY <1>6, <1>7, <1>8, <1>9, <1>10, <1>11, <1>12, <1>13, <1>14, <1>15 DEF ProcNext
<1>16. CASE FaultNext
  BY <1>3, <1>12, <1>14, <1>16 DEF FaultNext
<1> QED  BY <1>2, <1>5, <1>15, <1>16 DEF Next

-----------------------------------------------------------------------------
(* The stored rows                                                         *)

\* What a step may leave in a database: what was in one before, nothing, or
\* what a commit writes.
LEMMA DatabasesAfter ==
  ASSUME TypeOK, [Next]_vars, NEW db \in Databases'
  PROVE  \/ db \in Databases
         \/ \E status : db = EmptyDb(status)
         \/ \E p \in Proc : Persist(p) /\ db = NextDb(p)
<1> USE DEF dbVars, planVars, cmdVars, envVars, diskVars, ProcStep, UserStep, Databases
<1>0. db = store' \/ db = durable' \/ \E q \in Proc : db = orphan'[q]
  OBVIOUS
<1>1. CASE UNCHANGED dbVars
  BY <1>1
<1>2. CASE UserNext \/ UNCHANGED vars
  BY <1>1, <1>2 DEF UserNext, WriteFile, RemoveFile, MoveFile, SetClassField, vars
<1>3. CASE DamageDb
  BY <1>0, <1>3 DEF DamageDb
<1>4. ASSUME NEW p \in Proc, (Release(p) \/ Lose(p)) /\ Forget(p)
      PROVE  db \in Databases \/ \E status : db = EmptyDb(status)
  BY <1>0, <1>4 DEF Release, Lose, TypeOK
<1>5. ASSUME NEW p \in Proc, NEW c \in Commands, Begin(p, c)
      PROVE  UNCHANGED dbVars
  BY <1>5 DEF Begin
<1>6. ASSUME NEW p \in Proc, OpenStore(p) \/ RecreateDb(p)
      PROVE  db \in Databases \/ \E status : db = EmptyDb(status)
  BY <1>0, <1>6 DEF OpenStore, RecreateDb, Opened, Created
<1>7. ASSUME NEW p \in Proc, RemoveDb(p)
      PROVE  db \in Databases \/ \E status : db = EmptyDb(status)
  BY <1>0, <1>7 DEF RemoveDb, TypeOK
<1>8. ASSUME NEW p \in Proc, NEW f \in Path, ScanFile(p, f) \/ ParseNote(p, f)
      PROVE  UNCHANGED dbVars
  BY <1>8 DEF ScanFile, ParseNote
<1>9. ASSUME NEW p \in Proc,
             OpenUnusable(p) \/ OpenDamaged(p) \/ ServeFresh(p) \/ PlanParse(p)
      PROVE  UNCHANGED dbVars
  BY <1>9 DEF OpenUnusable, OpenDamaged, ServeFresh, PlanParse
<1>10. ASSUME NEW p \in Proc, Persist(p)
       PROVE  db \in Databases \/ db = NextDb(p)
  BY <1>0, <1>10 DEF Persist, TypeOK
<1>11. ASSUME NEW p \in Proc, PersistFails(p)
       PROVE  UNCHANGED dbVars \/ (Release(p) /\ Forget(p))
  BY <1>11 DEF PersistFails
<1>12. ASSUME NEW p \in Proc, NEW f \in Path, ScanVanished(p, f) \/ ParseVanished(p, f)
       PROVE  Release(p) /\ Forget(p)
  BY <1>12 DEF ScanVanished, ParseVanished, Abort
<1>13. ASSUME NEW p \in Proc, OpenFails(p) \/ Finish(p) \/ IoError(p) \/ Crash(p)
       PROVE  (Release(p) \/ Lose(p)) /\ Forget(p)
  BY <1>13 DEF OpenFails, Finish, IoError, Crash, Abort
<1>14. CASE \E p \in Proc : ProcNext(p)
  <2>1. PICK p \in Proc : ProcNext(p)
    BY <1>14
  <2> QED  BY <1>1, <1>4, <1>6, <1>7, <1>8, <1>9, <1>10, <1>12, <1>13, <2>1 DEF ProcNext
<1>15. CASE FaultNext
  BY <1>1, <1>3, <1>4, <1>11, <1>13, <1>15 DEF FaultNext
<1> QED  BY <1>1, <1>2, <1>5, <1>14, <1>15 DEF Next

\* A commit is computed from exactly what its pass read and its handle holds.
LEMMA NextDbCoherent ==
  ASSUME TypeOK, Progress, SnapshotCurrent, StoreCoherent, NEW p \in Proc, Ready(p)
  PROVE  Coherent(NextDb(p))
<1>1. /\ pc[p] = "parse" /\ toParse[p] = {} /\ Connected(p)
  BY DEF Ready
<1>a. NoteRows(parsed[p]) = ToParse(p)
  <2>1. NoteRows(parsed[p]) = ToParse(p) \ toParse[p]
    BY <1>1 DEF Progress
  <2> QED  BY <1>1, <2>1
<1>b. /\ scanned[p] \in Files /\ parsed[p] \in Notes /\ key[p] \in ClassField
      /\ Mine(p) \in Db
  BY MineType DEF TypeOK
<1>c. persisted[p] = Mine(p).files
  BY <1>1 DEF SnapshotCurrent
<1>2. /\ NoteRows(parsed[p]) = ToParse(p)
      /\ scanned[p] \in Files /\ parsed[p] \in Notes /\ key[p] \in ClassField
      /\ Mine(p) \in Db /\ persisted[p] = Mine(p).files
  BY <1>a, <1>b, <1>c
<1>3. Coherent(Mine(p))
  BY DEF StoreCoherent, Databases, Mine
<1>4. CASE cmd[p] = "rebuild"
  <2>1. NoteRows(parsed[p]) = Present(scanned[p]) \cap NotePath
    BY <1>2, <1>4 DEF ToParse
  <2> QED  BY <1>2, <1>4, <2>1, RebuildCoherent DEF NextDb
<1>5. CASE cmd[p] # "rebuild"
  <2>1. PassInputs(Mine(p), scanned[p], parsed[p])
    BY <1>2, <1>3, <1>5 DEF ToParse, PassInputs
  <2> QED  BY <1>2, <1>5, <2>1, IncrementalCoherent DEF NextDb, Update
<1> QED  BY <1>4, <1>5

LEMMA NextStore ==
  TypeOK /\ Progress /\ SnapshotCurrent /\ StoreCoherent /\ [Next]_vars => StoreCoherent'
<1> SUFFICES ASSUME TypeOK, Progress, SnapshotCurrent, StoreCoherent, [Next]_vars,
                    NEW db \in Databases'
             PROVE  Coherent(db)
  BY DEF StoreCoherent, Coherent, NotesOfFiles, LinksOfNotes, AxesInverse, AxesOfNotes
<1>1. ClassField # {}
  BY DEF TypeOK
<1> QED
  BY <1>1, DatabasesAfter, NextDbCoherent, EmptyCoherent DEF StoreCoherent, Persist

-----------------------------------------------------------------------------
(* Lost updates: as long as no file is moved, a stamp is given out once, so *)
(* a row under a file's present stamp can only be of its present contents.  *)

\* No stamp anywhere is ahead of the clock.
StampsKnown ==
  /\ \A f \in Path : meta[f] <= clock
  /\ \A db \in Databases, f \in Path : db.files[f] <= clock
  /\ \A p \in Proc, f \in Path : scanned[p][f] <= clock

\* A note that a pass parsed is current if its file is as it was scanned.
ParsedCurrent ==
  \A p \in Proc, f \in NotePath :
    meta[f] # Absent /\ scanned[p][f] = meta[f] /\ parsed[p][f] # NoBody =>
      parsed[p][f] = body[f]

RowInv == StampsKnown /\ ParsedCurrent /\ RowsCurrent

\* What a commit writes for a file: what the pass scanned, and for a note what
\* it parsed, or else the row its handle held.
LEMMA NextDbRow ==
  ASSUME TypeOK, Progress, NEW p \in Proc, Ready(p), NEW f \in Path
  PROVE  \/ NextDb(p).files[f] = Absent
         \/ /\ NextDb(p).files[f] = scanned[p][f]
            /\ f \in NotePath => parsed[p][f] # NoBody /\ NextDb(p).notes[f] = parsed[p][f]
         \/ /\ NextDb(p).files[f] = Mine(p).files[f]
            /\ NextDb(p).notes[f] = Mine(p).notes[f]
<1>1. pc[p] = "parse" /\ toParse[p] = {}
  BY DEF Ready
<1>2. NoteRows(parsed[p]) = ToParse(p)
  <2>1. NoteRows(parsed[p]) = ToParse(p) \ toParse[p]
    BY <1>1 DEF Progress
  <2> QED
    BY <1>1, <2>1
<1>3. CASE cmd[p] = "rebuild"
  <2>1. /\ NextDb(p).files = scanned[p]
        /\ NextDb(p).notes =
             [g \in Path |-> IF scanned[p][g] = Absent THEN NoBody ELSE parsed[p][g]]
    BY <1>3 DEF NextDb, ApplyRebuild, BuildIndex, Assemble
  <2>2. f \in NotePath /\ scanned[p][f] # Absent => parsed[p][f] # NoBody
    BY <1>2, <1>3 DEF ToParse, Present, NoteRows
  <2> QED
    BY <2>1, <2>2
<1>4. CASE cmd[p] # "rebuild"
  <2> DEFINE up == Upserted(scanned[p], persisted[p])
             del == Deleted(scanned[p], persisted[p])
             notes == Update(p).notes
  <2>1. NextDb(p) = ApplyIncremental(Mine(p), scanned[p], persisted[p], notes, Update(p).edges, key[p])
    BY <1>4 DEF NextDb
  <2>2. /\ NextDb(p).files[f] = IF f \in up THEN scanned[p][f]
                                ELSE IF f \in del THEN Absent ELSE Mine(p).files[f]
        /\ NextDb(p).notes[f] = IF f \in NoteRows(notes) THEN notes[f]
                                ELSE IF f \in del THEN NoBody ELSE Mine(p).notes[f]
    BY <2>1 DEF ApplyIncremental
  <2>3. NoteRows(parsed[p]) = up \cap NotePath
    BY <1>2, <1>4 DEF ToParse
  <2>4. f \notin up => notes[f] = NoBody
    BY <2>3 DEF Update, Reconcile, NoteRows
  <2>5. f \in up \cap NotePath => parsed[p][f] # NoBody /\ notes[f] = parsed[p][f]
    BY <2>3 DEF Update, Reconcile, NoteRows, MergeRefreshedNotes
  <2> HIDE DEF up, del, notes
  <2>6. f \in NoteRows(notes) <=> notes[f] # NoBody
    BY DEF NoteRows
  <2> QED
    BY <2>2, <2>4, <2>5, <2>6
<1> QED
  BY <1>3, <1>4

\* How a step changes what processes have scanned and parsed.
PlanOf(p) ==
  \/ UNCHANGED <<scanned[p], parsed[p]>>
  \/ scanned'[p] = NoFiles /\ parsed'[p] = NoNotes
  \/ parsed[p] = NoNotes /\ parsed'[p] = NoNotes
       /\ \E f \in Path : scanned'[p] = [scanned[p] EXCEPT ![f] = meta[f]]
  \/ scanned'[p] = scanned[p]
       /\ \E f \in Path : parsed'[p] = [parsed[p] EXCEPT ![f] = body[f]]

LEMMA PlanSteps ==
  ASSUME TypeOK, Progress, [Next]_vars, NEW q \in Proc
  PROVE  PlanOf(q)
<1> USE DEF dbVars, planVars, cmdVars, envVars, diskVars, ProcStep, UserStep
<1>1. CASE UNCHANGED <<scanned, parsed>>
  BY <1>1 DEF PlanOf
<1>2. ASSUME NEW p \in Proc, Forget(p)
      PROVE  PlanOf(q)
  BY <1>2 DEF Forget, TypeOK, PlanOf
<1>3. ASSUME NEW p \in Proc, NEW f \in Path, ScanFile(p, f)
      PROVE  PlanOf(q)
  <2>1. /\ scanned' = [scanned EXCEPT ![p][f] = meta[f]] /\ parsed' = parsed
        /\ toScan[p] # {}
    BY <1>3 DEF ScanFile
  <2>2. pc[p] \in {"collect", "build"}
    BY <2>1 DEF Progress, TypeOK
  <2>3. parsed[p] = NoNotes
    BY <2>2 DEF Progress
  <2>4. q # p => scanned'[q] = scanned[q]
    BY <2>1 DEF TypeOK
  <2>5. scanned'[p] = [scanned[p] EXCEPT ![f] = meta[f]]
    BY <2>1 DEF TypeOK
  <2> QED
    BY <2>1, <2>3, <2>4, <2>5 DEF PlanOf
<1>4. ASSUME NEW p \in Proc, NEW f \in Path, ParseNote(p, f)
      PROVE  PlanOf(q)
  <2>1. parsed' = [parsed EXCEPT ![p][f] = body[f]] /\ scanned' = scanned
    BY <1>4 DEF ParseNote
  <2>2. q # p => parsed'[q] = parsed[q]
    BY <2>1 DEF TypeOK
  <2>3. parsed'[p] = [parsed[p] EXCEPT ![f] = body[f]]
    BY <2>1 DEF TypeOK
  <2> QED
    BY <2>1, <2>2, <2>3 DEF PlanOf
<1>5. CASE UserNext \/ DamageDb \/ UNCHANGED vars
  BY <1>1, <1>5 DEF UserNext, WriteFile, RemoveFile, MoveFile, SetClassField, DamageDb, vars
<1>6. ASSUME NEW p \in Proc, NEW c \in Commands, Begin(p, c)
      PROVE  PlanOf(q)
  BY <1>1, <1>6 DEF Begin
<1>7. ASSUME NEW p \in Proc,
             \/ OpenStore(p) \/ RecreateDb(p) \/ RemoveDb(p) \/ OpenUnusable(p)
             \/ OpenDamaged(p) \/ ServeFresh(p) \/ PlanParse(p) \/ Persist(p)
      PROVE  PlanOf(q)
  BY <1>1, <1>7 DEF OpenStore, RecreateDb, RemoveDb, OpenUnusable, OpenDamaged, ServeFresh,
                    PlanParse, Persist, Opened
<1>8. ASSUME NEW p \in Proc, PersistFails(p)
      PROVE  PlanOf(q)
  BY <1>1, <1>2, <1>8 DEF PersistFails
<1>9. ASSUME NEW p \in Proc,
             \/ OpenFails(p) \/ Finish(p) \/ IoError(p) \/ Crash(p)
             \/ \E f \in Path : ScanVanished(p, f) \/ ParseVanished(p, f)
      PROVE  PlanOf(q)
  BY <1>2, <1>9 DEF OpenFails, Finish, IoError, Crash, ScanVanished, ParseVanished, Abort
<1>10. ASSUME NEW p \in Proc, ProcNext(p)
       PROVE  PlanOf(q)
  BY <1>3, <1>4, <1>7, <1>9, <1>10 DEF ProcNext
<1> QED
  BY <1>5, <1>6, <1>8, <1>9, <1>10 DEF Next, FaultNext

\* How a step changes the disk.
LEMMA DiskSteps ==
  ASSUME TypeOK, Moves = {}, [Next]_vars
  PROVE  \/ UNCHANGED diskVars
         \/ /\ UNCHANGED <<dbVars, planVars>> /\ clock' = clock + 1
            /\ \A f \in Path : \/ meta'[f] = meta[f] /\ body'[f] = body[f]
                               \/ meta'[f] \in {Absent, clock + 1}
<1> USE DEF dbVars, planVars, cmdVars, envVars, diskVars, ProcStep, UserStep
<1>1. ASSUME NEW f \in Path, NEW b \in Body \cup {NoBody}, WriteFile(f, b)
      PROVE  /\ UNCHANGED <<dbVars, planVars>> /\ clock' = clock + 1
             /\ \A g \in Path : \/ meta'[g] = meta[g] /\ body'[g] = body[g]
                                \/ meta'[g] \in {Absent, clock + 1}
  BY <1>1 DEF WriteFile, TypeOK, Files, Notes
<1>2. ASSUME NEW f \in Path, RemoveFile(f)
      PROVE  /\ UNCHANGED <<dbVars, planVars>> /\ clock' = clock + 1
             /\ \A g \in Path : \/ meta'[g] = meta[g] /\ body'[g] = body[g]
                                \/ meta'[g] \in {Absent, clock + 1}
  BY <1>2 DEF RemoveFile, TypeOK, Files, Notes
<1>3. ~ \E f, g \in Path : MoveFile(f, g)
  BY DEF MoveFile
<1>4. ASSUME NEW k \in ClassField, SetClassField(k)
      PROVE  UNCHANGED diskVars
  BY <1>4 DEF SetClassField
<1>5. ASSUME NEW p \in Proc, ProcNext(p)
      PROVE  UNCHANGED diskVars
  BY <1>5 DEF ProcNext, OpenStore, OpenUnusable, OpenDamaged, RemoveDb, RecreateDb, OpenFails,
              ScanFile, ScanVanished, ServeFresh, PlanParse, ParseNote, ParseVanished, Persist,
              Finish, Abort, Forget
<1>6. CASE FaultNext
  BY <1>6 DEF FaultNext, DamageDb, PersistFails, IoError, Crash, Forget
<1>7. ASSUME NEW p \in Proc, NEW c \in Commands, Begin(p, c)
      PROVE  UNCHANGED diskVars
  BY <1>7 DEF Begin
<1> QED
  BY <1>1, <1>2, <1>3, <1>4, <1>5, <1>6, <1>7 DEF Next, UserNext, vars

\* An edit makes every row, scan and parse of the file a thing of the past.
LEMMA EditKeepsRows ==
  ASSUME TypeOK, RowInv, UNCHANGED <<dbVars, planVars>>, clock' = clock + 1,
         \A f \in Path : \/ meta'[f] = meta[f] /\ body'[f] = body[f]
                         \/ meta'[f] \in {Absent, clock + 1}
  PROVE  RowInv'
<1>1. Databases' = Databases /\ scanned' = scanned /\ parsed' = parsed
  BY DEF dbVars, planVars, Databases
<1>2. clock \in Nat /\ meta \in Files /\ scanned \in [Proc -> Files]
  BY DEF TypeOK
<1>3. \A db \in Databases : db.files \in Files
  BY DEF TypeOK, Databases, Db
<1>4. StampsKnown'
  BY <1>1, <1>2, <1>3 DEF RowInv, StampsKnown, Files, Stamp, Absent
<1>5. ParsedCurrent'
  BY <1>1, <1>2, NotePathAssumption DEF RowInv, StampsKnown, ParsedCurrent, Files, Stamp
<1>6. RowsCurrent'
  BY <1>1, <1>2, <1>3, NotePathAssumption DEF RowInv, StampsKnown, RowsCurrent, Files, Stamp
<1> QED
  BY <1>4, <1>5, <1>6 DEF RowInv

LEMMA NextRows == Moves = {} /\ TypeOK /\ Progress /\ RowInv /\ [Next]_vars => RowInv'
<1> SUFFICES ASSUME Moves = {}, TypeOK, Progress, RowInv, [Next]_vars
             PROVE  RowInv'
  OBVIOUS
<1>1. CASE UNCHANGED diskVars
  <2>1. meta' = meta /\ body' = body /\ clock' = clock
    BY <1>1 DEF diskVars
  <2>2. clock \in Nat /\ meta \in Files /\ scanned \in [Proc -> Files] /\ parsed \in [Proc -> Notes]
    BY DEF TypeOK
  <2>3. ASSUME NEW p \in Proc
        PROVE  /\ \A f \in Path : scanned'[p][f] <= clock
               /\ \A f \in NotePath :
                    meta[f] # Absent /\ scanned'[p][f] = meta[f] /\ parsed'[p][f] # NoBody =>
                      parsed'[p][f] = body[f]
    <3>1. CASE UNCHANGED <<scanned[p], parsed[p]>>
      BY <3>1 DEF RowInv, StampsKnown, ParsedCurrent
    <3>2. CASE parsed'[p] = NoNotes /\ \A f \in Path : scanned'[p][f] \in {Absent, meta[f], scanned[p][f]}
      BY <2>2, <3>2, NotePathAssumption DEF NoNotes, RowInv, StampsKnown, Absent
    <3>3. CASE scanned'[p] = scanned[p]
               /\ \E f \in Path : parsed'[p] = [parsed[p] EXCEPT ![f] = body[f]]
      BY <2>2, <3>3, NotePathAssumption DEF RowInv, StampsKnown, ParsedCurrent, Notes
    <3>4. CASE scanned'[p] = NoFiles /\ parsed'[p] = NoNotes
      BY <3>2, <3>4 DEF NoFiles
    <3>5. CASE parsed'[p] = NoNotes
               /\ \E f \in Path : scanned'[p] = [scanned[p] EXCEPT ![f] = meta[f]]
      BY <2>2, <3>2, <3>5 DEF Files
    <3> QED
      BY <3>1, <3>3, <3>4, <3>5, PlanSteps DEF PlanOf
  <2>4. ASSUME NEW db \in Databases'
        PROVE  /\ \A f \in Path : db.files[f] <= clock
               /\ \A f \in NotePath :
                    meta[f] # Absent /\ db.files[f] = meta[f] => db.notes[f] = body[f]
    <3>1. CASE db \in Databases
      BY <3>1 DEF RowInv, StampsKnown, RowsCurrent
    <3>2. CASE \E status : db = EmptyDb(status)
      BY <2>2, <3>2, NotePathAssumption DEF EmptyDb, Absent
    <3>3. ASSUME NEW p \in Proc, Persist(p), db = NextDb(p)
          PROVE  /\ \A f \in Path : db.files[f] <= clock
                 /\ \A f \in NotePath :
                      meta[f] # Absent /\ db.files[f] = meta[f] => db.notes[f] = body[f]
      <4>1. Mine(p) \in Databases
        BY DEF Mine, Databases
      <4>2. ASSUME NEW f \in Path
            PROVE  /\ db.files[f] <= clock
                   /\ f \in NotePath /\ meta[f] # Absent /\ db.files[f] = meta[f] =>
                        db.notes[f] = body[f]
        <5>1. CASE db.files[f] = Absent
          BY <2>2, <5>1 DEF Absent
        <5>2. CASE /\ db.files[f] = scanned[p][f]
                   /\ f \in NotePath => parsed[p][f] # NoBody /\ db.notes[f] = parsed[p][f]
          BY <5>2 DEF RowInv, StampsKnown, ParsedCurrent
        <5>3. CASE db.files[f] = Mine(p).files[f] /\ db.notes[f] = Mine(p).notes[f]
          BY <4>1, <5>3 DEF RowInv, StampsKnown, RowsCurrent
        <5> QED
          BY <3>3, <5>1, <5>2, <5>3, NextDbRow DEF Persist
      <4> QED
        BY <4>2, NotePathAssumption
    <3> QED
      BY <3>1, <3>2, <3>3, DatabasesAfter
  <2> QED
    BY <2>1, <2>3, <2>4 DEF RowInv, StampsKnown, ParsedCurrent, RowsCurrent
<1>2. CASE ~UNCHANGED diskVars
  BY <1>2, DiskSteps, EditKeepsRows
<1> QED
  BY <1>1, <1>2

-----------------------------------------------------------------------------
(* The inductive invariant                                                 *)

LEMMA InitIInv == Init => IInv
<1> SUFFICES ASSUME Init PROVE IInv
  OBVIOUS
<1>1. TypeOK
  BY InitType
<1>2. LockExclusive /\ DiskNotes
  BY NoBodyAssumption, ProcAssumption DEF Init, LockExclusive, DiskNotes, BodiesAt
<1>3. Progress /\ SnapshotCurrent
  BY DEF Init, Progress, SnapshotCurrent, Connected
<1>4. \A db \in Databases : db = EmptyDb("missing")
  BY DEF Init, Databases
<1>5. StoreCoherent
  BY <1>4, EmptyCoherent DEF Init, StoreCoherent
<1> QED  BY <1>1, <1>2, <1>3, <1>5 DEF IInv

\* The invariant of the machine, of which the two below are parts.
THEOREM Inductive == Spec => []IInv
<1>1. IInv /\ [Next]_vars => IInv'
  BY NextType, NextLock, NextDisk, NextProgress, NextSnapshot, NextStore DEF IInv
<1> QED  BY InitIInv, <1>1, PTL DEF Spec

\* Whatever is interrupted, patched, replaced or lost, by any number of
\* processes on any vault: the derived tables of every database, the one at the
\* index path, the one a crash falls back to and the unlinked ones, are those of
\* its file and note rows (refresh.rs: reconcile; store.rs: persist).
THEOREM StoreStaysCoherent == Spec => []StoreCoherent
<1>1. IInv => StoreCoherent
  BY DEF IInv
<1> QED  BY <1>1, Inductive, PTL

\* No commit is computed from file rows another process has replaced since
\* (service.rs: prepare_pass reads them, refresh.rs: apply writes against them).
THEOREM SnapshotStaysCurrent == Spec => []SnapshotCurrent
<1>1. IInv => SnapshotCurrent
  BY DEF IInv
<1> QED  BY <1>1, Inductive, PTL

LEMMA RowsInductive ==
  ASSUME Moves = {}
  PROVE  Spec => []RowInv
<1>1. Init => RowInv
  <2> SUFFICES ASSUME Init PROVE RowInv
    OBVIOUS
  <2>1. \A db \in Databases : db = EmptyDb("missing")
    BY DEF Init, Databases
  <2>2. \A f \in Path : meta[f] <= clock /\ clock \in Nat
    <3>1. PICK P \in SUBSET Path : meta = [f \in Path |-> IF f \in P THEN Age[f] ELSE Absent]
      BY DEF Init
    <3>2. clock = InitialClock /\ InitialClock \in Nat /\ \A f \in Path : Age[f] \in 1..InitialClock
      BY AgeAssumption DEF Init
    <3>3. \A f \in Path : meta[f] = Age[f] \/ meta[f] = 0
      BY <3>1 DEF Absent
    <3> SUFFICES ASSUME NEW f \in Path PROVE meta[f] <= clock /\ clock \in Nat
      OBVIOUS
    <3>4. CASE meta[f] = 0
      BY <3>2, <3>4
    <3>5. CASE meta[f] = Age[f]
      <4>1. Age[f] \in 1..InitialClock /\ InitialClock \in Nat
        BY <3>2
      <4> QED
        BY <3>2, <3>5, <4>1
    <3> QED
      BY <3>3, <3>4, <3>5
  <2>3. \A p \in Proc : scanned[p] = NoFiles /\ parsed[p] = NoNotes
    BY DEF Init
  <2>4. StampsKnown
    BY <2>1, <2>2, <2>3 DEF StampsKnown, EmptyDb, NoFiles, Absent
  <2>5. ParsedCurrent
    BY <2>3, NotePathAssumption DEF ParsedCurrent, NoNotes
  <2>6. RowsCurrent
    BY <2>1, NotePathAssumption DEF RowsCurrent, EmptyDb, Absent
  <2> QED
    BY <2>4, <2>5, <2>6 DEF RowInv
<1>2. IInv /\ RowInv /\ [Next]_vars => RowInv'
  BY NextRows DEF IInv
<1> QED
  BY <1>1, <1>2, Inductive, PTL DEF Spec

\* However commands, edits, faults and replacements interleave, no update of a
\* note is lost for good: a row that a refresh will skip, because the stamp is
\* the file's, is the parse of what the file holds. Moves are excluded: they
\* bring old stamps back to a path.
THEOREM RowsStayCurrent ==
  ASSUME Moves = {}
  PROVE  Spec => []RowsCurrent
<1>1. RowInv => RowsCurrent
  BY DEF RowInv
<1> QED
  BY <1>1, RowsInductive, PTL

-----------------------------------------------------------------------------
(* What is served                                                          *)

\* A database whose rows agree with the disk serves what a build would.
LEMMA CurrentServes ==
  ASSUME TypeOK, DiskNotes, NEW db \in Db, Coherent(db), db.files = meta,
         \A f \in NotePath : meta[f] # Absent => db.notes[f] = body[f]
  PROVE  /\ db.notes = body
         /\ StoreIndex(db) = BuildIndex(meta, body)
<1>1. ASSUME NEW f \in Path
      PROVE  db.notes[f] = body[f]
  <2>1. db.notes[f] # NoBody <=> meta[f] # Absent /\ f \in NotePath
    BY DEF Coherent, NotesOfFiles, NoteRows, Present
  <2>2. body[f] # NoBody <=> meta[f] # Absent /\ f \in NotePath
    BY DEF DiskNotes
  <2> QED
    BY <2>1, <2>2
<1>2. db.notes = body
  BY <1>1 DEF Db, Notes, TypeOK
<1>3. ReadLinks(db, db.files) = EdgesFor(meta, body)
  BY <1>2, ReadLinksComplete DEF Coherent, LinksOfNotes
<1> QED
  BY <1>2, <1>3 DEF StoreIndex, BuildIndex, WithResolver

\* Rows and the notes that a pass parsed make up the notes on the disk.
LEMMA MergedIsCurrent ==
  ASSUME TypeOK, DiskNotes, NEW before \in Db, Coherent(before),
         \A f \in NotePath : meta[f] # Absent /\ before.files[f] = meta[f] =>
           before.notes[f] = body[f],
         NEW modified \in Notes,
         NoteRows(modified) = Upserted(meta, before.files) \cap NotePath,
         \A f \in Path : modified[f] # NoBody => modified[f] = body[f]
  PROVE  MergeRefreshedNotes(before.notes, Deleted(meta, before.files), modified) = body
<1> DEFINE del == Deleted(meta, before.files)
           merged == MergeRefreshedNotes(before.notes, del, modified)
<1>1. ASSUME NEW f \in Path
      PROVE  merged[f] = body[f]
  <2>1. merged[f] = IF modified[f] # NoBody THEN modified[f]
                    ELSE IF f \in del THEN NoBody ELSE before.notes[f]
    BY DEF MergeRefreshedNotes
  <2>2. body[f] # NoBody <=> meta[f] # Absent /\ f \in NotePath
    BY DEF DiskNotes
  <2>3. before.notes[f] # NoBody <=> before.files[f] # Absent /\ f \in NotePath
    BY DEF Coherent, NotesOfFiles, NoteRows, Present
  <2>4. f \in del <=> meta[f] = Absent /\ before.files[f] # Absent
    BY DEF Deleted
  <2>5. modified[f] # NoBody <=> meta[f] # Absent /\ meta[f] # before.files[f] /\ f \in NotePath
    BY DEF NoteRows, Upserted
  <2> HIDE DEF merged, del
  <2>6. CASE modified[f] # NoBody
    BY <2>1, <2>6
  <2>7. CASE modified[f] = NoBody /\ f \in del
    BY <2>1, <2>2, <2>4, <2>7
  <2>8. CASE modified[f] = NoBody /\ f \notin del
    <3>1. CASE meta[f] # Absent /\ f \in NotePath
      BY <2>1, <2>5, <2>8, <3>1
    <3>2. CASE ~(meta[f] # Absent /\ f \in NotePath)
      BY <2>1, <2>2, <2>3, <2>4, <2>8, <3>2
    <3> QED
      BY <3>1, <3>2
  <2> QED
    BY <2>6, <2>7, <2>8
<1>2. merged = [f \in Path |-> merged[f]]
  BY DEF MergeRefreshedNotes
<1>3. body = [f \in Path |-> body[f]]
  BY DEF TypeOK, Notes
<1> HIDE DEF merged
<1>4. [f \in Path |-> merged[f]] = [f \in Path |-> body[f]]
  BY <1>1
<1>5. merged = body
  BY <1>2, <1>3, <1>4
<1> QED
  BY <1>5 DEF merged

\* The disk has stayed as it is since the command began.
Still(p) == \A f \in Path : seen[p][f] = {Version(f)}

Scanned(p) == \A f \in Path \ toScan[p] : scanned[p][f] = meta[f]
ParsedAsIs(p) == \A f \in Path : parsed[p][f] # NoBody => parsed[p][f] = body[f]
ServesAsBuilt(p) == result[p].served => result[p] = Serve(BuildIndex(meta, body))

ServeOf(p) ==
  /\ result[p].served => pc[p] # "idle"
  /\ pc[p] # "idle" => \A f \in Path : Version(f) \in seen[p][f]
  /\ Still(p) /\ pc[p] # "idle" => Scanned(p) /\ ParsedAsIs(p) /\ ServesAsBuilt(p)

ServeInv == \A p \in Proc : ServeOf(p)

\* What a refresh knows about the rows it has, when nothing has moved under it.
LEMMA PassKnows ==
  ASSUME IInv, RowInv, NEW p \in Proc, ServeOf(p), Still(p),
         pc[p] \in {"collect", "parse"}, toScan[p] = {}, Connected(p)
  PROVE  /\ scanned[p] = meta /\ persisted[p] = Mine(p).files
         /\ Mine(p) \in Db /\ Coherent(Mine(p))
         /\ \A f \in NotePath : meta[f] # Absent /\ Mine(p).files[f] = meta[f] =>
              Mine(p).notes[f] = body[f]
         /\ ParsedAsIs(p)
<1>1. Mine(p) \in Databases
  BY DEF Mine, Databases
<1>2. \A f \in Path : scanned[p][f] = meta[f]
  BY DEF ServeOf, Scanned
<1>3. scanned[p] \in Files /\ meta \in Files
  BY DEF IInv, TypeOK
<1>4. scanned[p] = meta
  BY <1>2, <1>3 DEF Files
<1> QED
  BY <1>1, <1>4, MineType DEF IInv, SnapshotCurrent, StoreCoherent, RowInv, RowsCurrent, ServeOf

LEMMA FreshServes ==
  ASSUME IInv, RowInv, NEW p \in Proc, ServeOf(p), Still(p), ServeFresh(p)
  PROVE  StoreIndex(Mine(p)) = BuildIndex(meta, body)
<1>1. pc[p] = "collect" /\ toScan[p] = {} /\ Connected(p)
      /\ DeltaIsEmpty(scanned[p], persisted[p])
  BY DEF ServeFresh, Collected
<1>2. /\ scanned[p] = meta /\ persisted[p] = Mine(p).files
      /\ Mine(p) \in Db /\ Coherent(Mine(p))
      /\ \A f \in NotePath : meta[f] # Absent /\ Mine(p).files[f] = meta[f] =>
           Mine(p).notes[f] = body[f]
  BY <1>1, PassKnows
<1>3. \A f \in Path : Mine(p).files[f] = meta[f]
  BY <1>1, <1>2 DEF DeltaIsEmpty, Upserted, Deleted
<1>4. Mine(p).files = meta
  BY <1>2, <1>3 DEF Db, Files, IInv, TypeOK
<1> QED
  BY <1>2, <1>4, CurrentServes, NotePathAssumption DEF IInv

\* The update of a refresh, over the rows as they were or as it has committed
\* them.
LEMMA UpdateServes ==
  ASSUME IInv, RowInv, NEW p \in Proc, ServeOf(p), Still(p), Ready(p), cmd[p] # "rebuild",
         NEW after, after.notes = Mine(p).notes \/ after.notes = body
  PROVE  IntoIndex(Mine(p), after, scanned[p], persisted[p], parsed[p]) = BuildIndex(meta, body)
<1> DEFINE before == Mine(p)
           modified == parsed[p]
           del == Deleted(meta, before.files)
           stored == IF IsPathsUnchanged(meta, before.files) THEN after.notes ELSE before.notes
<1>1. pc[p] = "parse" /\ toParse[p] = {} /\ Connected(p)
  BY DEF Ready
<1>2. toScan[p] = {} /\ NoteRows(modified) = ToParse(p) \ toParse[p]
  BY <1>1 DEF IInv, Progress
<1>3. /\ scanned[p] = meta /\ persisted[p] = before.files
      /\ before \in Db /\ Coherent(before)
      /\ \A f \in NotePath : meta[f] # Absent /\ before.files[f] = meta[f] =>
           before.notes[f] = body[f]
      /\ ParsedAsIs(p)
  BY <1>1, <1>2, PassKnows
<1>4. NoteRows(modified) = Upserted(meta, before.files) \cap NotePath
  BY <1>1, <1>2, <1>3 DEF ToParse
<1>5. TypeOK /\ DiskNotes /\ modified \in Notes /\ meta \in Files
  BY DEF IInv, TypeOK
<1>6. MergeRefreshedNotes(before.notes, del, modified) = body
  BY <1>3, <1>4, <1>5, MergedIsCurrent DEF ParsedAsIs
<1>7. MergeRefreshedNotes(body, del, modified) = body
  <2>1. ASSUME NEW f \in Path
        PROVE  (IF modified[f] # NoBody THEN modified[f] ELSE IF f \in del THEN NoBody ELSE body[f])
                 = body[f]
    BY <1>3, <1>5 DEF ParsedAsIs, Deleted, DiskNotes
  <2>2. body = [f \in Path |-> body[f]]
    BY <1>5 DEF TypeOK, Notes
  <2>3. MergeRefreshedNotes(body, del, modified) = [f \in Path |-> body[f]]
    BY <2>1 DEF MergeRefreshedNotes
  <2> QED
    BY <2>2, <2>3
<1>8. MergeRefreshedNotes(stored, del, modified) = body
  BY <1>6, <1>7
<1>9. PassInputs(before, meta, modified)
  BY <1>3, <1>4, <1>5 DEF PassInputs
<1>10. Reconcile(before, meta, before.files, modified).edges.links = EdgesFor(meta, body)
  BY <1>6, <1>9, LinksAfter
<1>11. IntoIndex(before, after, meta, before.files, modified)
         = Assemble(meta, MergeRefreshedNotes(stored, del, modified),
                    Reconcile(before, meta, before.files, modified).edges.links)
  BY DEF IntoIndex
<1> QED
  BY <1>3, <1>8, <1>10, <1>11 DEF BuildIndex, WithResolver

\* A rebuild serves its one scan and its parse of every note.
LEMMA RebuildServes ==
  ASSUME IInv, NEW p \in Proc, ServeOf(p), Still(p), Ready(p), cmd[p] = "rebuild"
  PROVE  BuildIndex(scanned[p], parsed[p]) = BuildIndex(meta, body)
<1>1. pc[p] = "parse" /\ toParse[p] = {}
  BY DEF Ready
<1>2. toScan[p] = {} /\ NoteRows(parsed[p]) = ToParse(p) \ toParse[p]
  BY <1>1 DEF IInv, Progress
<1>3. \A f \in Path : scanned[p][f] = meta[f]
  BY <1>1, <1>2 DEF ServeOf, Scanned
<1>4. scanned[p] = meta
  BY <1>3 DEF IInv, TypeOK, Files
<1>5. NoteRows(parsed[p]) = Present(meta) \cap NotePath
  BY <1>1, <1>2, <1>4 DEF ToParse
<1>6. ParsedAsIs(p)
  BY <1>1 DEF ServeOf
<1>7. \A f \in Path : parsed[p][f] = body[f]
  BY <1>5, <1>6 DEF ParsedAsIs, NoteRows, Present, IInv, DiskNotes
<1>8. parsed[p] = body
  BY <1>7 DEF IInv, TypeOK, Notes
<1> QED
  BY <1>4, <1>8

\* A commit leaves rows that agree with the disk.
LEMMA CommitCurrent ==
  ASSUME IInv, RowInv, RowInv', NEW p \in Proc, ServeOf(p), Still(p), Persist(p),
         cmd[p] # "rebuild"
  PROVE  /\ NextDb(p).notes = body
         /\ StoreIndex(NextDb(p)) = BuildIndex(meta, body)
<1> DEFINE new == NextDb(p)
<1>1. pc[p] = "parse" /\ toParse[p] = {} /\ Connected(p)
  BY DEF Persist, Ready
<1>2. toScan[p] = {} /\ NoteRows(parsed[p]) = ToParse(p) \ toParse[p]
  BY <1>1 DEF IInv, Progress
<1>3. scanned[p] = meta /\ persisted[p] = Mine(p).files /\ Mine(p) \in Db /\ Coherent(Mine(p))
  BY <1>1, <1>2, PassKnows
<1>4. PassInputs(Mine(p), meta, parsed[p])
  BY <1>1, <1>2, <1>3 DEF PassInputs, ToParse, IInv, TypeOK
<1>5. new.files = meta
  <2>1. Update(p).notes = parsed[p]
    BY <1>3, <1>4, NotesToUpsert DEF Update
  <2>2. new = ApplyIncremental(Mine(p), meta, Mine(p).files, parsed[p], Update(p).edges, key[p])
    BY <1>3, <2>1 DEF NextDb
  <2> QED
    BY <1>4, <2>2, RowsAfter
<1>6. new \in Db /\ Coherent(new)
  BY NextDbType, NextDbCoherent DEF IInv, Persist
<1>7. new \in Databases'
  <2>1. CASE conn[p] = "open"
    BY <2>1 DEF Persist, Databases
  <2>2. CASE conn[p] # "open"
    BY <2>2 DEF Persist, Databases, IInv, TypeOK
  <2> QED
    BY <2>1, <2>2
<1>8. meta' = meta /\ body' = body
  BY DEF Persist, ProcStep, diskVars
<1>9. \A f \in NotePath : meta[f] # Absent => new.notes[f] = body[f]
  BY <1>5, <1>7, <1>8 DEF RowInv, RowsCurrent
<1> QED
  BY <1>5, <1>6, <1>9, CurrentServes DEF IInv

\* A process keeps what it is about to serve while it and the disk rest.
Rests(q) ==
  /\ UNCHANGED diskVars
  /\ pc'[q] # "idle" <=> pc[q] # "idle"
  /\ seen'[q] = seen[q] /\ toScan'[q] = toScan[q] /\ scanned'[q] = scanned[q]
  /\ parsed'[q] = parsed[q] /\ result'[q] = result[q]

LEMMA RestingServes ==
  ASSUME NEW q \in Proc, ServeOf(q), Rests(q)
  PROVE  ServeOf(q)'
<1>1. meta' = meta /\ body' = body
  BY DEF Rests, diskVars
<1>2. \A f \in Path : Version(f)' = Version(f)
  BY <1>1 DEF Version
<1>3. Still(q)' <=> Still(q)
  BY <1>2 DEF Still, Rests
<1>4. BuildIndex(meta, body)' = BuildIndex(meta, body)
  BY <1>1
<1>5. (Scanned(q)' <=> Scanned(q)) /\ (ParsedAsIs(q)' <=> ParsedAsIs(q))
  BY <1>1 DEF Scanned, ParsedAsIs, Rests
<1>6. ServesAsBuilt(q)' <=> ServesAsBuilt(q)
  BY <1>4 DEF ServesAsBuilt, Rests
<1> QED
  BY <1>2, <1>3, <1>5, <1>6 DEF ServeOf, Rests

\* A process that has seen an edit has not seen a disk that stayed as it is,
\* unless the edit left it as it was.
LEMMA EditServes ==
  ASSUME TypeOK, TypeOK', NEW q \in Proc, ServeOf(q), Witness,
         UNCHANGED <<planVars, pc, result>>
  PROVE  ServeOf(q)'
<1>1. seen'[q] = IF pc[q] = "idle" THEN seen[q]
                 ELSE [f \in Path |-> seen[q][f] \cup {<<meta'[f], body'[f]>>}]
  BY DEF Witness
<1>2. pc'[q] = pc[q] /\ result'[q] = result[q] /\ scanned'[q] = scanned[q]
      /\ toScan'[q] = toScan[q] /\ parsed'[q] = parsed[q]
  BY DEF planVars
<1>3. CASE pc[q] = "idle"
  BY <1>2, <1>3 DEF ServeOf
<1>4. CASE pc[q] # "idle"
  <2>1. \A f \in Path : Version(f)' \in seen'[q][f]
    BY <1>1, <1>4 DEF Version
  <2>2. ASSUME Still(q)'
        PROVE  Scanned(q)' /\ ParsedAsIs(q)' /\ ServesAsBuilt(q)'
    <3>1. \A f \in Path : Version(f) \in seen'[q][f]
      BY <1>1, <1>4 DEF ServeOf
    <3>2. \A f \in Path : Version(f)' = Version(f)
      BY <2>2, <3>1 DEF Still
    <3>3. \A f \in Path : meta'[f] = meta[f] /\ body'[f] = body[f]
      BY <3>2 DEF Version
    <3>4. \A f \in Path : seen[q][f] = {Version(f)}
      <4>1. \A f \in Path : seen[q][f] \subseteq {Version(f)}
        BY <1>1, <1>4, <2>2, <3>2 DEF Still
      <4> QED
        BY <1>4, <4>1 DEF ServeOf
    <3>5. Scanned(q) /\ ParsedAsIs(q) /\ ServesAsBuilt(q)
      BY <1>4, <3>4 DEF ServeOf, Still
    <3>6. meta' = meta /\ body' = body
      BY <3>3 DEF TypeOK, Files, Notes
    <3>7. BuildIndex(meta, body)' = BuildIndex(meta, body)
      BY <3>6
    <3> QED
      BY <1>2, <3>3, <3>5, <3>7 DEF Scanned, ParsedAsIs, ServesAsBuilt
  <2> QED
    BY <1>2, <1>4, <2>1, <2>2 DEF ServeOf
<1> QED
  BY <1>3, <1>4

LEMMA ForgetServes ==
  ASSUME TypeOK, NEW p \in Proc, Forget(p), NEW q \in Proc, ServeOf(q)
  PROVE  ServeOf(q)'
<1>1. CASE q = p
  <2>1. pc'[q] = "idle" /\ ~result'[q].served
    BY <1>1 DEF Forget, TypeOK, NoIndex
  <2> QED
    BY <2>1 DEF ServeOf
<1>2. CASE q # p
  <2>1. Rests(q)
    BY <1>2 DEF Forget, TypeOK, Rests
  <2> QED
    BY <2>1, RestingServes
<1> QED
  BY <1>1, <1>2

LEMMA BeginServes ==
  ASSUME TypeOK, Progress, NEW p \in Proc, NEW c \in Commands, Begin(p, c),
         NEW q \in Proc, ServeOf(q)
  PROVE  ServeOf(q)'
<1> USE DEF diskVars, dbVars, envVars
<1>1. CASE q # p
  <2>1. Rests(q)
    BY <1>1 DEF Begin, TypeOK, Rests
  <2> QED
    BY <2>1, RestingServes
<1>2. CASE q = p
  <2>1. toScan'[p] = Path /\ seen'[p] = Now /\ pc'[p] # "idle" /\ pc[p] = "idle"
    BY DEF Begin, TypeOK
  <2>a. result'[p] = result[p] /\ parsed'[p] = parsed[p]
    BY DEF Begin
  <2>b. ~result'[p].served /\ parsed'[p] = NoNotes
    BY <1>2, <2>1, <2>a DEF Progress, ServeOf
  <2>2. \A f \in Path : Version(f)' = Version(f)
    BY DEF Begin, Version
  <2> QED
    BY <1>2, <2>1, <2>b, <2>2 DEF Begin, ServeOf, Now, Version, Scanned, ParsedAsIs, NoNotes, ServesAsBuilt
<1> QED
  BY <1>1, <1>2

LEMMA ScanServes ==
  ASSUME TypeOK, NEW p \in Proc, NEW f \in Path, ScanFile(p, f) \/ ParseNote(p, f),
         NEW q \in Proc, ServeOf(q)
  PROVE  ServeOf(q)'
<1> USE DEF diskVars, dbVars, envVars, cmdVars, ProcStep
<1>1. CASE q # p
  <2>1. Rests(q)
    BY <1>1 DEF ScanFile, ParseNote, TypeOK, Rests
  <2> QED
    BY <2>1, RestingServes
<1>2. CASE q = p
  <2>1. /\ meta' = meta /\ body' = body /\ pc' = pc /\ result' = result /\ seen' = seen
    BY DEF ScanFile, ParseNote
  <2>2. \A g \in Path : Version(g)' = Version(g)
    BY <2>1 DEF Version
  <2>3. Still(p)' <=> Still(p)
    BY <2>1, <2>2 DEF Still
  <2>4. Scanned(p) => Scanned(p)'
    BY <2>1 DEF Scanned, ScanFile, ParseNote, TypeOK, Files
  <2>5. ParsedAsIs(p) => ParsedAsIs(p)'
    BY <2>1 DEF ParsedAsIs, ScanFile, ParseNote, TypeOK, Notes
  <2>6. ServesAsBuilt(p)' <=> ServesAsBuilt(p)
    BY <2>1 DEF ServesAsBuilt
  <2> QED
    BY <1>2, <2>1, <2>2, <2>3, <2>4, <2>5, <2>6 DEF ServeOf
<1> QED
  BY <1>1, <1>2

\* An answer is a build's if nothing moved.
LEMMA AnswerServes ==
  ASSUME TypeOK, NEW p \in Proc, NEW index,
         pc[p] # "idle", pc' = [pc EXCEPT ![p] = "serve"],
         result' = [result EXCEPT ![p] = Serve(index)],
         UNCHANGED <<diskVars, seen, planVars>>,
         \A f \in Path : Version(f) \in seen[p][f],
         Still(p) => index = BuildIndex(meta, body),
         NEW q \in Proc, ServeOf(q)
  PROVE  ServeOf(q)'
<1> USE DEF diskVars, planVars
<1>1. CASE q # p
  <2>1. Rests(q)
    BY <1>1 DEF TypeOK, Rests
  <2> QED
    BY <2>1, RestingServes
<1>2. CASE q = p
  <2>1. pc'[p] = "serve" /\ result'[p] = Serve(index)
    BY DEF TypeOK
  <2>2. meta' = meta /\ body' = body /\ (\A f \in Path : Version(f)' = Version(f))
    BY DEF Version
  <2>3. Still(p)' <=> Still(p)
    BY <2>2 DEF Still
  <2>4. Scanned(p)' = Scanned(p) /\ ParsedAsIs(p)' = ParsedAsIs(p)
    BY <2>2 DEF Scanned, ParsedAsIs
  <2>5. Still(p) => ServesAsBuilt(p)'
    BY <2>1, <2>2 DEF ServesAsBuilt
  <2> QED
    BY <1>2, <2>1, <2>2, <2>3, <2>4, <2>5 DEF ServeOf
<1> QED
  BY <1>1, <1>2

LEMMA FreshStep ==
  ASSUME IInv, RowInv, NEW p \in Proc, ServeFresh(p), ServeOf(p), NEW q \in Proc, ServeOf(q)
  PROVE  ServeOf(q)'
<1>1. pc[p] = "collect" /\ \A f \in Path : Version(f) \in seen[p][f]
  BY DEF ServeFresh, Collected, ServeOf
<1>2. Still(p) => StoreIndex(Mine(p)) = BuildIndex(meta, body)
  BY FreshServes
<1> QED
  BY <1>1, <1>2, AnswerServes DEF ServeFresh, ProcStep, IInv

LEMMA PersistStep ==
  ASSUME IInv, RowInv, RowInv', NEW p \in Proc, Persist(p), ServeOf(p), NEW q \in Proc, ServeOf(q)
  PROVE  ServeOf(q)'
<1>1. pc[p] = "parse" /\ \A f \in Path : Version(f) \in seen[p][f]
  BY DEF Persist, Ready, ServeOf
<1>2. ASSUME Still(p)
      PROVE  Outcome(p, NextDb(p)) = BuildIndex(meta, body)
  <2>1. CASE cmd[p] = "rebuild"
    BY <1>2, <2>1, RebuildServes DEF Persist, Outcome
  <2>2. CASE cmd[p] = "refresh_store"
    BY <1>2, <2>2, CommitCurrent DEF Outcome
  <2>3. CASE cmd[p] \notin {"rebuild", "refresh_store"}
    <3>1. NextDb(p).notes = body
      BY <1>2, <2>3, CommitCurrent
    <3> QED
      BY <1>2, <2>3, <3>1, UpdateServes DEF Persist, Outcome
  <2> QED
    BY <2>1, <2>2, <2>3
<1> QED
  BY <1>1, <1>2, AnswerServes DEF Persist, ProcStep, IInv

\* Fail-open: the update that could not be written is served all the same.
LEMMA FailOpenStep ==
  ASSUME IInv, RowInv, NEW p \in Proc, PersistFails(p), ServeOf(p), NEW q \in Proc, ServeOf(q)
  PROVE  ServeOf(q)'
<1>1. CASE cmd[p] # "refresh"
  BY <1>1, ForgetServes DEF PersistFails, IInv
<1>2. CASE cmd[p] = "refresh"
  <2>1. pc[p] = "parse" /\ \A f \in Path : Version(f) \in seen[p][f]
    BY DEF PersistFails, Ready, ServeOf
  <2>2. Still(p) => Outcome(p, Mine(p)) = BuildIndex(meta, body)
    BY <1>2, UpdateServes DEF PersistFails, Outcome
  <2> QED
    BY <1>2, <2>1, <2>2, AnswerServes DEF PersistFails, IInv
<1> QED
  BY <1>1, <1>2

LEMMA NextServes ==
  ASSUME IInv, RowInv, RowInv', ServeInv, [Next]_vars
  PROVE  ServeInv'
<1> SUFFICES ASSUME NEW q \in Proc PROVE ServeOf(q)'
  BY DEF ServeInv
<1> USE DEF dbVars, planVars, cmdVars, envVars, diskVars, ProcStep, UserStep
<1>a. TypeOK /\ Progress /\ ServeOf(q) /\ \A p \in Proc : ServeOf(p)
  BY DEF IInv, ServeInv
<1>1. ASSUME \/ \E f \in Path : RemoveFile(f) \/ \E g \in Path : MoveFile(f, g)
             \/ \E f \in Path, b \in Body \cup {NoBody} : WriteFile(f, b)
      PROVE  ServeOf(q)'
  <2>1. Witness /\ UNCHANGED <<planVars, pc, result>>
    BY <1>1 DEF RemoveFile, MoveFile, WriteFile
  <2> QED
    BY <1>a, <2>1, NextType, EditServes
<1>2. CASE DamageDb \/ UNCHANGED vars \/ \E k \in ClassField : SetClassField(k)
  <2>1. Rests(q)
    BY <1>2 DEF DamageDb, vars, SetClassField, Rests
  <2> QED
    BY <1>a, <2>1, RestingServes
<1>3. ASSUME NEW p \in Proc,
             \/ OpenStore(p) \/ RecreateDb(p) \/ RemoveDb(p) \/ OpenUnusable(p)
             \/ OpenDamaged(p)
      PROVE  ServeOf(q)'
  <2>1. Rests(q)
    BY <1>3 DEF OpenStore, RecreateDb, RemoveDb, OpenUnusable, OpenDamaged, Opened, Rests
  <2> QED
    BY <1>a, <2>1, RestingServes
<1>4. ASSUME NEW p \in Proc, PlanParse(p)
      PROVE  ServeOf(q)'
  <2>1. pc' = [pc EXCEPT ![p] = "parse"] /\ pc[p] \in {"collect", "build"}
    BY <1>4 DEF PlanParse, Collected
  <2>2. Rests(q)
    BY <1>4, <1>a, <2>1 DEF PlanParse, Rests, TypeOK
  <2> QED
    BY <1>a, <2>2, RestingServes
<1>5. ASSUME NEW p \in Proc,
             \/ OpenFails(p) \/ Finish(p) \/ IoError(p) \/ Crash(p)
             \/ \E f \in Path : ScanVanished(p, f) \/ ParseVanished(p, f)
      PROVE  ServeOf(q)'
  <2>1. Forget(p)
    BY <1>5 DEF OpenFails, Finish, IoError, Crash, ScanVanished, ParseVanished, Abort
  <2> QED
    BY <1>a, <2>1, ForgetServes
<1>6. ASSUME NEW p \in Proc, NEW c \in Commands, Begin(p, c)
      PROVE  ServeOf(q)'
  BY <1>6, <1>a, BeginServes
<1>7. ASSUME NEW p \in Proc, NEW f \in Path, ScanFile(p, f) \/ ParseNote(p, f)
      PROVE  ServeOf(q)'
  BY <1>7, <1>a, ScanServes
<1>8. ASSUME NEW p \in Proc, ServeFresh(p)
      PROVE  ServeOf(q)'
  BY <1>8, <1>a, FreshStep
<1>9. ASSUME NEW p \in Proc, Persist(p)
      PROVE  ServeOf(q)'
  BY <1>9, <1>a, PersistStep
<1>10. ASSUME NEW p \in Proc, PersistFails(p)
       PROVE  ServeOf(q)'
  BY <1>10, <1>a, FailOpenStep
<1>11. ASSUME NEW p \in Proc, ProcNext(p)
       PROVE  ServeOf(q)'
  BY <1>3, <1>4, <1>5, <1>7, <1>8, <1>9, <1>11 DEF ProcNext
<1> QED
  BY <1>1, <1>2, <1>5, <1>6, <1>10, <1>11 DEF Next, FaultNext, UserNext

\* However many commands run, fail and crash, and however stores are replaced
\* and damaged meanwhile: a command during which the disk stayed as it is
\* serves what a build from scratch gives, from the store it found, from what
\* it committed, or from what it could not commit.
THEOREM CommandsServeBuilds ==
  ASSUME Moves = {}
  PROVE  Spec => []ServesBuild
<1>1. Init => ServeInv
  BY DEF Init, ServeInv, ServeOf, NoIndex
<1>2. IInv /\ RowInv /\ RowInv' /\ ServeInv /\ [Next]_vars => ServeInv'
  BY NextServes
<1>3. ServeInv => ServesBuild
  BY DEF ServeInv, ServeOf, ServesBuild, Still, ServesAsBuilt
<1> QED
  BY <1>1, <1>2, <1>3, Inductive, RowsInductive, PTL DEF Spec

-----------------------------------------------------------------------------
(* What a command has seen                                                 *)

\* The pairs of a stamp and contents that some database or pass holds of a note.
Kept(f, stamp, b) ==
  \/ \E db \in Databases : db.files[f] = stamp /\ db.notes[f] = b
  \/ \E q \in Proc : scanned[q][f] = stamp /\ parsed[q][f] = b /\ b # NoBody

\* Such contents were under that stamp or a later one while p has been running.
SeenLater(p, f, stamp, b) == \E w \in seen[p][f] : w[1] >= stamp /\ w[2] = b

TraceOf(p) ==
  pc[p] # "idle" =>
    \A f \in Path \ toScan[p] :
      /\ \E v \in seen[p][f] : v[1] = scanned[p][f]
      /\ f \in NotePath /\ scanned[p][f] # Absent =>
           \A b : Kept(f, scanned[p][f], b) => SeenLater(p, f, scanned[p][f], b)

\* Stamps of a path grow.
ScansBehind ==
  \A p \in Proc, f \in Path : meta[f] # Absent => scanned[p][f] <= meta[f]

TraceInv == ScansBehind /\ \A p \in Proc : TraceOf(p)

LEMMA NextScansBehind ==
  Moves = {} /\ TypeOK /\ Progress /\ RowInv /\ ScansBehind /\ [Next]_vars => ScansBehind'
<1> SUFFICES ASSUME Moves = {}, TypeOK, Progress, RowInv, ScansBehind, [Next]_vars,
                    NEW p \in Proc, NEW f \in Path, meta'[f] # Absent
             PROVE  scanned'[p][f] <= meta'[f]
  BY DEF ScansBehind
<1>1. clock \in Nat /\ meta[f] \in Nat /\ scanned[p] \in Files
  BY DEF TypeOK, Files, Stamp
<1>2. CASE UNCHANGED diskVars
  <2>1. meta' = meta
    BY <1>2 DEF diskVars
  <2>2. scanned'[p][f] \in {scanned[p][f], Absent, meta[f]}
    BY ZenonT(90), <1>1, PlanSteps DEF PlanOf, NoFiles, Files
  <2> QED
    BY <1>1, <2>1, <2>2 DEF ScansBehind, Absent
<1>3. CASE ~UNCHANGED diskVars
  <2>1. scanned' = scanned /\ meta'[f] \in {meta[f], clock + 1}
    BY <1>3, DiskSteps DEF planVars
  <2>2. scanned[p][f] <= clock /\ scanned[p][f] \in Nat
    BY <1>1 DEF RowInv, StampsKnown, Files, Stamp
  <2> QED
    BY <1>1, <2>1, <2>2 DEF ScansBehind
<1> QED
  BY <1>2, <1>3

\* A step makes a pair only by parsing, of what is on the disk.
LEMMA KeptBefore ==
  ASSUME TypeOK, DiskNotes, Progress, ScansBehind, [Next]_vars,
         NEW f \in NotePath, NEW stamp, stamp # Absent, NEW b, Kept(f, stamp, b)'
  PROVE  Kept(f, stamp, b) \/ (stamp <= meta[f] /\ b = body[f])
<1>0. f \in Path
  BY NotePathAssumption
<1>1. ASSUME NEW db \in Databases', db.files[f] = stamp, db.notes[f] = b
      PROVE  Kept(f, stamp, b)
  <2>1. CASE db \in Databases
    BY <1>1, <2>1 DEF Kept
  <2>2. CASE \E status : db = EmptyDb(status)
    BY <1>0, <1>1, <2>2 DEF EmptyDb
  <2>3. ASSUME NEW p \in Proc, Persist(p), db = NextDb(p)
        PROVE  Kept(f, stamp, b)
    <3>1. Mine(p) \in Databases
      BY DEF Mine, Databases
    <3>2. \/ db.files[f] = scanned[p][f] /\ parsed[p][f] # NoBody /\ db.notes[f] = parsed[p][f]
          \/ db.files[f] = Mine(p).files[f] /\ db.notes[f] = Mine(p).notes[f]
      BY <1>0, <1>1, <2>3, NextDbRow DEF Persist
    <3> QED
      BY <1>1, <3>1, <3>2 DEF Kept
  <2> QED
    BY <2>1, <2>2, <2>3, DatabasesAfter
<1>2. ASSUME NEW q \in Proc, scanned'[q][f] = stamp, parsed'[q][f] = b, b # NoBody
      PROVE  Kept(f, stamp, b) \/ (stamp <= meta[f] /\ b = body[f])
  <2>1. parsed[q] \in Notes /\ scanned[q] \in Files
    BY DEF TypeOK
  <2>2. parsed'[q] # NoNotes
    BY <1>0, <1>2 DEF NoNotes
  <2>3. CASE UNCHANGED <<scanned[q], parsed[q]>>
    BY <1>2, <2>3 DEF Kept
  <2>4. ASSUME scanned'[q] = scanned[q], NEW g \in Path,
               parsed'[q] = [parsed[q] EXCEPT ![g] = body[g]]
        PROVE  Kept(f, stamp, b) \/ (stamp <= meta[f] /\ b = body[f])
    <3>1. CASE g # f
      <4>1. parsed'[q][f] = parsed[q][f]
        BY <2>4, <3>1
      <4> QED
        BY <1>2, <2>4, <4>1 DEF Kept
    <3>2. CASE g = f
      <4>1. b = body[f] /\ scanned[q][f] = stamp
        BY <1>0, <1>2, <2>1, <2>4, <3>2 DEF Notes
      <4>2. meta[f] # Absent
        BY <1>0, <1>2, <4>1 DEF DiskNotes
      <4> QED
        BY <1>0, <4>1, <4>2 DEF ScansBehind
    <3> QED
      BY <3>1, <3>2
  <2> QED
    BY <2>2, <2>3, <2>4, PlanSteps DEF PlanOf
<1> QED
  BY <1>1, <1>2 DEF Kept

\* How a command that runs goes on.
GoesOn(q) ==
  /\ pc[q] # "idle"
  /\ \A f \in Path : seen[q][f] \subseteq seen'[q][f]
  /\ \/ toScan'[q] = toScan[q] /\ scanned'[q] = scanned[q]
     \/ \E f \in toScan[q] :
          /\ toScan'[q] = toScan[q] \ {f}
          /\ scanned'[q] = [scanned[q] EXCEPT ![f] = meta[f]]

LEMMA RunningSteps ==
  ASSUME TypeOK, [Next]_vars, NEW q \in Proc, pc'[q] # "idle"
  PROVE  toScan'[q] = Path \/ GoesOn(q)
<1> USE DEF dbVars, planVars, cmdVars, envVars, diskVars, ProcStep, UserStep
<1>1. ASSUME UNCHANGED <<seen, toScan, scanned>>, pc' = pc \/ pc[q] # "idle"
      PROVE  GoesOn(q)
  BY <1>1 DEF GoesOn
<1>2. ASSUME NEW p \in Proc, Forget(p)
      PROVE  GoesOn(q)
  BY <1>2 DEF Forget, TypeOK, GoesOn
<1>3. ASSUME NEW p \in Proc, NEW c \in Commands, Begin(p, c)
      PROVE  toScan'[q] = Path \/ GoesOn(q)
  <2>1. /\ pc' = [pc EXCEPT ![p] = pc'[p]] /\ toScan' = [toScan EXCEPT ![p] = Path]
        /\ seen' = [seen EXCEPT ![p] = Now] /\ scanned' = scanned
    BY <1>3 DEF Begin, TypeOK
  <2>2. CASE q = p
    BY <2>1, <2>2 DEF TypeOK
  <2>3. CASE q # p
    <3>1. pc'[q] = pc[q] /\ toScan'[q] = toScan[q] /\ seen'[q] = seen[q]
      BY <2>1, <2>3 DEF TypeOK
    <3> QED
      BY <2>1, <3>1 DEF GoesOn
  <2> QED
    BY <2>2, <2>3
<1>4. CASE \/ \E f \in Path : RemoveFile(f) \/ \E g \in Path : MoveFile(f, g)
           \/ \E f \in Path, b \in Body \cup {NoBody} : WriteFile(f, b)
  <2>1. Witness /\ UNCHANGED <<pc, toScan, scanned>>
    BY <1>4 DEF RemoveFile, MoveFile, WriteFile
  <2> QED
    BY <2>1 DEF Witness, GoesOn
<1>5. CASE DamageDb \/ UNCHANGED vars \/ \E k \in ClassField : SetClassField(k)
  BY <1>1, <1>5 DEF DamageDb, vars, SetClassField
<1>6. ASSUME NEW p \in Proc,
             \/ OpenStore(p) \/ RecreateDb(p) \/ RemoveDb(p) \/ OpenUnusable(p)
             \/ OpenDamaged(p) \/ \E f \in Path : ParseNote(p, f)
      PROVE  GoesOn(q)
  BY <1>1, <1>6 DEF OpenStore, RecreateDb, RemoveDb, OpenUnusable, OpenDamaged, Opened, ParseNote
<1>7. ASSUME NEW p \in Proc, PlanParse(p) \/ ServeFresh(p) \/ Persist(p)
      PROVE  GoesOn(q)
  <2>1. /\ UNCHANGED <<seen, toScan, scanned>> /\ pc[p] # "idle"
        /\ pc' = [pc EXCEPT ![p] = "parse"] \/ pc' = [pc EXCEPT ![p] = "serve"]
    BY <1>7 DEF PlanParse, ServeFresh, Persist, Collected, Ready
  <2>2. pc[q] # "idle"
    BY <2>1 DEF TypeOK
  <2> QED
    BY <1>1, <2>1, <2>2
<1>8. ASSUME NEW p \in Proc, NEW f \in Path, ScanFile(p, f)
      PROVE  GoesOn(q)
  BY <1>8 DEF ScanFile, TypeOK, GoesOn
<1>9. ASSUME NEW p \in Proc, PersistFails(p)
      PROVE  GoesOn(q)
  <2>1. CASE cmd[p] # "refresh"
    BY <1>2, <1>9, <2>1 DEF PersistFails
  <2>2. CASE cmd[p] = "refresh"
    <3>1. UNCHANGED <<seen, toScan, scanned>> /\ pc[p] # "idle" /\ pc' = [pc EXCEPT ![p] = "serve"]
      BY <1>9, <2>2 DEF PersistFails, Ready
    <3>2. pc[q] # "idle"
      BY <3>1 DEF TypeOK
    <3> QED
      BY <1>1, <3>1, <3>2
  <2> QED
    BY <2>1, <2>2
<1>10. ASSUME NEW p \in Proc,
             \/ OpenFails(p) \/ Finish(p) \/ IoError(p) \/ Crash(p)
             \/ \E f \in Path : ScanVanished(p, f) \/ ParseVanished(p, f)
      PROVE  GoesOn(q)
  BY <1>2, <1>10 DEF OpenFails, Finish, IoError, Crash, ScanVanished, ParseVanished, Abort
<1>11. ASSUME NEW p \in Proc, ProcNext(p)
       PROVE  GoesOn(q)
  BY <1>6, <1>7, <1>8, <1>10, <1>11 DEF ProcNext
<1> QED
  BY <1>3, <1>4, <1>5, <1>9, <1>10, <1>11 DEF Next, FaultNext, UserNext

LEMMA NextTrace ==
  ASSUME Moves = {}, IInv, RowInv, ServeInv, TraceInv, [Next]_vars
  PROVE  TraceInv'
<1>1. ScansBehind'
  BY NextScansBehind DEF TraceInv, IInv
<1>2. ASSUME NEW q \in Proc, pc'[q] # "idle", NEW f \in Path, f \notin toScan'[q]
      PROVE  /\ \E v \in seen'[q][f] : v[1] = scanned'[q][f]
             /\ f \in NotePath /\ scanned'[q][f] # Absent =>
                  \A b : Kept(f, scanned[q][f], b)' => SeenLater(q, f, scanned[q][f], b)'
  <2>1. GoesOn(q)
    BY <1>2, RunningSteps DEF IInv
  <2>2. pc[q] # "idle" /\ seen[q][f] \subseteq seen'[q][f]
    BY <2>1 DEF GoesOn
  <2>3. Version(f) \in seen[q][f] /\ TraceOf(q)
    BY <2>2 DEF ServeInv, ServeOf, TraceInv
  <2>4. meta[f] \in Nat /\ scanned[q] \in Files
    BY DEF IInv, TypeOK, Files, Stamp
  <2>5. ASSUME f \in NotePath, NEW b, NEW stamp, stamp # Absent, Kept(f, stamp, b)'
        PROVE  Kept(f, stamp, b) \/ (stamp <= meta[f] /\ b = body[f])
    BY <2>5, KeptBefore DEF IInv, TraceInv
  <2>6. CASE f \notin toScan[q] /\ scanned'[q][f] = scanned[q][f]
    <3>1. \E v \in seen'[q][f] : v[1] = scanned'[q][f]
      BY <2>2, <2>3, <2>6 DEF TraceOf
    <3>2. ASSUME f \in NotePath, NEW stamp, stamp = scanned[q][f], stamp # Absent,
                 NEW b, Kept(f, stamp, b)'
          PROVE  \E w \in seen[q][f] : w[1] >= stamp /\ w[2] = b
      <4>1. stamp \in Nat
        BY <2>4, <3>2 DEF Files, Stamp
      <4>2. Kept(f, stamp, b) \/ (stamp <= meta[f] /\ b = body[f])
        BY <2>5, <3>2
      <4>3. CASE Kept(f, stamp, b)
        <5>1. Kept(f, scanned[q][f], b)
          BY <3>2, <4>3
        <5>2. SeenLater(q, f, scanned[q][f], b)
          BY <2>2, <2>3, <2>6, <3>2, <5>1 DEF TraceOf
        <5> QED
          BY <3>2, <5>2 DEF SeenLater
      <4>4. CASE stamp <= meta[f] /\ b = body[f]
        BY <2>3, <2>4, <4>1, <4>4 DEF Version
      <4> QED
        BY <4>2, <4>3, <4>4
    <3>3. ASSUME f \in NotePath, scanned'[q][f] # Absent, NEW b, Kept(f, scanned[q][f], b)'
          PROVE  SeenLater(q, f, scanned[q][f], b)'
      <4>1. PICK stamp : stamp = scanned[q][f]
        OBVIOUS
      <4>2. stamp = scanned'[q][f]
        BY <2>6, <4>1
      <4>3. Kept(f, stamp, b)'
        BY <3>3, <4>2 DEF Kept
      <4>4. \E w \in seen[q][f] : w[1] >= stamp /\ w[2] = b
        BY <3>2, <3>3, <4>1, <4>2, <4>3
      <4> QED
        BY <2>2, <4>2, <4>4 DEF SeenLater
    <3> QED
      BY <3>1, <3>3
  <2>7. CASE f \in toScan[q] /\ scanned'[q][f] = meta[f]
    <3>1. \E v \in seen'[q][f] : v[1] = scanned'[q][f]
      BY <2>2, <2>3, <2>7 DEF Version
    <3>2. ASSUME f \in NotePath, scanned'[q][f] # Absent, NEW b, Kept(f, scanned[q][f], b)'
          PROVE  SeenLater(q, f, scanned[q][f], b)'
      <4>1. meta[f] # Absent
        BY <2>7, <3>2
      <4>2. PICK stamp : stamp = meta[f]
        OBVIOUS
      <4>3. Kept(f, stamp, b)'
        BY <2>7, <3>2, <4>2 DEF Kept
      <4>4. Kept(f, stamp, b) \/ b = body[f]
        BY <2>5, <3>2, <4>1, <4>2, <4>3
      <4>5. b = body[f]
        BY <3>2, <4>1, <4>2, <4>4 DEF Kept, RowInv, RowsCurrent, ParsedCurrent
      <4>6. Version(f) \in seen'[q][f] /\ Version(f)[1] >= meta[f] /\ Version(f)[2] = b
        BY <2>2, <2>3, <2>4, <4>5 DEF Version
      <4> QED
        BY <2>7, <4>6 DEF SeenLater
    <3> QED
      BY <3>1, <3>2
  <2> QED
    BY <1>2, <2>1, <2>4, <2>6, <2>7 DEF GoesOn, Files
<1>3. \A q \in Proc : TraceOf(q)'
  BY <1>2 DEF TraceOf
<1> QED
  BY <1>1, <1>3 DEF TraceInv

-----------------------------------------------------------------------------
(* The refinement                                                          *)

\* The two modules name the same data.
LEMMA SameData ==
  /\ Promised!Absent = Absent
  /\ Promised!NoIndex = NoIndex
  /\ \A files, notes : Promised!WithResolver(files, notes) = WithResolver(files, notes)
BY DEF Promised!Absent, Absent, Promised!NoIndex, NoIndex, NoFiles, NoNotes,
       Promised!WithResolver, WithResolver, Promised!EdgesFor, EdgesFor, Promised!Edge, Edge,
       Promised!ResolveNote, ResolveNote, Promised!Present, Present

LEMMA InitRefines == Init => Promised!Init
<1> SUFFICES ASSUME Init PROVE Promised!Init
  OBVIOUS
<1>1. clock \in Nat /\ meta \in [Path -> 0..clock]
  <2>1. PICK P \in SUBSET Path : meta = [f \in Path |-> IF f \in P THEN Age[f] ELSE Absent]
    BY DEF Init
  <2>2. clock = InitialClock /\ InitialClock \in Nat /\ \A f \in Path : Age[f] \in 1..InitialClock
    BY AgeAssumption DEF Init
  <2>3. ASSUME NEW f \in Path
        PROVE  Age[f] \in 0..clock /\ Absent \in 0..clock
    <3>1. Age[f] \in 1..InitialClock /\ clock = InitialClock /\ InitialClock \in Nat
      BY <2>2
    <3> QED
      BY <3>1 DEF Absent
  <2> QED
    BY <2>1, <2>2, <2>3
<1>2. {p \in Proc : pc[p] # "idle"} = {}
  BY DEF Init
<1> QED
  BY <1>1, <1>2, SameData DEF Init, Promised!Init, Promised!Unseen

\* An index built from a scan and from contents that were kept for it is one that
\* was seen.
LEMMA AnswerSeen ==
  ASSUME IInv, TraceInv, NEW p \in Proc, pc[p] # "idle", toScan[p] = {},
         NEW notes \in Notes, NoteRows(notes) = Present(scanned[p]) \cap NotePath,
         \A f \in NotePath : scanned[p][f] # Absent => Kept(f, scanned[p][f], notes[f])
  PROVE  Promised!SeenIndex(Serve(BuildIndex(scanned[p], notes)), seen[p])
<1> DEFINE index == Serve(BuildIndex(scanned[p], notes))
<1>1. scanned[p] \in Files
  BY DEF IInv, TypeOK
<1>2. index.files = scanned[p] /\ index.notes = notes
      /\ index.links = WithResolver(scanned[p], notes) /\ index.served
  <2>1. [f \in Path |-> IF scanned[p][f] = Absent THEN NoBody ELSE notes[f]] = notes
    <3>1. \A f \in Path : (IF scanned[p][f] = Absent THEN NoBody ELSE notes[f]) = notes[f]
      BY DEF NoteRows, Present
    <3> QED
      BY <3>1 DEF Notes
  <2>2. \A e \in WithResolver(scanned[p], notes) : scanned[p][e[1]] # Absent
    <3> SUFFICES ASSUME NEW e \in WithResolver(scanned[p], notes)
                 PROVE  scanned[p][e[1]] # Absent
      OBVIOUS
    <3>1. /\ e \in Edge /\ notes[e[2]] # NoBody
          /\ e[1] \in ResolveNote(Present(scanned[p]), e[2], notes[e[2]])
      BY DEF WithResolver, EdgesFor
    <3>2. e[2] \in Path /\ notes[e[2]] \in Body
      BY <3>1 DEF Edge, Notes
    <3> QED
      BY <3>1, <3>2, ResolveNotePresent DEF Present
  <2> QED
    BY <2>1, <2>2 DEF BuildIndex, Assemble, Serve
<1> HIDE DEF index
<1>3. ASSUME NEW f \in Path
      PROVE  Promised!SeenEntry(index, seen[p][f], f)
  <2>1. PICK v \in seen[p][f] : v[1] = scanned[p][f]
    BY DEF TraceInv, TraceOf
  <2>2. CASE scanned[p][f] = Absent \/ f \notin NotePath
    <3>1. index.notes[f] = NoBody
      BY <1>2, <2>2 DEF NoteRows, Present
    <3> QED
      BY <1>2, <2>1, <2>2, <3>1, SameData DEF Promised!SeenEntry
  <2>3. CASE scanned[p][f] # Absent /\ f \in NotePath
    <3>1. SeenLater(p, f, scanned[p][f], notes[f])
      BY <2>3 DEF TraceInv, TraceOf
    <3>2. PICK w \in seen[p][f] : w[1] >= scanned[p][f] /\ w[2] = notes[f]
      BY <3>1 DEF SeenLater
    <3> QED
      BY <1>2, <2>1, <2>3, <3>2, SameData DEF Promised!SeenEntry
  <2> QED
    BY <2>2, <2>3
<1> QED
  BY <1>2, <1>3, SameData DEF Promised!SeenIndex, index

\* The readers of a coherent database see the index its rows make.
LEMMA StoreServes ==
  ASSUME NEW db \in Db, Coherent(db)
  PROVE  StoreIndex(db) = BuildIndex(db.files, db.notes)
BY ReadLinksComplete DEF Coherent, LinksOfNotes, StoreIndex, BuildIndex, WithResolver

LEMMA FreshSeen ==
  ASSUME IInv, TraceInv, NEW p \in Proc, ServeFresh(p)
  PROVE  Promised!SeenIndex(Serve(StoreIndex(Mine(p))), seen[p])
<1> DEFINE db == Mine(p)
<1>1. pc[p] = "collect" /\ toScan[p] = {} /\ Connected(p)
      /\ DeltaIsEmpty(scanned[p], persisted[p])
  BY DEF ServeFresh, Collected
<1>2. db \in Db /\ db \in Databases /\ Coherent(db) /\ persisted[p] = db.files
  BY <1>1, MineType DEF IInv, StoreCoherent, SnapshotCurrent, Mine, Databases
<1>3. scanned[p] \in Files /\ db.files \in Files /\ db.notes \in Notes
  BY <1>2 DEF IInv, TypeOK, Db
<1> HIDE DEF db
<1>4. db.files = scanned[p]
  <2>1. \A f \in Path : db.files[f] = scanned[p][f]
    BY <1>1, <1>2 DEF DeltaIsEmpty, Upserted, Deleted
  <2> QED
    BY <1>3, <2>1 DEF Files
<1>5. \A f \in NotePath : Kept(f, scanned[p][f], db.notes[f])
  BY <1>2, <1>4 DEF Kept
<1>6. NoteRows(db.notes) = Present(scanned[p]) \cap NotePath
  BY <1>2, <1>4 DEF Coherent, NotesOfFiles
<1>7. Promised!SeenIndex(Serve(BuildIndex(scanned[p], db.notes)), seen[p])
  BY <1>1, <1>3, <1>5, <1>6, AnswerSeen
<1> QED
  BY <1>2, <1>4, <1>7, StoreServes DEF db

\* What a refresh commits has the scan's file rows, and its notes are what the
\* update answers with, whether the handle's rows are read before or after.
LEMMA UpdateMakes ==
  ASSUME IInv, NEW p \in Proc, Ready(p), cmd[p] # "rebuild",
         NEW after, after.notes \in {Mine(p).notes, NextDb(p).notes}
  PROVE  /\ NextDb(p).files = scanned[p]
         /\ IntoIndex(Mine(p), after, scanned[p], persisted[p], parsed[p])
              = BuildIndex(scanned[p], NextDb(p).notes)
<1> DEFINE db == Mine(p)
           cur == scanned[p]
           modified == parsed[p]
           del == Deleted(cur, db.files)
           merged == MergeRefreshedNotes(db.notes, del, modified)
           stored == IF IsPathsUnchanged(cur, db.files) THEN after.notes ELSE db.notes
<1>1. pc[p] = "parse" /\ toParse[p] = {} /\ Connected(p)
  BY DEF Ready
<1>2. db \in Db /\ Coherent(db) /\ persisted[p] = db.files
  BY <1>1, MineType DEF IInv, StoreCoherent, SnapshotCurrent, Mine, Databases
<1>3. NoteRows(modified) = ToParse(p) \ toParse[p]
  BY <1>1 DEF IInv, Progress
<1>4. PassInputs(db, cur, modified)
  BY <1>1, <1>2, <1>3 DEF PassInputs, ToParse, IInv, TypeOK
<1>5. NextDb(p) = ApplyIncremental(db, cur, db.files, modified, Update(p).edges, key[p])
  <2>1. Update(p).notes = modified
    BY <1>2, <1>4, NotesToUpsert DEF Update
  <2> QED
    BY <1>2, <2>1 DEF NextDb
<1>6. NextDb(p).files = cur /\ NextDb(p).notes = merged
  BY <1>4, <1>5, RowsAfter
<1>7. MergeRefreshedNotes(merged, del, modified) = merged
  <2>1. ASSUME NEW f \in Path
        PROVE  (IF modified[f] # NoBody THEN modified[f] ELSE IF f \in del THEN NoBody ELSE merged[f])
                 = merged[f]
    BY DEF MergeRefreshedNotes
  <2>2. MergeRefreshedNotes(merged, del, modified) = [f \in Path |-> merged[f]]
    BY <2>1 DEF MergeRefreshedNotes
  <2> QED
    BY <2>2 DEF MergeRefreshedNotes
<1>8. MergeRefreshedNotes(stored, del, modified) = merged
  BY <1>6, <1>7
<1>9. Reconcile(db, cur, db.files, modified).edges.links = EdgesFor(cur, merged)
  BY <1>4, LinksAfter
<1>10. IntoIndex(db, after, cur, db.files, modified)
         = Assemble(cur, MergeRefreshedNotes(stored, del, modified),
                    Reconcile(db, cur, db.files, modified).edges.links)
  BY DEF IntoIndex
<1> HIDE DEF merged, stored
<1> QED
  BY <1>2, <1>6, <1>8, <1>9, <1>10 DEF BuildIndex, WithResolver

LEMMA UpdateSeen ==
  ASSUME IInv, TraceInv, NEW p \in Proc, Ready(p)
  PROVE  Promised!SeenIndex(Serve(BuildIndex(scanned[p], NextDb(p).notes)), seen[p])
<1> DEFINE db == NextDb(p)
<1>1. pc[p] = "parse" /\ toParse[p] = {}
  BY DEF Ready
<1>2. toScan[p] = {} /\ TypeOK /\ Progress
  BY <1>1 DEF IInv, Progress
<1>3. db \in Db /\ Coherent(db)
  BY NextDbType, NextDbCoherent DEF IInv
<1>4. db.files = scanned[p]
  <2>1. CASE cmd[p] = "rebuild"
    BY <2>1 DEF NextDb, ApplyRebuild, BuildIndex, Assemble
  <2>2. CASE cmd[p] # "rebuild"
    BY <2>2, UpdateMakes
  <2> QED
    BY <2>1, <2>2
<1>5. ASSUME NEW f \in NotePath, scanned[p][f] # Absent
      PROVE  Kept(f, scanned[p][f], db.notes[f])
  <2>1. Mine(p) \in Databases /\ f \in Path
    BY NotePathAssumption DEF Mine, Databases
  <2>2. \/ parsed[p][f] # NoBody /\ db.notes[f] = parsed[p][f]
        \/ db.files[f] = Mine(p).files[f] /\ db.notes[f] = Mine(p).notes[f]
    BY <1>2, <1>4, <1>5, <2>1, NextDbRow
  <2> QED
    BY <1>4, <2>1, <2>2 DEF Kept
<1>6. NoteRows(db.notes) = Present(scanned[p]) \cap NotePath /\ db.notes \in Notes
  BY <1>3, <1>4 DEF Coherent, NotesOfFiles, Db
<1> QED
  BY <1>1, <1>2, <1>5, <1>6, AnswerSeen

\* Every way to an answer.
LEMMA OutcomeSeen ==
  ASSUME IInv, TraceInv, NEW p \in Proc, Ready(p), NEW after,
         after = NextDb(p) \/ (after = Mine(p) /\ cmd[p] = "refresh")
  PROVE  Promised!SeenIndex(Serve(Outcome(p, after)), seen[p])
<1>1. CASE cmd[p] = "rebuild"
  <2>1. pc[p] = "parse" /\ toParse[p] = {}
    BY DEF Ready
  <2>2. NoteRows(parsed[p]) = Present(scanned[p]) \cap NotePath /\ parsed[p] \in Notes
        /\ toScan[p] = {}
    BY <1>1, <2>1 DEF IInv, Progress, ToParse, TypeOK
  <2>3. \A f \in NotePath : scanned[p][f] # Absent => Kept(f, scanned[p][f], parsed[p][f])
    BY <2>2, NotePathAssumption DEF Kept, NoteRows, Present
  <2>4. Promised!SeenIndex(Serve(BuildIndex(scanned[p], parsed[p])), seen[p])
    BY <2>1, <2>2, <2>3, AnswerSeen
  <2> QED
    BY <1>1, <2>4 DEF Outcome
<1>2. CASE cmd[p] = "refresh_store"
  <2>1. NextDb(p) \in Db /\ Coherent(NextDb(p)) /\ after = NextDb(p)
    BY <1>2, NextDbType, NextDbCoherent DEF IInv
  <2>2. NextDb(p).files = scanned[p]
    BY <1>2, UpdateMakes
  <2> QED
    BY <1>2, <2>1, <2>2, StoreServes, UpdateSeen DEF Outcome
<1>3. CASE cmd[p] \notin {"rebuild", "refresh_store"}
  <2>1. IntoIndex(Mine(p), after, scanned[p], persisted[p], parsed[p])
          = BuildIndex(scanned[p], NextDb(p).notes)
    BY <1>3, UpdateMakes
  <2> QED
    BY <1>3, <2>1, UpdateSeen DEF Outcome
<1> QED
  BY <1>1, <1>2, <1>3

\* A process serves nothing before it answers.
AnswersOnce == \A p \in Proc : result[p].served => pc[p] = "serve"

LEMMA NextAnswers == TypeOK /\ AnswersOnce /\ [Next]_vars => AnswersOnce'
<1> SUFFICES ASSUME TypeOK, AnswersOnce, [Next]_vars, NEW q \in Proc, result'[q].served
             PROVE  pc'[q] = "serve"
  BY DEF AnswersOnce
<1> USE DEF dbVars, planVars, cmdVars, envVars, diskVars, ProcStep, UserStep
<1>1. ASSUME NEW p \in Proc, pc' = [pc EXCEPT ![p] = "serve"],
             \/ \E i : result' = [result EXCEPT ![p] = i]
             \/ result' = result
      PROVE  pc'[q] = "serve"
  BY <1>1 DEF AnswersOnce, TypeOK
<1>2. CASE UNCHANGED <<pc, result>>
  BY <1>2 DEF AnswersOnce
<1>3. ASSUME NEW p \in Proc, Forget(p)
      PROVE  pc'[q] = "serve"
  <2>1. q # p
    BY <1>3 DEF Forget, TypeOK, NoIndex
  <2> QED
    BY <1>3, <2>1 DEF Forget, TypeOK, AnswersOnce
<1>4. ASSUME NEW p \in Proc, pc[p] # "serve", result' = result,
             \E s : pc' = [pc EXCEPT ![p] = s]
      PROVE  pc'[q] = "serve"
  <2>1. q # p
    BY <1>4 DEF AnswersOnce
  <2> QED
    BY <1>4, <2>1 DEF TypeOK, AnswersOnce
<1>5. CASE UserNext \/ DamageDb \/ UNCHANGED vars
  BY <1>2, <1>5 DEF UserNext, WriteFile, RemoveFile, MoveFile, SetClassField, DamageDb, vars
<1>6. ASSUME NEW p \in Proc, \/ \E c \in Commands : Begin(p, c)
                             \/ PlanParse(p)
      PROVE  pc'[q] = "serve"
  BY <1>4, <1>6 DEF Begin, PlanParse, Collected
<1>7. ASSUME NEW p \in Proc, ServeFresh(p) \/ Persist(p)
      PROVE  pc'[q] = "serve"
  BY <1>1, <1>7 DEF ServeFresh, Persist
<1>8. ASSUME NEW p \in Proc, PersistFails(p)
      PROVE  pc'[q] = "serve"
  BY <1>1, <1>3, <1>8 DEF PersistFails
<1>9. ASSUME NEW p \in Proc,
             \/ OpenStore(p) \/ RecreateDb(p) \/ RemoveDb(p) \/ OpenUnusable(p)
             \/ OpenDamaged(p) \/ \E f \in Path : ScanFile(p, f) \/ ParseNote(p, f)
      PROVE  pc'[q] = "serve"
  BY <1>2, <1>9 DEF OpenStore, RecreateDb, RemoveDb, OpenUnusable, OpenDamaged, Opened,
                    ScanFile, ParseNote
<1>10. ASSUME NEW p \in Proc,
             \/ OpenFails(p) \/ Finish(p) \/ IoError(p) \/ Crash(p)
             \/ \E f \in Path : ScanVanished(p, f) \/ ParseVanished(p, f)
      PROVE  pc'[q] = "serve"
  BY <1>3, <1>10 DEF OpenFails, Finish, IoError, Crash, ScanVanished, ParseVanished, Abort
<1>11. ASSUME NEW p \in Proc, ProcNext(p)
       PROVE  pc'[q] = "serve"
  BY <1>6, <1>7, <1>9, <1>10, <1>11 DEF ProcNext
<1> QED
  BY <1>5, <1>6, <1>8, <1>10, <1>11 DEF Next, FaultNext

Running == {p \in Proc : pc[p] # "idle"}

LEMMA EditRefines ==
  ASSUME Moves = {}, TypeOK, \/ \E f \in Path : RemoveFile(f) \/ \E g \in Path : MoveFile(f, g)
                        \/ \E f \in Path, b \in Body \cup {NoBody} : WriteFile(f, b)
  PROVE  \E f \in Path : Promised!Edit(f)
<1>1. PICK f \in Path : RemoveFile(f) \/ \E b \in Body \cup {NoBody} : WriteFile(f, b)
  BY DEF MoveFile
<1>2. /\ clock' = clock + 1
      /\ meta' = [meta EXCEPT ![f] = Absent] \/ meta' = [meta EXCEPT ![f] = clock + 1]
      /\ \E c \in Body \cup {NoBody} : body' = [body EXCEPT ![f] = c]
      /\ Witness /\ UNCHANGED <<pc, result>>
  BY <1>1 DEF RemoveFile, WriteFile, UserStep
<1>3. seen' = [p \in Proc |-> IF p \notin Running THEN seen[p]
                ELSE [g \in Path |-> seen[p][g] \cup {<<meta'[g], body'[g]>>}]]
  BY <1>2 DEF Witness, Running
<1>4. Running' = Running /\ result' = result
  BY <1>2 DEF Running
<1> QED
  BY <1>2, <1>3, <1>4, SameData DEF Promised!Edit, Running

LEMMA BeginRefines ==
  ASSUME TypeOK, NEW p \in Proc, NEW c \in Commands, Begin(p, c)
  PROVE  Promised!Begin(p)
<1>1. p \notin Running /\ Running' = Running \cup {p}
  BY DEF Begin, Running, TypeOK
<1>2. seen' = [seen EXCEPT ![p] = [f \in Path |-> {<<meta[f], body[f]>>}]]
  BY DEF Begin, Now, Version
<1> QED
  BY <1>1, <1>2 DEF Begin, Promised!Begin, Running, diskVars

LEMMA ForgetRefines ==
  ASSUME TypeOK, NEW p \in Proc, pc[p] # "idle", Forget(p)
  PROVE  Promised!End(p)
<1>1. p \in Running /\ Running' = Running \ {p}
  BY DEF Forget, Running, TypeOK
<1> QED
  BY <1>1, SameData DEF Forget, Promised!End, Promised!Unseen, Running, diskVars

LEMMA AnswerRefines ==
  ASSUME TypeOK, AnswersOnce, NEW p \in Proc, pc[p] \in {"collect", "parse"},
         pc' = [pc EXCEPT ![p] = "serve"], NEW index, result' = [result EXCEPT ![p] = index],
         UNCHANGED <<diskVars, seen>>, Promised!SeenIndex(index, seen[p])
  PROVE  Promised!Return(p)
<1>1. p \in Running /\ Running' = Running
  BY DEF Running, TypeOK
<1>2. ~result[p].served /\ result'[p] = index /\ \A q \in Proc \ {p} : result'[q] = result[q]
  BY DEF AnswersOnce, TypeOK
<1> QED
  BY <1>1, <1>2 DEF Promised!Return, Running, diskVars

\* A step changes none of what the abstract index is about.
LEMMA StuttersRefine ==
  ASSUME UNCHANGED <<diskVars, seen, result>>, Running' = Running
  PROVE  UNCHANGED Promised!vars
BY DEF Promised!vars, Running, diskVars

LEMMA NextRefines ==
  ASSUME Moves = {}, IInv, TraceInv, AnswersOnce, [Next]_vars
  PROVE  [Promised!Next]_(Promised!vars)
<1> USE DEF dbVars, planVars, cmdVars, envVars, diskVars, ProcStep, UserStep
<1>a. TypeOK /\ Progress
  BY DEF IInv
<1>1. ASSUME \/ \E f \in Path : RemoveFile(f) \/ \E g \in Path : MoveFile(f, g)
             \/ \E f \in Path, b \in Body \cup {NoBody} : WriteFile(f, b)
      PROVE  [Promised!Next]_(Promised!vars)
  BY <1>1, <1>a, EditRefines DEF Promised!Next
<1>2. CASE DamageDb \/ UNCHANGED vars \/ \E k \in ClassField : SetClassField(k)
  <2>1. UNCHANGED <<meta, body, clock, seen, result, pc>>
    BY <1>2 DEF DamageDb, vars, SetClassField
  <2>2. Running' = Running
    BY <2>1 DEF Running
  <2> QED
    BY <2>1, <2>2, StuttersRefine
<1>3. ASSUME NEW p \in Proc,
             \/ OpenStore(p) \/ RecreateDb(p) \/ RemoveDb(p) \/ OpenUnusable(p)
             \/ OpenDamaged(p) \/ \E f \in Path : ScanFile(p, f) \/ ParseNote(p, f)
      PROVE  [Promised!Next]_(Promised!vars)
  <2>1. UNCHANGED <<meta, body, clock, seen, result, pc>>
    BY <1>3 DEF OpenStore, RecreateDb, RemoveDb, OpenUnusable, OpenDamaged, Opened, ScanFile,
                ParseNote
  <2>2. Running' = Running
    BY <2>1 DEF Running
  <2> QED
    BY <2>1, <2>2, StuttersRefine
<1>4. ASSUME NEW p \in Proc, PlanParse(p)
      PROVE  [Promised!Next]_(Promised!vars)
  <2>1. /\ UNCHANGED <<meta, body, clock, seen, result>>
        /\ pc' = [pc EXCEPT ![p] = "parse"] /\ pc[p] # "idle"
    BY <1>4 DEF PlanParse, Collected
  <2>2. Running' = Running
    BY <1>a, <2>1 DEF Running, TypeOK
  <2> QED
    BY <2>1, <2>2, StuttersRefine
<1>5. ASSUME NEW p \in Proc,
             \/ OpenFails(p) \/ Finish(p) \/ IoError(p) \/ Crash(p)
             \/ \E f \in Path : ScanVanished(p, f) \/ ParseVanished(p, f)
      PROVE  [Promised!Next]_(Promised!vars)
  <2>1. Forget(p)
    BY <1>5 DEF OpenFails, Finish, IoError, Crash, ScanVanished, ParseVanished, Abort
  <2>2. pc[p] # "idle"
    BY <1>5, <1>a DEF OpenFails, MayOpen, Gone, Gap, Finish, IoError, Crash, ScanVanished,
                      ParseVanished, Progress
  <2> QED
    BY <1>a, <2>1, <2>2, ForgetRefines DEF Promised!Next
<1>6. ASSUME NEW p \in Proc, NEW c \in Commands, Begin(p, c)
      PROVE  [Promised!Next]_(Promised!vars)
  BY <1>6, <1>a, BeginRefines DEF Promised!Next
<1>7. ASSUME NEW p \in Proc, ServeFresh(p)
      PROVE  [Promised!Next]_(Promised!vars)
  <2>1. pc[p] = "collect"
    BY <1>7 DEF ServeFresh, Collected
  <2>2. Promised!Return(p)
    BY <1>7, <1>a, <2>1, FreshSeen, AnswerRefines DEF ServeFresh
  <2> QED
    BY <2>2 DEF Promised!Next
<1>8. ASSUME NEW p \in Proc, Persist(p)
      PROVE  [Promised!Next]_(Promised!vars)
  <2>1. Ready(p) /\ pc[p] = "parse"
    BY <1>8 DEF Persist, Ready
  <2>2. Promised!Return(p)
    BY <1>8, <1>a, <2>1, OutcomeSeen, AnswerRefines DEF Persist
  <2> QED
    BY <2>2 DEF Promised!Next
<1>9. ASSUME NEW p \in Proc, PersistFails(p)
      PROVE  [Promised!Next]_(Promised!vars)
  <2>1. Ready(p) /\ pc[p] = "parse"
    BY <1>9 DEF PersistFails, Ready
  <2>2. CASE cmd[p] = "refresh"
    <3>1. Promised!Return(p)
      BY <1>9, <1>a, <2>1, <2>2, OutcomeSeen, AnswerRefines DEF PersistFails
    <3> QED
      BY <3>1 DEF Promised!Next
  <2>3. CASE cmd[p] # "refresh"
    <3>1. Promised!End(p)
      BY <1>9, <1>a, <2>1, <2>3, ForgetRefines DEF PersistFails
    <3> QED
      BY <3>1 DEF Promised!Next
  <2> QED
    BY <2>2, <2>3
<1>10. ASSUME NEW p \in Proc, ProcNext(p)
       PROVE  [Promised!Next]_(Promised!vars)
  BY <1>3, <1>4, <1>5, <1>7, <1>8, <1>10 DEF ProcNext
<1> QED
  BY <1>1, <1>2, <1>5, <1>6, <1>9, <1>10 DEF Next, FaultNext, UserNext

\* Store, delta, locks, crashes and faults are an implementation of the index
\* without any of them: each command, if it answers, answers once and with an
\* index made of metadata its paths had while it ran, of contents no older than
\* that metadata, and of the links a full resolution of these gives
\* (service.rs: build, the reference for refresh and refresh_store).
THEOREM RefreshImplementsIndex ==
  ASSUME Moves = {}
  PROVE  Spec => ImplementsWorkspaceIndex
<1>1. Init => ServeInv /\ TraceInv /\ AnswersOnce
  <2>1. Init => ServeInv /\ AnswersOnce /\ \A p \in Proc : TraceOf(p)
    BY DEF Init, ServeInv, ServeOf, NoIndex, TraceOf, AnswersOnce
  <2>2. Init => ScansBehind
    <3> SUFFICES ASSUME Init, NEW p \in Proc, NEW f \in Path PROVE scanned[p][f] <= meta[f]
      BY DEF ScansBehind
    <3>1. scanned[p][f] = 0 /\ meta[f] \in Nat
      BY InitType DEF Init, NoFiles, Absent, TypeOK, Files, Stamp
    <3> QED
      BY <3>1
  <2> QED
    BY <2>1, <2>2 DEF TraceInv
<1>2. IInv /\ RowInv /\ RowInv' /\ ServeInv /\ [Next]_vars => ServeInv'
  BY NextServes
<1>3. IInv /\ RowInv /\ ServeInv /\ TraceInv /\ [Next]_vars => TraceInv'
  BY NextTrace
<1>4. IInv /\ AnswersOnce /\ [Next]_vars => AnswersOnce'
  BY NextAnswers DEF IInv
<1>5. IInv /\ TraceInv /\ AnswersOnce /\ [Next]_vars => [Promised!Next]_(Promised!vars)
  BY NextRefines
<1> QED
  BY <1>1, <1>2, <1>3, <1>4, <1>5, InitRefines, Inductive, RowsInductive, PTL
  DEF Spec, ImplementsWorkspaceIndex, Promised!Spec
=============================================================================
