------------------------------ MODULE IndexData ------------------------------
(***************************************************************************)
(* The data of the workspace index (src/src/index): scanned file metadata, *)
(* parsed notes, the inlink graph, the redb tables, and the pure functions *)
(* between them.  IndexRefresh puts them into motion.                      *)
(*                                                                         *)
(* A file's FileMeta (size, times, day, format) is one number, its stamp:  *)
(* FileDelta only ever compares whole FileMeta values for equality.  A     *)
(* note's parse is its body, of which the index looks at the outlinks and  *)
(* at the values of the two axes (tags, file classes).                     *)
(***************************************************************************)
EXTENDS Naturals

CONSTANTS
  Path,               \* project-relative paths
  NotePath,           \* those whose extension classifies them as notes
  Body,               \* note contents
  NoBody,             \* no note row
  NoTarget,           \* a link that resolves to nothing
  ClassField,         \* values the class_field option takes
  Outlinks(_),        \* the link targets written in a body
  AxisValues(_, _),   \* tags and classes of a body under a class field
  Resolve(_, _, _)    \* Resolve(paths, source, link): LinkResolver::resolve

ASSUME NotePathAssumption == NotePath \subseteq Path
ASSUME NoBodyAssumption   == NoBody \notin Body
ASSUME ResolveAssumption  ==
  \A P \in SUBSET Path, s \in Path, b \in Body : \A l \in Outlinks(b) :
    Resolve(P, s, l) \in P \cup {NoTarget}

Absent == 0           \* the stamp of a path with no file or no row
Stamp  == Nat

Files == [Path -> Stamp]
Notes == [Path -> Body \cup {NoBody}]
Edge  == Path \X Path                        \* <<target, source>>

Present(files) == {f \in Path : files[f] # Absent}
NoteRows(notes) == {f \in Path : notes[f] # NoBody}

-----------------------------------------------------------------------------
(* Links: inlinks.rs                                                       *)

ResolveNote(paths, source, body) ==
  {Resolve(paths, source, l) : l \in Outlinks(body)} \ {NoTarget}

\* resolve_edges_for: the edges out of the given notes.
EdgesFor(files, notes) ==
  {e \in Edge : /\ notes[e[2]] # NoBody
                /\ e[1] \in ResolveNote(Present(files), e[2], notes[e[2]])}

\* with_resolver: the whole graph; the same comprehension over every note.
WithResolver(files, notes) == EdgesFor(files, notes)

\* patch_and_diff: edges of edited sources are replaced, the rest kept; an edge
\* that is removed and inserted again is in neither list of the delta.
PatchAndDiff(links, edited, new) ==
  LET removed == {e \in links : e[2] \in edited}
      kept    == links \ removed
      added   == new \ kept
  IN  [links |-> kept \cup new,
       upserted |-> added \ removed, deleted |-> removed \ added]

\* Mutant: the two directions of the difference are confused.
InlinkDeltaSwapped(current, persisted) ==
  [links |-> current,
   upserted |-> persisted \ current, deleted |-> current \ persisted]

\* InlinkDelta::compute
InlinkDeltaCompute(current, persisted) ==
  [links |-> current,
   upserted |-> current \ persisted, deleted |-> persisted \ current]

-----------------------------------------------------------------------------
(* Deltas: delta.rs, refresh.rs                                            *)

Upserted(current, persisted) ==
  {f \in Path : current[f] # Absent /\ current[f] # persisted[f]}

Deleted(current, persisted) ==
  {f \in Path : current[f] = Absent /\ persisted[f] # Absent}

\* Mutant: deletions alone do not make a pass stale.
DeltaIsUpserts(current, persisted) == Upserted(current, persisted) = {}

DeltaIsEmpty(current, persisted) ==
  Upserted(current, persisted) = {} /\ Deleted(current, persisted) = {}

\* Mutant: an added file does not count as a change of paths.
NothingDeleted(current, persisted) == Deleted(current, persisted) = {}

IsPathsUnchanged(current, persisted) ==
  /\ Deleted(current, persisted) = {}
  /\ \A f \in Upserted(current, persisted) : persisted[f] # Absent

\* Mutant: deleted rows stay.
MergeKeepsDeleted(stored, deleted, modified) ==
  [f \in Path |-> IF modified[f] # NoBody THEN modified[f] ELSE stored[f]]

\* merge_refreshed_notes: stored rows without the deleted ones, with every
\* reparsed note in place of its row.
MergeRefreshedNotes(stored, deleted, modified) ==
  [f \in Path |-> IF modified[f] # NoBody THEN modified[f]
                  ELSE IF f \in deleted THEN NoBody
                  ELSE stored[f]]

-----------------------------------------------------------------------------
(* The store: store.rs, tables.rs.  The four axis tables are always opened *)
(* together, so they stand as one name.                                    *)

TABLES == {"files", "notes", "links", "axes"}

Axis == Path \X (UNION {AxisValues(b, k) : b \in Body, k \in ClassField})

EmptyDb(status) ==
  [status |-> status, tables |-> {},
   files |-> [f \in Path |-> Absent], notes |-> [f \in Path |-> NoBody],
   links |-> {}, byPath |-> {}, byValue |-> {}]

Db == [status : {"missing", "ok", "damaged"}, tables : SUBSET TABLES,
       files : Files, notes : Notes, links : SUBSET Edge,
       byPath : SUBSET Axis, byValue : SUBSET {<<x[2], x[1]>> : x \in Axis}]

\* rebuild_needed: a database with some tables but not all is to be replaced.
RebuildNeeded(db) == db.tables # {} /\ db.tables # TABLES

\* read_links with the maps of read_all_links: an edge survives when its target
\* is a known file and its source a known note.
ReadLinks(db, files) ==
  {e \in db.links : /\ files[e[1]] # Absent
                    /\ files[e[2]] # Absent /\ e[2] \in NotePath}

Values(notes, F, k) ==
  {x \in Axis : x[1] \in F /\ x[2] \in AxisValues(notes[x[1]], k)}

Flip(pairs) == {<<x[2], x[1]>> : x \in pairs}

\* apply_rebuild: every table deleted and rewritten.
ApplyRebuild(index, k) ==
  LET axis == Values(index.notes, NoteRows(index.notes), k)
  IN  [status |-> "ok", tables |-> TABLES,
       files |-> index.files, notes |-> index.notes, links |-> index.links,
       byPath |-> axis, byValue |-> Flip(axis)]

\* apply_incremental: deletions, file upserts, note upserts with their axis
\* entries (old values found through the path-keyed table), and the inlink
\* delta.  A table comes to exist when a batch first opens it: `links` only
\* with a non-empty inlink delta, `notes` and the axes only with a note or a
\* deletion.
ApplyIncremental(db, current, persisted, notes, edges, k) ==
  LET up      == Upserted(current, persisted)
      del     == Deleted(current, persisted)
      F       == NoteRows(notes)
      dropped == {x \in db.byPath : x[1] \in del \cup F}
      added   == Values(notes, F, k)
  IN  [status  |-> "ok",
       tables  |-> db.tables \cup {"files"}
                     \cup (IF del # {} \/ F # {} THEN {"notes", "axes"} ELSE {})
                     \cup (IF edges.upserted # {} \/ edges.deleted # {}
                             THEN {"links"} ELSE {}),
       files   |-> [f \in Path |-> IF f \in up THEN current[f]
                                   ELSE IF f \in del THEN Absent
                                   ELSE db.files[f]],
       notes   |-> [f \in Path |-> IF f \in F THEN notes[f]
                                   ELSE IF f \in del THEN NoBody
                                   ELSE db.notes[f]],
       links   |-> (db.links \ edges.deleted) \cup edges.upserted,
       byPath  |-> (db.byPath \ dropped) \cup added,
       byValue |-> (db.byValue \ Flip(dropped)) \cup Flip(added)]

\* RefreshPlan::reconcile: the full in-memory update of a stale pass, from the
\* handle's rows, the file rows read when it was opened, the scan, and the
\* notes reparsed for it.
Reconcile(db, current, persisted, modified) ==
  LET links  == ReadLinks(db, persisted)
      merged == MergeRefreshedNotes(db.notes, Deleted(current, persisted),
                                    modified)
  IN  IF IsPathsUnchanged(current, persisted)
      THEN [notes |-> modified,
            edges |-> PatchAndDiff(links, NoteRows(modified),
                                   EdgesFor(current, modified))]
      ELSE [notes |-> [f \in Path |-> IF f \in Upserted(current, persisted)
                                        THEN merged[f] ELSE NoBody],
            edges |-> InlinkDeltaCompute(WithResolver(current, merged), links)]

\* What a database's derived rows must be, given its file and note rows.
NotesOfFiles(db) ==
  NoteRows(db.notes) = Present(db.files) \cap NotePath
LinksOfNotes(db) == db.links = EdgesFor(db.files, db.notes)
AxesInverse(db)  == db.byValue = Flip(db.byPath)
AxesOfNotes(db)  ==
  \A f \in Path : \E k \in ClassField :
    {x \in db.byPath : x[1] = f}
      = Values(db.notes, {f} \cap NoteRows(db.notes), k)

Coherent(db) ==
  NotesOfFiles(db) /\ LinksOfNotes(db) /\ AxesInverse(db) /\ AxesOfNotes(db)

-----------------------------------------------------------------------------
(* The index handed to the caller: entry.rs, service.rs                    *)

\* WorkspaceIndex::assemble: one entry per file, with its note and its inlinks.
Assemble(files, notes, links) ==
  [files |-> files,
   notes |-> [f \in Path |-> IF files[f] = Absent THEN NoBody ELSE notes[f]],
   links |-> {e \in links : files[e[1]] # Absent}]

\* IndexUpdate::into_index: the update over the rows the store holds once the
\* persist attempt is over (`after`); a full note set was merged before it, from
\* the rows of `before`.
IntoIndex(before, after, current, persisted, modified) ==
  LET stored == IF IsPathsUnchanged(current, persisted)
                  THEN after.notes ELSE before.notes
  IN  Assemble(current,
               MergeRefreshedNotes(stored, Deleted(current, persisted), modified),
               Reconcile(before, current, persisted, modified).edges.links)

\* assemble_unchanged, and what the readers of a store handle see.
StoreIndex(db) == Assemble(db.files, db.notes, ReadLinks(db, db.files))

\* IndexerService::build over one scan and one parse of every note.
BuildIndex(files, notes) ==
  Assemble(files, notes, WithResolver(files, notes))
=============================================================================
