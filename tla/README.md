# Verification of traces

`traces` is a command line tool over a vault of Markdown notes. It keeps an
index of files, notes and links in a redb database, answers queries over it,
renders templates into new notes, and reads configuration that a user must
trust first. This directory holds TLA+ models of its core, TLC configurations
that check them on small instances, and TLAPS proofs about them.

1. [The system](#1-the-system)
2. [The models](#2-the-models)
3. [What the runs check](#3-what-the-runs-check)
4. [Bounds, symmetry and fairness](#4-bounds-symmetry-and-fairness)
5. [What is proved](#5-what-is-proved)
6. [Where code and documents disagree](#6-where-code-and-documents-disagree)
7. [What is not modelled](#7-what-is-not-modelled)
8. [Plan](#8-plan)
9. [Running it](#9-running-it)

Paths below are relative to `src/src/` of the repository.

## 1. The system

A `traces` process runs one command and ends. There is no server and no
in-process concurrency beyond rayon's parallel maps, which the code joins
before it goes on. What makes the system hard is that several processes, and
the user's editor, share files: the vault, the index database, the two stores
of trusted roots and tracked configs, and the templates' output.

| Component | State it keeps | Operations | Where it is hard | What makes it correct |
|---|---|---|---|---|
| Workspace index (`index/{service,refresh,delta,store,tables,inlinks,entry,sort}.rs`) | one redb file: file rows, note rows, tag and class tables in both directions, links | `refresh`, `refresh_store`, `rebuild`; `IndexStore::open` with its recovery | files change between scan, parse and commit; the database is replaced by path while others hold it; commits without durability; fail-open | the database is coherent and never holds a row that passes for current and is not; a command serves what a build from scratch would |
| Link resolution (`index/{inlinks,trie}.rs`) | an index per basename, list or trie | build, `resolve`, `nearest_flat`, `nearest` | two data structures answer one question; distances and ties through folders without nodes | the nearest file of the name, or none on a tie, whichever structure is used |
| Config trust and tracking (`config/{discovery,trust,tracker,service,file}.rs`, `file_tracker.rs`) | two directories of hash-named symlinks, companion files with digests | `load`, `trust`, `untrust`, `tracked clean` | nothing locks the directories; every system call interleaves, fails or is the last of a killed process | what is loaded was granted and not revoked; an undisturbed command does what it says whatever is left over |
| Schema registry (`schema/{builder,graph,service}.rs`, `schema/graph/*`, `schema/fields/builder.rs`) | resolved schemas, descendants | `build`, class queries | topological order by counters, Tarjan's algorithm unrolled into a stack, failures in the middle of an inheritance chain | each schema after its parents; cycles found exactly; closure downwards agrees with ancestors upwards |
| Query (`query/*`, `query/grammar/*`, `file_class_expander.rs`) | a plan, query sets with cached rows | parse, resolve to candidates, read rows, run a plan, branch | candidates from tables against matching entries; fusions of plan steps; rows that do not decode | text, tables and fusions are unobservable: the rows are those the text selects and the steps give |
| Template rendering and output (`template/*`, `cli/template.rs`) | per render: captured `write_to`, cached index, prompt answers | find, render, write | the output path is checked, prompted for and created in separate steps | nothing is overwritten without `--force`; output stays under the root |
| Dialogs (`dialog/*`) | a queue of preset answers, or the terminal | text, confirm, select, multi-select | answers that run out, cancelled prompts | answers reach the prompts in order |
| Note parser (`note/*`, `lexer.rs`, `delimiter.rs`) | a cursor over Markdown events, a stack of open items with a marker buffer each | `parse` | one pass must tell text, checkbox, fields, tags and tasks of nested items apart, from text that comes in arbitrary pieces | the items, tasks, metadata and completion are those of the note as written |
| Tasks (`task.rs`, `cli/task.rs`) | three tables of statuses, by symbol, name and type | insert, lookup, classify | a status replaced under one key stands under the others | the tables agree; a task has the status that the config gives its symbol |
| Dates and durations (`date.rs`, `duration.rs`) | none | parse, shift, add, measure | calendar units against exact units, month ends, readings of the local clock with no instant or two | every way of moving or measuring a date agrees with the others, in queries and in templates |
| Config values (`config/{builder,model,raw}.rs`) | the merged `Config` | merge, validate | scalars merge by key and lists as a whole; bad values of the losing file | the nearest scope wins, field by field |
| Schema field types (`schema/fields/*`) | a cache of values files, for one build | build a field from its table and the field it refers to | ranges put together from several tables; mistakes that drop a part or the whole; files that are edited during the build | an option is what the table or the base says; a range is one; one reading of a file |
| Files and paths (`path.rs`, `dirtree.rs`, `file.rs`, `hash.rs`, `dirs.rs`) | none | walk, confine, hash | symlinks, vanishing directories | a confined path stays under its root |
| Row encoding (`index/codec.rs`) | none | encode, decode | old or torn bytes | an undecodable row is skipped |
| Commands (`cli/*`) | none | argument parsing, dispatch, messages | - | - |

How they interact. A command loads the config (config trust), builds the
schema registry from the config's directory, opens and refreshes the index,
and asks queries of it or renders a template, which itself calls queries and
schemas. The index calls the note parser for stale files and the link resolver
for edges. Queries expand class names through the schema registry. Everything
is a direct call; processes meet only in the file system.

## 2. The models

```
IndexData <--- IndexRefresh ----(refines)----> WorkspaceIndex
                   ^      ^
                   |      '--- MCIndexRefresh     (TLC)
                   '--- IndexRefresh_proofs       (TLAPS)

ConfigTrust  <--- MCConfigTrust,   ConfigTrust_proofs
SchemaGraph, SchemaFields <--- SchemaBuilder <--- MCSchemaBuilder
                               SchemaBuilder <--- SchemaBuilder_proofs ---> SchemaGraph_proofs
LinkResolution <--- MCLinkResolution, LinkResolution_proofs
QueryGrammar <--- QuerySource <--- QueryPlan <--- Query <--- MCQuery
TemplateLoader <--- TemplateOutput <--- MCTemplateOutput, TemplateOutput_proofs
NoteText <--- NoteMarker <----.
TaskStatuses <--- ConfigValues <--- NoteParser <--- NoteOutline <--- MCNote, NoteOutline_proofs
CivilTime, Durations <--- DateValues <--- TemporalValues <--- MCTemporalValues, TemporalValues_proofs
```

### IndexData and IndexRefresh

`IndexData` holds what is computed without touching a file: the contents of a
database, the delta of a scan (`delta.rs: compute`), the merge of stored and
parsed notes (`merge_refreshed_notes`), the choice between patching and
recomputing inlinks (`is_paths_unchanged`, `patch_and_diff`), and what a commit
makes of a database (`apply_modified_notes`, `persist`). A file's metadata is
one stamp; its contents are a body with outlinks and axis values; `Resolve`,
a constant, is the link resolver.

`IndexRefresh` is the machine. `store`, `durable` and `orphan` are the
database file, what a crash falls back to, and files that were unlinked while
a handle was open; `holder` is redb's lock. Per process, `pc` and `conn` are
the place in the command and the state of the handle, and `scanned`,
`persisted`, `toParse` and `parsed` are the locals of the pass. Each action is
one step another process can observe or spoil: `ScanFile` reads one file's
metadata, `ParseNote` one file's contents, `OpenStore`, `OpenUnusable`,
`OpenDamaged`, `RemoveDb` and `RecreateDb` the steps of `IndexStore::open`
with the gap in which no lock is held, `Persist` one transaction,
`Finish` the drop of the handle. `ScanVanished`, `ParseVanished`, `OpenFails`,
`PersistFails`, `IoError` and `Crash` are the failures, `WriteFile`,
`RemoveFile`, `MoveFile`, `SetClassField` and `DamageDb` the outside world.
The variable `seen` is history: which versions of a path were there since a
command began.

`WorkspaceIndex` is the abstract specification: no store, no delta, no lock.
A command looks at the disk while it runs and returns, per path, metadata the
path really had, contents read no earlier than it, and the links that a full
resolution of just these entries gives. `IndexRefresh` implements it with
`running` as the processes that are not idle.

### ConfigTrust

`entries` are the symlinks of the two stores, `hash` the companions. A digest
is the content it was computed from, as hashes do not collide here; `Torn` is
a companion that was created or truncated and not yet written. One action is
one system call: `Walk` (one ancestor of `nearest_local`), `Canonicalize`,
`Exists`, `Link` (the three calls of `FilePathTracker::record`), `Contains`,
`Baseline`, `Compare` (the load's check), `Read`, `Open`, `Write` (a grant's
companion, in the two parts of `fs::write`), `Remove`, `RemoveCompanion`
(`untrust`), `Sweep`, `Unlink`, `Companions` (`clean`). A call fails or a process
is killed between any two. Companions that were unlinked while open swallow
their write (`linked`). History: `granted` contents, what a success will
revoke (`doomed`), what a load may return (`allowed`), whether anything
interfered (`calm`).

### SchemaGraph, SchemaFields and SchemaBuilder

`SchemaGraph` is Kahn's sort of `schema/graph/builder.rs` and the iterative
Tarjan search of `schema/graph/cycle.rs` over a graph in CSR form; one action
per turn of a loop (`Resolve`, `Drained`, `Start`, `Discover`, `Advance`,
`Finish`, `Searched`). `SchemaBuilder` extends it with
`SchemaBuilder::build`: the Global Schema, the graph, one schema per step in
topological order (inherit, exclude, own fields with `$ref`, ambiguity check),
the sweep that accumulates descendants, and the filter that drops failed
links.

`SchemaFields` is `schema/fields/*`: the options of each type (`ParseNumber`,
`ParseDate`, `ParseFile`, `ParseSelect`), entries of select fields inline or from
a file, and `FieldOf`, the field that a table and its base make. A table with a
type fails with any mistake; one with only a `$ref` loses what is wrong. One
values file stands for all: `disk` is its version, which `EditValuesFile` moves on
between two schemas, and `cached` what `SelectValuesFileCache` holds.

### LinkResolution

One lookup: the candidates of the link's stem are put in a trie or left in a
list (`TRIE_THRESHOLD` is a constant of the model), aggregated bottom-up
(`aggregate`, `excluding_per_child`), and `resolve` tries the exact path, the
path with `.md`, then the nearest by extension and the nearest of any. The scan
of the list and the walk up the trie go step by step.

### QueryGrammar, QuerySource, QueryPlan, Query

`QueryGrammar` is the recursive descent parser of `grammar/expr.rs` on tokens,
and `Reading`, the meaning of a text defined without a tree. `QuerySource` is
the selection of rows: from an index by matching each entry, from the store by
resolving the expression to candidate paths in tables that iterate in byte
order, reading the rows that decode, and matching what is assembled.
`QueryPlan` is the comparison of values, filters, sorts, limits, groups and
flattening, the fusions of `plan.rs`, and `StepByStep`, the reference without
fusion. `Query` is the machine: `Parse`, `ResolveSourceClasses`, `Serve`, then
`Push` and `Read` on a growing set of lazily evaluated query sets.

### TemplateLoader and TemplateOutput

`TemplateLoader` is names of templates (sequences of segments between dots,
so that stem and extension are what `Path` says they are), the hits of a search
by stem and what the picker lists. `TemplateOutput` is one `traces template`
per process, from `cli/template.rs: execute` to the bytes in the file, among
the edits of a user:

* `List`, `Choose`: the picker; what it offered may be gone when the user
  answers. `Build`: validation of the name and `TemplateService::new`.
* `FindPathIn`, `FindNameIn`, `ReadTemplate`: the search, one file system call
  at a time, of the template and of every include; edits fall in between.
* `WriteTo`, `Ask`, `TextInput`, `Query`, `FileInclude`, `Include`, `Leave`: the
  operations of a template that the output depends on. `frames` are the
  templates being rendered, `loaded` what minijinja keeps of its loader,
  `declared` and `cached` the entries of minijinja's `State`.
* `Resolve`, `Prompt`: the choice of the path, with the collision prompt.
  `Create`, `Fill`: `create_file` and `write_all`, between which the file is
  empty. `Cancel` is Escape at a prompt. A fault can end any step that makes a
  fallible call, except where the code takes the failure for absence: a look-up by
  path then goes on (`FindPathIn`), and the picker leaves out what it cannot read
  (`List`). `Kill` ends any step.

Files have numbers, so that a path and an open handle are different things:
`disk` says which file a path names, `data` what is in each and, as history,
who made it and who has written to it since it was last empty. A path is a
member of `Inside`, `Refused` stands for all texts that confinement rejects,
and the default output is its own constant because it is not confined.

### NoteText, NoteMarker, TaskStatuses, ConfigValues, NoteParser, NoteOutline

The events are those of pulldown-cmark, the text a small alphabet (`Characters`):
letters, a date, white space, brackets, and `D`, `P`, `::` and `#` for what makes a
date, a priority, a field or a tag. A character has its width in bytes. `NoteText`
is what the lexers find in a text (`note/parser/{lexer,task}.rs`, `tag.rs`,
`delimiter.rs`). `NoteMarker` is the accumulator that decides whether an item begins
with a checkbox (`note/parser/marker.rs`). `TaskStatuses` is the map of statuses
with its three lookups (`task.rs`) and `ConfigValues` the merge and the checks of
two config files (`config/{builder,raw,model}.rs`); the two are the parser's
environment.

`NoteParser` is the cursor of `note/parser.rs` with the item stack of
`note/parser/list.rs`: one action per kind of event (`StartItem`, `EndItem`,
`StartList`, `HandleCode`, `PushBreak`, `StartLink`, ...), each the whole handler with
its flushes. `NoteOutline` says what the note is, from the list of events and
without the stack: the properties compare the two.

### CivilTime, Durations, DateValues, TemporalValues

Time is counted in half hours. `CivilTime` is the calendar and the zone, which
are chrono's: the Gregorian calendar, with the first day of a month in closed form,
and a zone as a first offset and the instants at which it changes.
`Durations` is `duration.rs`: magnitudes in halves, so that half a unit can be
written; the text kept beside the seconds; sums, differences and products of
written and of measured durations. `DateValues` is `date.rs`:
`local_naive_to_utc` with the search out of a gap, and the three kinds of
value that each have a `shift` and an `apply` of their own.

`TemporalValues` takes one date through both front ends at once: as a value of
a query's filter (`query/grammar/filter.rs: evaluate_binary`,
`evaluate_registry_call`), and as the text that each filter of a template
recognises, moves and writes again (`template/engine/date.rs`). `lost` is
history: a step came upon something that the text cannot say (the later of two
instants with one reading, a day inside a text that is a month), or moved a date
without a time to another day by hours (section 6). `Index` reads
the template's text as a field of a note.

## 3. What the runs check

| Run | Instance | Properties |
|---|---|---|
| `index_concurrent` | 2 processes, a note and an attachment, refresh and rebuild, an edit, a fault | `StoreCoherent`: tables agree with each other and with a recompute in the file, in what a crash restores and in unlinked files. `RowsCurrent`: a row under a file's present metadata is the parse of its present contents. `SnapshotCurrent`: a pass commits on the rows it computed from. `ServesBuild`: with a disk that held still, what is served is what a build gives. `ImplementsWorkspaceIndex`: with a disk that did not, it is what `WorkspaceIndex` allows |
| `index_converges` | 1 process, a note that is edited, removed and renamed, also over another, all three commands; 3 changes, of which one may be of `class_field` and one a fault | `StoreCoherent` where metadata no longer identifies contents, and the liveness property `Converges`: the stored index comes to agree with the disk again, if no file is moved back |
| `trust_races` | 2 processes, 2 contents, 2 edits. Racing over 1 root with a fault; one after the other over 2 nested roots with 2 faults | `LoadAuthorised`: a load returns a content granted and not revoked before it began. `AloneAchieves`: a command nothing interferes with does what it documents, over whatever interrupted commands left behind. `BaselineUntilRace`: until two commands race, no root is trusted without a baseline unless it had no config |
| `schema_registry` | all loopless graphs of 4 schemas, odd lists of 3, acyclic registries with fields, references, excludes, failures; chains of two references through tables of four types; three select fields of a file with an edit | `TopologicalOrder`, `CyclesExact`: the sort stops short of the cycles and the search reports just them. `Settled`: merging again changes nothing, so the order of the files does not matter. `OptionsHold`: along references an option is as some table says, but for misshapen values (section 6), and ranges stay ranges. `OneReading`: all fields show one version of a file. `MatchesIsA`: class queries agree with `is_a`. `AncestorsExact`, and `Ends` |
| `link_resolution` | up to 4 files of a name in folders 3 deep, both structures | `ResolvesNearest`: list and trie give the declared answer, which is none on a tie, but for ties among files of the extension asked for (section 6). `WalkSees`: the trie's aggregates and its walk count every candidate once |
| `query_session` | texts of up to 4 tokens and longer ones; 72 vaults under 8 forms of source; plans of up to 3 pushes | `ParsesAsWritten`, `ServesMatching`, `ReadsItsPlan` |
| `template_output` | 2 renders in 4 pairings of commands (picked, replayed, silent, forced, dry, unnamed), 3 template trees of 2 directories, an edit, a fault | `TypeOK`: above all, output stays inside. `OwnFilesOnly`: without `--force` no render writes to a file it did not make. `ReportedIsThere`: what is reported as written is complete and at its path. `OneSnapshot`: the queries of a render share one index. `SearchIsSound`: no edit or failing call during a search makes it prefer, miss or choose wrongly among the files that stood, but in a directory whose look-up by path failed (section 6). `Ends` |
| `note_parser` | ten first lines of items, each cut into pieces in every way and ended by each of ten sequels; four outlines of four items; fields, tags and dates in every kind of block; one task under pairs of config files, one of whose statuses is no task | `OutlineAsWritten`: depth, parent and list of each item, and who is below whom. `MarkersAsWritten`: checkbox and text do not depend on how the text was cut. `MetadataAsWritten`: each field and tag belongs to the innermost item, in the order written. `CompletionExact`: an item is complete if all tasks below it are. `ClassifiedAsConfigured`: tasks and their statuses by configuration. `LookupsAgree`: the three tables of statuses agree, and the last of its symbol and name is found by both |
| `temporal_values` | 9 texts of dates in 4 zones (changes of an hour, half an hour, a whole day), 2 steps | `WallsResolve`: every reading of the clock has the instant that is meant. `ShiftsAgree`: units, durations and points move alike, days keep the time of day, hours are elapsed time. `DiffsMeasure`: what a difference says, moving by it does. `DurationsFold`: text, parts and seconds agree. `FrontEndsAgree`: the text of a template is the value of the query, until a step that a text cannot tell or that moves a date by hours (section 6) |
| `index_cold`, `trust_untracked`, `note_names` | the smallest instances | one violated statement each, see section 6 |

`PROJECT.json` gives for every property of every passing run a mutant: a
plausible bug in a definition (defined next to the original, marked "Mutant")
under which TLC finds that property violated. It also lists the hazards of the
code, each at its line, with the properties that watch it.

## 4. Bounds, symmetry and fairness

Bounds are constants: `MaxClock` (edits), `MaxFaults`, `MaxSettings` in
`IndexRefresh`, with `MaxTurns` over all three; `MaxEdits`,
`MaxFaults` in `ConfigTrust` and `TemplateOutput`, and `MaxRaceFaults` in
`MCConfigTrust`; `MaxDepth` in `TemplateOutput` stands for minijinja's limit on
nested includes; `MaxSets` in `Query`; `Count` in `SchemaGraph` is a parameter of
the program's input. They bound the environment only: besides minijinja's own limit,
no guard of a program's step refers to one.

* Two processes are enough for every pairwise race of the index, and all the
  code's coordination is pairwise: one lock, one file replaced under one other
  handle. One edit during two overlapping commands separates scan, parse and
  commit in every order. Deltas with several paths and renames come from
  `index_converges`: three changes of the disk are enough to edit a note between its
  scan and its parse, move it, and put another in its place. That run leaves out the
  user who moves a file away and back (`Moves` goes one way), for whom `Converges`
  does not hold (section 6).
* A fault budget of one (two in `trust_races` while no commands race) reaches every
  step, as any step may be the one that fails; two cover a failure while what the
  first left behind is repaired.
* Four schemas give every shape on which Tarjan's algorithm can go wrong with
  two components that touch; three with fields give a chain with a failing
  middle.
* Three tables in a chain of references give an override that crosses a bound
  its base took over from elsewhere, and a change of type in the middle. A file
  of two versions, each of six kinds, read by up to four fields, is repaired,
  broken or changed before and after the first reading. Integers with one mark for
  what is not finite stand for floats, which are only compared.
* Four candidates in folders three deep give a folder with two children and
  candidates of its own, skipped folders, and ties at different heights.
* Query texts of up to four tokens are exhaustive; the longer family adds
  every pair of connectives around negations and parentheses.

* Two renders with one free edit give every race for one path: two creations, a
  creation under a prompt, a truncation under an open file. The trees hold a
  local and a global file of one name, two files of one stem, and an include
  that includes itself.

* In `note_parser` the alphabet has one character of each kind that any scanner
  asks for, and some of them take four bytes, as the marker buffer counts bytes.
  `MaxDepth` is 2 where the code has 255, so that the saturation is reached.
* In `temporal_values` every text is in every zone; the texts lie on leap days,
  ends of months and of a year, in gaps and in repeated hours, or one step away.
  Two steps bring a value that one front end made into the other.

Symmetry: processes in `index_concurrent`, processes and contents in
`trust_races`. Neither run has a liveness property and no formula names a
member of these sets. Deadlock is checked for the index and the trust models.
The schema, link, query, template, note and date machines compute an answer and
stop, so their configurations say `CHECK_DEADLOCK FALSE`.

Fairness. `index_converges` assumes weak fairness of `Begin` and of `ProcNext` per
process: a process that is running is scheduled until it ends, and the user keeps
running commands. Nothing is assumed about failures,
edits or which command the user picks, and the property is for the suffix after the
bounded edits and faults. `SchemaBuilder` assumes that the running `build` goes on.
`TemplateOutput` assumes weak fairness of `Runs(p)`, as a process that can go on is
scheduled, and of `Cancel(p)`: a user at a prompt that keeps coming back cancels
some day. Preset answers have no such user, and `Ends` excepts them. All other
properties are safety.

## 5. What is proved

TLAPS checks these for all values of the constants under the modules' named
assumptions.

The inductive invariants are checked by TLAPS alone, as they are proved for every
instance; the runs keep the properties that follow from them.

**IndexRefresh.** `TypeCorrect`, `StoreStaysCoherent`, `SnapshotStaysCurrent`
from `Inductive`: `Spec => []IInv`, where

    IInv = TypeOK /\ LockExclusive /\ DiskNotes /\ Progress
           /\ SnapshotCurrent /\ StoreCoherent

`StoreCoherent` alone is not inductive. A commit keeps a database coherent only
if the pass computed its delta from that very database (`SnapshotCurrent`),
which holds because at most one handle is on the file at the path
(`LockExclusive`) and a replaced file goes on as an orphan; and only if every
upserted note was parsed (`Progress`), which needs that bodies exist exactly
for present notes (`DiskNotes`). That a commit then keeps coherence is the
pure part, about the functions of `IndexData`: `IncrementalCoherent` and
`RebuildCoherent`, for any resolver that depends only on the set of paths, the source and the
link. The theorem covers renames, changes of `class_field`, any number of
processes, edits and faults.

Three more rest on `IInv` and on the assumption `Moves = {}`, which the run
`index_concurrent` makes too: renames can take the file with the scanned stamp away
and bring it back later, and what was parsed meanwhile then counts as its contents.

* `RowsStayCurrent` (`RowsCurrent`), from `RowInv`, which adds that no stamp in any
  database or scan is ahead of the clock (`StampsKnown`), so that an edit's stamp
  is in none of them, and that what a pass parsed is what the file holds as long as
  the file has the stamp that was scanned (`ParsedCurrent`). A database gets its
  rows from those (`NextDbRow`).
* `CommandsServeBuilds` (`ServesBuild`), from `ServeInv`: what a command knows while
  the disk stays as it found it. Its scan agrees with the disk, so the delta is
  right by `SnapshotCurrent`, the rows it keeps are right by `RowsCurrent`, and the
  links are by `StoreCoherent`; each of the ways to an answer (fresh, incremental, a
  rebuild, the fail-open one) then gives `BuildIndex(meta, body)`.
* `RefreshImplementsIndex` (`ImplementsWorkspaceIndex`): the same answers while the
  disk does change. `TraceInv` says of each path a command has scanned that it had
  that stamp while the command ran, and that whatever contents any database or
  pass has for the path under that stamp were there then, under this stamp or a
  later one. It is inductive because pairs of stamp and contents only come to be by
  parsing what is on the disk (`KeptBefore`), a path's stamps only grow
  (`ScansBehind`), and the scan of a path sees the very contents that `RowsCurrent`
  gives to its stamp. Every way to an answer is `BuildIndex` of the scan and notes
  so kept (`OutcomeSeen`), hence a `Return` of `WorkspaceIndex`; a user's edit is its
  `Edit`, a command that ends its `End`, and the rest are stutters.

**ConfigTrust.** `TrustTypeCorrect` and `LoadsAreAuthorised` from
`TrustInductive`:

    IInv = TypeOK /\ JobShape /\ HashGranted /\ GrantsStand
           /\ LoadsAllowed /\ RevocationsPend

A load compares the config with a digest that was in the store at some moment after
the load began. That digest is of a granted content (`HashGranted`). It is allowed
to this load unless it was revoked before the load began, and then it had been
overwritten or removed already: while a revocation is not over, the overwrite or
removal is still to come (`RevocationsPend`), and no grant in flight writes a
content that somebody is about to revoke (`GrantsStand`). `EntriesHaveBaselines`, of
which the run checks `BaselineUntilRace`, assumes commands that run one after the
other (`Alone`: there is one process), which two racing grants do not; its invariant
adds to `BaselineBeforeEntry` what the step of a command relies on (`Backed`): the
companion that is being written is there, and so is that of a config about to be
entered, while a root whose companion is to be removed has no entry any more. Every
order of failing calls and kills is among its steps. `AloneCommandsAchieve`
(`AloneAchieves`) is about a command during which nothing else moved. `CalmInv`
says, step by step, what such a command knows of the store and of the disk
(`Knows`): what it has written is there, what it has removed is gone, the walk up
has passed no config, and every stale entry is still among those to be swept.
Anybody else's step, and a failing or killed one, ends the calm, so nothing is
claimed of it.

**SchemaBuilder.** Of every build, for any number of schemas, any lists and any
tables (`InputsAssumption`: the names of a schema's tables are distinct, as keys
are, and each table has a type or an address, which
`RawSchemaFieldSource` enforces).
`SortInductive`: each counter is the number of known parents not yet yielded, and
queue and output together hold, once each, exactly the schemas whose counter is
zero. From it `SortsTopologically`, and `SortStopsAtCycles`: when the queue is
empty, every schema left over has a known parent that is left over. On it rests
`RegistryInv`: what is resolved comes before the next schema in the order, so a
schema that joins is new and the others stay as they are. With it

* `RangesAreRanges`: `FieldIsSound` makes a range of a base's range whatever is in
  the table, every parent's field is sound, and what is inherited is given by some
  parent (`InheritedSound`, with the first of them from `LeastNatural`);
* `FilesAreReadOnce` (`OneReading`) and `OptionsAreKept` (`OptionsHold`), from
  `ReadingInv`: what a table refers to is resolved, so the base it was built from
  stays (`ReadingKept`), and every field in the registry is what its table and that
  base make of it. A schema that joins shows what `Remember` keeps at that step
  (`ReadingJoins`), since a select that shows entries of a file has them from a load
  that succeeded. `ParseMinds` goes through the five parsers for any table of TOML
  values; behind the entries of a list is `StableSort`: to put each item where as
  many come before it is a permutation, and sorts.

The search for cycles is in `SchemaGraph_proofs`. `SearchInv` says of Tarjan's loop:
the frames are a path of the graph whose remaining parents are still to be looked
at, the stack holds in order of discovery the ranked schemas whose component is not
closed, each of them reaches a frame (`StackReaches`), what is closed has only
discovered parents (`ParentsDiscovered`), the lowest ranks are reached
(`LowestIsLowest`), and what was reported are the cycles among the closed ones
(`CyclesFound`). That one schema extends into another is said without paths: every
set that has the one and with each member its known parents has the other. From it
`CyclesAreFound` (`CyclesExact`).

The merge has its own invariant, `MergeInv`. `AncestryInv` says of the ancestors in
the registry that they are what merging once more would give, that an ancestor's
are among them, and that they are in every set that is closed upwards and has the
schema's parents; `Stands` says of every schema the merge has passed that merging it
again gives what is stored, or fails again. It is inductive because a schema that
joins or fails is no parent, ancestor or target of those passed
(`NextIsNoParent`, from the topological order), so that these are merged from what
they were merged from (`SameFor`). It gives `RegistrySettles` (`Settled`) and
`AncestorsAreExact` (`AncestorsExact`). The closure is `SweepInv`: the schemas
behind the counter (`Gathered`) have gathered every resolved schema that has them
as an ancestor, since such a schema extends them or another of its ancestors does
(`AncestorHasChild`); `still_descends_from` drops the rest. That is `MatchingIsIsA`
(`MatchesIsA`).

**LinkResolution.** `LinksResolveNearest` (`ResolvesNearest`) and `WalksCountOnce`
(`WalkSees`) from `LinkInductive`, for any listing without repetitions, any folder of
the note, any link and any threshold, so that the list and the trie are shown to
answer alike because both answer right:

    IInv = InputOK /\ TrieInv /\ LookupInv /\ ScanInv /\ WalkInv /\ AnswerStands

`AnswerStands` says what the code answers, ties among files of an extension
included; `ResolvesNearest`, which leaves these out, follows. The distance of
`distance_to`, computed from the common prefix, is that of the shortest walk through
the folders (`DistanceIsHops`). `TrieInv`: the arena is closed upwards and has no
node before its parent (`Tree`, kept by `ensure_folder_node`: `WithFolderSpec`),
hence the pass from behind finds every child aggregated before its parent; and what
it has passed knows its candidates (`Told`). That is carried by `Knows`: an
aggregate has the least depth of a set of candidates, how many have it and one of
them. `Knows` is kept by merging those of disjoint sets (`NearerTells`,
`MergedKnows`), so by the loops over children, prefixes and suffixes
(`MergedFromKnows`, `ExcludingKnows`), and the candidates below a folder are its own
and, apart from each other, those below its children (`Subtrees`). `WalkInv`: no
folder of the trie on the note's own path is below the one where the walk starts
(`LowestKnown`), so that depths become distances by one shift on every level
(`AwayBelow`, `Shifted`), and having left a folder the walk knows exactly the
candidates below it. `LookupInv` has the order of the two lookups: the second one is
made only when the first has no single answer. `InputsAssumption` asks that a
`usize` can count the way between two folders, which `EMPTY` stands on: its depth is
the largest number.

**TemplateOutput.** `TemplateTypeCorrect`, `RendersLeaveOthersAlone`
(`OwnFilesOnly`) and `ReportedStaysThere` (`ReportedIsThere`) from
`TemplateInductive`:

    IInv = TypeOK /\ Progress /\ HasWriters /\ OwnFilesOnly /\ ReportedIsThere

Neither property is inductive alone: a write goes through a handle, and what
it may hit depends on how the handle was opened and on what happened to the
file since. `Progress` carries that. A process in `fill` has a file open that it
made itself or was forced to take; the file is empty unless somebody else has
written to it (`HasWriters`: nobody's text has no writer), and its path still
names it unless the user removed it, since nothing in the program removes or
renames. The lemmas about other processes' steps say that a file another
changes has that other among its writers. The proof covers any number of
renders, directories, names, edits and any depth of includes.

`SearchesAreSound` (`SearchIsSound`) and `OneIndexPerRender` (`OneSnapshot`) are
from `SearchInductive`. `SearchInv` says that the directories before the one being
searched were passed, with a look or because that look failed (`Searching`), that no
candidate that still stands untouched goes before the one about to be read
(`FoundRightly`: edits only take candidates away), and that all queries of a render
ran against what is cached, once something is (`Snapshot`). It takes from the code
that the directories are searched in one order, the local one first
(`TemplateAssumption`).

**NoteOutline.** `LookupsStayInStep` (`LookupsAgree`): whatever statuses the two config
files list, in whatever order and however often a symbol or a name returns, the
three tables a note is read with agree. They are built once, so the invariant is
that they are a table (`Configured`), and the proof is about `task.rs`: `IsTable` says
that each status stands under its own symbol, that each kind lists just the
statuses that have it, each once, and that a name leads to a status that is still
there and bears it. Indexing a status keeps this for a symbol that is new
(`IndexKeepsTable`), and one that is not new has been taken out of all three maps
before (`InsertKeepsTable`): taking it out of its kind's list keeps the others once each
(`WithoutKeeps`), and of the names only its own is removed, as every other name
that led to the symbol would be the normal name of the same status
(`InsertKeepsNames`). That the last status of its symbol and of its name is found by
that name (`NamesFind`) is kept by indexing one more (`FindsUpTo`, `InsertFinds`).
`DefaultsAreTable` begins an induction over the list that is inserted
(`InsertedIsTable`). `InputsAssumption` asks only that what a file lists are
statuses.

The other five of the run (`OutlinesAreKept`, `CompletionIsExact`, `MarkersAreRead`,
`ItemsAreClassified` and `MetadataIsKept`) are from `OutlineInductive`,

    IInv = Outlined /\ Led /\ Kept

for notes of any events in which lists and items nest and alternate
(`NestingAssumption`, which is pulldown-cmark's to keep). `Outlined` says that there are
records `rec` of the items that have ended such that

    Stacks(listStack, itemStack, lists, at, rec)

holds: the two stacks are the lists and the items around the next event
(`OpenLists`, `OpenItems`), the frame of an open item has its place, and the records of
what has ended in it but in no other open item (`Ended`), in the order written, and
whether one of them is an incomplete task; `lists` has those that ended outside of
all open items; and a record tells the place of its item and, of a task, whether
all in it is complete (`Told`). The records are what makes it inductive: an item's
descendants pass from frame to frame until the outermost item ends. When an item
ends, what ended in the one around it is before it and what ended in it is after
it (`BelowEnd`), so that appending keeps the order (`RecordsConcat`, `EndItemKeeps`). The
handlers of text, code and links change no part of a frame that this is about
(`SameCore`, `QuietKeeps`). At the end nothing is open and all has ended (`AllEnded`); the
items in one follow it directly (`InsideFollows`) and are in more lists than it
(`DeeperInside`), and the first after them is in no more (`NotDeeperAfter`), so
`descendants_of` stops there.

`MarkersAreRead` (`MarkersAsWritten`) is about the text: for any texts over any
characters, cut into pieces anywhere. `Led` says of the frame of an open item what
it has read of the item's line (`Leading`). As long as only text has come, the frame
`Reads` the text written so far: either it is a beginning that may still become a
marker, held by the accumulator and nowhere else (`IsHeld`, `Holding`), or the
marker is decided just as `IsMarked` says and the rest is in the frame's text. Once
the line has ended the frame is `Settled`: whatever ended it (`Inline` for what can
only be content, `LineEnds` for what ends a line) has decided a marker that was
still held as it would be for the whole line. What follows can only add to the text
(`Grows`). What each kind of event does to the frame of the innermost item is
`Turns`; of these, a piece of text goes through the accumulator (`MarkerFolds`:
taking in a piece is as good as having read it at once; `HeldBytes` and `FormFits`:
what can still become a marker is never too long to be held), and what has been
settled stays so (`SettledStays`). The frames below the innermost one wait at the
lists in them, where their lines have ended (`OuterSettled`). A record keeps what
the frame was settled to (`Classed`). `CharactersAssumption` and `TextsAssumption`
ask that texts are over `Characters`, that a line end and the two brackets are some
of these and that the mark for no marker is none.

`ItemsAreClassified` (`ClassifiedAsConfigured`) adds what the configuration makes of
a marked item: `Configured` says that it is what the two files build,
`InsertedSteps` and `LastInserted` that of the statuses a file lists for one symbol
the last is the one that is found (`InsertResolves` is the step), and
`ConfiguredAsWritten` that this is what the winning file says. The tags are those
the item was given; that these are the ones in its text is the next theorem.

`MetadataIsKept` (`MetadataAsWritten`) is about what is scanned, and when. The parser
gathers text in `scan` of the innermost item or in `body` of a block, scans it where a
list begins in the item or the item or block ends, and passes what it finds to the
item or the note. `MetadataAsWritten` says from the events alone what is scanned at
each of them (`Unscanned`) and what has been found up to there (`Gathered`), both as
recursive functions of the position, so that the proof is one step of the parser
against one step of each. `Kept` has seven parts. `OpenScanned` says of every open item
(`Scanning`) that its `scan` is what of its first line has left the accumulator while
that line lasts and `Unscanned` after it, and that it has the fields and tags `Gathered` of
the events it owns. What each kind of event adds is `Carries`, proved of the handlers for
text, breaks, code and links (`TextCarries`, `LineEndCarries`, `InlineCarries`); text
that the accumulator held is scanned once and in its place, also when a list or the end
of the item is what settles it (`LeadReleases`, `ScanningTurns`). What an item found is
its own and is not lost when it ends below others (`EndItemScans`, `Classed`). For the note:
`Blocked` (the block being walked is the one that began last), `Linked` (the brackets
of a wiki link are written at its end, as its start says), `Bodied` (`body` is `Unscanned`
outside of items), `Gathers` (what items and blocks pass to the note arrives in the
order written), `Fronted` (the entries of the metadata block are kept until it ends and
are the frontmatter then) and `Noted` (the finished note has all of it). `BlocksAssumption` is
again about pulldown-cmark: a code block holds only text and ends, and there is at
most one metadata block, whose text comes before its end. What the lexers find in
one text is `ScanMetadata` in both, and stays with TLC's instance.

**TemporalValues.** All five properties of the run, for any zone, texts, amounts,
literals and number of steps: `WallsAreMeant` (`WallsResolve`), `ShiftsAlwaysAgree`
(`ShiftsAgree`), `DiffsAlwaysMeasure` (`DiffsMeasure`), `DurationsAlwaysFold`
(`DurationsFold`) and `FrontEndsAlwaysAgree` (`FrontEndsAgree`), from
`ValuesInductive`:

    IInv = IsZone(zone) /\ types of steps, text, value and lost
           /\ DurationOK(duration) /\ FrontEndsAgree

* Readings. `ReadingsResolve`, `ShownReadsBack` and `DaysKeepTheClock` hold of any
  offsets and changes. A reading that the clock skips lies in just one change
  (`SkippedInChange`); the readings before it, back to 25 hours, have no offset but
  the one before that change (`OffsetsAroundSkip`), and one of the probes lands there
  (`GapResolves`). This takes `IsZone`: changes are two days apart and put the clock
  forward by 25 hours at most. The code goes back 25 hours, and calls the widest
  recorded gap 24. Of a zone that changes twice within two days nothing is
  shown.
* The calendar. `CalendarIsExact`: days and pairs of a month and a day of it are the
  same thing. The first days of months are in closed form, so that the length of a
  month is their difference (`MonthStep`) and no induction over months is needed but
  for the two slopes that bound the search for a day's month (`MonthsSpread`).
* Durations. `DurationOK` says of a duration that its text is one that parses, to just
  as many half hours, and that its parts have that sum. `fold_parts` distributes over
  concatenation and multiples (`FoldConcat`, `FoldScaled`), which gives sums and
  products; that `canonical_raw` writes what it was given is `CanonicalSays`.
* Shifts and differences. `AddMonthsLands` says in which month, on which day of it and
  at which time a shift by months ends, hence when the opposite undoes it
  (`MonthsBack`); `MonthsReach` that `signed_months_since` is the greatest number of
  months that does not lead past the later day, but for a day that gave way.
* Two front ends. The text and the value give points that differ in their precision
  only; a shift, a boundary and a duration make of such points such points (`IsOne`,
  `ShiftIsOne`, `BoundaryIsOne`, `ApplyIsOne`), and what the template then formats is
  read as the query's value unless that is lost (`FormatReads`, `OneAgrees`). A
  shorthand's offset has the parts that the query adds or the opposite ones
  (`OffsetSays`).

`InputsAssumption` asks that no amount is zero. `date_shift` by 0 days is
resolved again and comes to the first of two instants with one reading, where
`+ 0d` leaves the instant alone; `ShiftsAgree` does not hold of that.

Only model-checked: everything about queries (`ParsesAsWritten`, `ServesMatching`,
`ReadsItsPlan`). Of the other passing runs every
invariant is a theorem (`BaselineUntilRace` for a single process). Out of this prover's
reach: the liveness properties `Converges` and the two `Ends`; what
recursive definitions compute on every input (induction takes an operator
parameter that no backend instantiates); and modules with RECURSIVE operators,
which are the query modules.

## 6. Where code and documents disagree

Three disagreements have a run that shows them.

* `index_cold`: a persist creates only the tables it touches, and the probe at
  the next open takes a missing table for a damaged schema. A vault without
  links has its database thrown away at every command.
* `trust_untracked`: ADR 0002 says that every trusted root with a local config
  is tracked; a root trusted before it has a config is not.
* `note_names`: `TaskStatusMap::insert` is documented to keep all three lookups
  consistent. The default statuses `x` and `X` share the name Done, which leads to
  `X`. Listing `X` under another name removes "done", though `x` still bears it.
  `LookupsAgree` says of every name that leads somewhere where it leads, and that
  the last status listed for its symbol and name is found.

Met while reading and modelling, without a run:

* `query/results.rs: cmp_document_order` is documented to compare the item rows of
  one note in item order; it compares positions of entries, so they are equal.
* A heading or a code block directly behind an undecided checkbox marker does not
  settle it: `start_text_block` and `start_code_block` do not call
  `resolve_pending_marker`, whose comment (`note/parser/list.rs`) says that block
  starts do. The held characters then come behind the block, code that was held
  is scanned for fields, and a code block that leads an item with `[x] ` marks
  it. The inputs leave these out, and the properties say nothing of the marker and
  the metadata of such an item, nor of the metadata of a note that has one
  (`IsSettled`).
* `index/service.rs` says that changed notes are parsed from disk. A note is taken
  for unchanged if its path has the metadata of its row (`delta.rs`), and a file
  that is moved keeps its own. Scan `a`, move it to `b`, write a new `a` that is
  parsed and persisted under the old metadata, and move `b` back: the row passes
  for current and is not, and no refresh looks at it again.
* `config/raw.rs` (`NonTask`) and `task.rs` say that a status of type `non-task` keeps
  an item with its symbol from being a task. `note/parser/task.rs` never looks at
  the type, so the item is one. `ClassifiedAsConfigured` does not say whether such
  an item is a task.
* `template/loader.rs: load` calls inaccessible template directories hard failures.
  `find_path_in` takes any failure of `symlink_metadata` for no match: for a name
  with an extension the search then goes on to the global directory, or reports
  that no template was found, which `ignore missing` swallows. `SearchIsSound` says
  nothing of a directory in which that call failed.
* `template/engine/date.rs` says, above `date_add`, `date_sub` and `date_shift_unit`, that
  a shift by less than a day leaves the calendar day of a date without a time
  unchanged. It is moved from midnight, so minus one hour gives the day before.
  `FrontEndsAgree` says nothing after such a step.
* `template/engine/date.rs: weekday` is documented with Monday as 0 and returns
  that; it reads the number it is given as an ISO weekday from 1 to 7, with 0 as
  Monday as well. So `weekday` of what it returned is mostly another day.
* `DateTimeValue` is documented to re-parse from its rendered spelling to the same
  instant (`date.rs`, above the type). It does not for the later of two instants
  with one reading of the clock (the exception `lost` in `FrontEndsAgree`).
* `note/field.rs: compare` is called a canonical total order. In a zone that skips
  a whole day a date inside the gap has the instant of the next day's midnight:
  it equals that date-time, which equals the next day, which is a later date.
* A table without a type that gives an option a wrong value is documented to
  drop the key, "and the base field's value is used as-is" (`schema/builder.rs`, on
  `DegradedOverride`). A value of a wrong shape for `min`, `max`, `step`, `format` or
  `ext` unsets the option instead (`schema/fields/parser.rs: f64`, `string`); lists and
  numbers out of range do fall back. `OptionsHold` says nothing of such a value
  (`Misshapen`).
* `schema/graph/adjacency.rs` documents an `extends` edge to the Global Schema as
  silently ignored; the graph leaves it out, but `parents_of` hands out the raw
  list, so the merge inherits from it and counts it among the ancestors.
* `schema/graph/cycle.rs` promises cyclic schemas in declaration order and
  reports them by closing component; `schema/service.rs` says failing schemas
  are excluded, while a failing Global Schema ends the load.
* `index/inlinks.rs` says that ties stay unresolved, but a tie among files of the
  asked extension falls through to a lookup of any extension, which may be decided;
  `ResolvesNearest` says nothing of such a tie (`IsTie`). Inlinks are called
  canonically sorted, but rows read from redb come in byte order and the patch
  assumes path order. The model treats links as a set.
* The trie's aggregates of a folder without one child are not needed for the
  answer: a candidate below the child, counted again from above, is never nearest.
* `docs/divergence-register.md` Entry 4 gives another rank of value types than
  `NoteFieldType::rank`.
* A filter's text literal is read as a date where it looks like one, a string
  field is not, so `file.name == "2024-01-15"` never holds; the sort reads both.
* Two sorts with a step between them leave the later one primary, two adjacent
  ones are fused with the first one primary (pinned by a test).
* The collision prompt of a template's output is documented to repeat "until a
  valid, non-colliding path is given" (`template/writer.rs: resolve`). Typing the
  taken path again is accepted (pinned by a unit test), and the write then fails.
  The default that the prompt shows is the absolute path, which confinement
  refuses: taking it repeats the prompt, and preset answers that run out there
  repeat it for ever (the exception in `Ends`).
* `list_available` is documented to mirror the precedence of `find`, yet offers
  names that `find` refuses: the stem `v1.2` of `v1.2.md` has an extension and
  is looked up as a path only, and a stem of two files is ambiguous.

## 7. What is not modelled

* The text level: tokens of Markdown, YAML and TOML, literals, formats and
  messages.
* In notes: byte positions, the syntax of link texts, the types of field values,
  YAML, and the inputs that section 6 names. In tasks: the `task` command.
* In config values: TOML, template aliases, date formats.
* In dates: weekday selection, parsing by a given format and as the prefix of a
  text, formatting by a given format, the ends of the representable range,
  numbers that are not finite. Zones change seldom, two days apart or more
  (`IsZone`). Of the two offsets of a repeated reading found by that search
  the code takes the first that chrono names, which the model leaves open.
* In templates: the rendered text, sources that do not compile, `extends` and
  macros, names in subdirectories, the other prompts, template functions that
  compute without state, symlinks on the output path, and an `exists()` of the
  writer that fails and so answers no. Directories that
  `create_dir_all` leaves behind are not state of the model.
* In schema fields: the text of addresses, several values files, the edit of a
  file between two fields of one schema, TOML and JSON.
* String and number filters, path helpers: pure, and covered
  by unit tests; no property relating two of their steps was found.
* redb, postcard, pulldown-cmark, minijinja and the file system are external.
  redb appears as an exclusive lock per open file, atomic commits that are
  durable when the handle is dropped, and recovery to the last durable commit;
  the file system as atomic calls on one path.
* The global config file, which needs no trust; `--all`, a loop over the single
  commands; `init`, which writes three files.
* In the index: the order of rows, single puts inside a transaction, and rows
  that do not decode (these are in `QuerySource`).
* In queries: inlinks of entries, boolean, duration, link and object values,
  fields of files and list items, functions in filters other than of dates,
  placement of nulls.

## 8. Plan

The modules above exist and cover the components whose state or order of steps
can go wrong. Next, in order of what matters most to a user's data:

1. `QueryResults`: `template/engine/query.rs` and `query/results.rs` over the modelled
   sources, with the parser split off, so that `QueryPlan` is free of RECURSIVE
   operators and its fusions can be proved about.
2. Composition of `ConfigValues` with `ConfigTrust`, so that an untrusted file is
   seen to contribute nothing to the merge.

About half of the Rust lines are inline unit tests, and much of the rest is
messages, argument parsing, types with their documentation, and pure conversions
of text (section 7). The models cover a ninth of all lines, and
between a fifth and a quarter of the code outside tests, which is most of what
keeps state.

## 9. Running it

    tlc -config MCIndexConcurrent.cfg MCIndexRefresh.tla
    tlapm IndexRefresh_proofs.tla

Each configuration's first line says what it is; `PROJECT.json` lists which
module goes with which.
