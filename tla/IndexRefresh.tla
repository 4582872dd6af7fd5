---------------------------- MODULE IndexRefresh ----------------------------
(***************************************************************************)
(* traces processes keeping one workspace's index current                  *)
(* (src/src/index/{service,refresh,store}.rs).  Each process runs one      *)
(* command at a time: `refresh` and `refresh_store` synchronise the        *)
(* persisted index with the disk and serve from it, `rebuild` (the         *)
(* `traces index` command) replaces it.  Meanwhile the user edits files.   *)
(*                                                                         *)
(* Nothing but redb's exclusive file lock coordinates the processes.  A    *)
(* scan reads one file's metadata at a time, notes are parsed one by one   *)
(* after it, opening may find a database to throw away and do so without   *)
(* the lock, commits are not durable until the handle is dropped, and a    *)
(* process may die anywhere.                                               *)
(***************************************************************************)
EXTENDS IndexData

CONSTANTS
  Proc,        \* traces processes
  NoProc,      \* no lock holder
  Commands,    \* commands the processes run: a subset of COMMANDS
  Age,         \* the metadata a file has if it is there at the start
  InitialClock,\* the modification clock at the start
  MaxClock,    \* bound on the disk's modification clock
  MaxFaults,   \* bound on crashes, I/O errors and damaged databases
  MaxSettings, \* bound on changes of the class_field option
  MaxTurns,    \* bound on all of these together
  Moves        \* <<f, g>>: the user may rename f to g, over what is there

COMMANDS == {"refresh", "refresh_store", "rebuild"}

ASSUME ProcAssumption     == NoProc \notin Proc
ASSUME CommandsAssumption == Commands \subseteq COMMANDS
ASSUME AgeAssumption      ==
  /\ InitialClock \in Nat /\ Age \in [Path -> 1..InitialClock]
  /\ \A f, g \in Path : Age[f] = Age[g] => f = g
ASSUME BoundsAssumption   == /\ MaxClock \in Nat /\ MaxFaults \in Nat
                             /\ MaxSettings \in Nat /\ MaxTurns \in Nat
                             /\ Moves \subseteq Path \X Path

VARIABLES
  \* the disk
  meta,       \* [Path -> Stamp]: the file's metadata, Absent without a file
  body,       \* its contents; NoBody without a file and for attachments
  clock,      \* the latest modification time given out
  classField, \* the class_field option in the config
  \* the database file at the index path
  store,      \* its committed contents
  durable,    \* the contents a crash falls back to
  holder,     \* the process whose handle locks it
  orphan,     \* [Proc -> db]: contents of an unlinked file still held open
  \* the processes
  pc,         \* where the command is
  cmd,        \* which command, or "none"
  conn,       \* the state of its store handle
  key,        \* the class_field it was started with
  toScan,     \* paths its scan has not reached
  scanned,    \* metadata its scan read
  persisted,  \* file rows read when its handle was opened
  toParse,    \* notes it has still to parse
  parsed,     \* notes it parsed
  result,     \* the index it serves, or NoIndex
  \* history and bounds
  seen,       \* [Proc -> [Path -> versions the path had since the command began]]
  faults,     \* faults so far
  settings    \* changes of class_field so far

diskVars == <<meta, body, clock>>
dbVars   == <<store, durable, holder, orphan>>
planVars == <<toScan, scanned, persisted, toParse, parsed>>
cmdVars  == <<cmd, key>>
envVars  == <<classField, faults, settings>>
vars == <<meta, body, clock, classField, store, durable, holder, orphan, pc,
          cmd, conn, key, toScan, scanned, persisted, toParse, parsed, result,
          seen, faults, settings>>

NoFiles == [f \in Path |-> Absent]
NoNotes == [f \in Path |-> NoBody]
NoIndex == [files |-> NoFiles, notes |-> NoNotes, links |-> {}, served |-> FALSE]
Serve(index) == [files |-> index.files, notes |-> index.notes,
                 links |-> index.links, served |-> TRUE]

\* A path's version: its metadata and, if there is a file, its contents.
Version(f) == <<meta[f], body[f]>>
Now == [f \in Path |-> {Version(f)}]

BodiesAt(f) == IF f \in NotePath THEN Body ELSE {NoBody}

\* The database a process's handle works on.
Mine(p) == IF conn[p] = "orphan" THEN orphan[p] ELSE store
Connected(p) == conn[p] \in {"open", "orphan"}

Init ==
  /\ clock = InitialClock
  /\ meta \in {[f \in Path |-> IF f \in P THEN Age[f] ELSE Absent] : P \in SUBSET Path}
  /\ body \in [Path -> Body \cup {NoBody}]
  /\ \A f \in Path : IF meta[f] = Absent THEN body[f] = NoBody
                                         ELSE body[f] \in BodiesAt(f)
  /\ classField \in ClassField
  /\ store = EmptyDb("missing") /\ durable = EmptyDb("missing")
  /\ holder = NoProc
  /\ orphan = [p \in Proc |-> EmptyDb("missing")]
  /\ pc = [p \in Proc |-> "idle"]
  /\ cmd = [p \in Proc |-> "none"] /\ key = [p \in Proc |-> classField]
  /\ conn = [p \in Proc |-> "closed"]
  /\ toScan = [p \in Proc |-> {}]
  /\ scanned = [p \in Proc |-> NoFiles]
  /\ persisted = [p \in Proc |-> NoFiles]
  /\ toParse = [p \in Proc |-> {}]
  /\ parsed = [p \in Proc |-> NoNotes]
  /\ result = [p \in Proc |-> NoIndex]
  /\ seen = [p \in Proc |-> [f \in Path |-> {}]]
  /\ faults = 0 /\ settings = 0

\* Edits, faults and changes of the option come to an end.
HasTurn == faults + settings + (clock - InitialClock) < MaxTurns

-----------------------------------------------------------------------------
(* The user                                                                *)

\* Every running command has now seen the path's new version too.
Witness == seen' = [p \in Proc |-> IF pc[p] = "idle" THEN seen[p]
                     ELSE [f \in Path |-> seen[p][f] \cup {<<meta'[f], body'[f]>>}]]

UserStep == UNCHANGED <<dbVars, planVars, cmdVars, pc, conn, result>>

\* Creates or rewrites a file; its metadata differs from any it had before.
WriteFile(f, b) ==
  /\ b \in BodiesAt(f) /\ clock < MaxClock /\ HasTurn
  /\ clock' = clock + 1
  /\ meta' = [meta EXCEPT ![f] = clock + 1]
  /\ body' = [body EXCEPT ![f] = b]
  /\ Witness /\ UserStep /\ UNCHANGED envVars

RemoveFile(f) ==
  /\ meta[f] # Absent /\ clock < MaxClock /\ HasTurn
  /\ clock' = clock + 1
  /\ meta' = [meta EXCEPT ![f] = Absent]
  /\ body' = [body EXCEPT ![f] = NoBody]
  /\ Witness /\ UserStep /\ UNCHANGED envVars

\* rename(2) of a note: the file keeps its size and times under the new name.
MoveFile(f, g) ==
  /\ <<f, g>> \in Moves /\ f # g /\ {f, g} \subseteq NotePath
  /\ meta[f] # Absent /\ clock < MaxClock /\ HasTurn
  /\ clock' = clock + 1
  /\ meta' = [meta EXCEPT ![f] = Absent, ![g] = meta[f]]
  /\ body' = [body EXCEPT ![f] = NoBody, ![g] = body[f]]
  /\ Witness /\ UserStep /\ UNCHANGED envVars

\* Edits class_field in the config; running commands keep what they loaded.
SetClassField(k) ==
  /\ settings < MaxSettings /\ HasTurn /\ k # classField
  /\ classField' = k /\ settings' = settings + 1
  /\ UserStep /\ UNCHANGED <<diskVars, seen, faults>>

\* Something overwrites the unlocked database with bytes redb rejects.
DamageDb ==
  /\ faults < MaxFaults /\ HasTurn /\ holder = NoProc /\ store.status = "ok"
  /\ faults' = faults + 1
  /\ store' = EmptyDb("damaged") /\ durable' = EmptyDb("damaged")
  /\ UNCHANGED <<diskVars, holder, orphan, planVars, cmdVars, pc, conn, result,
                 classField, seen, settings>>

-----------------------------------------------------------------------------
(* Leaving a command                                                       *)

\* Dropping the handle: redb flushes the file and releases its lock.
Release(p) ==
  /\ conn' = [conn EXCEPT ![p] = "closed"]
  /\ orphan' = [orphan EXCEPT ![p] = EmptyDb("missing")]
  /\ IF conn[p] = "open" THEN holder' = NoProc /\ durable' = store
                         ELSE UNCHANGED <<holder, durable>>
  /\ UNCHANGED store

\* The handle of a process that dies: the lock goes with it, and redb's recovery
\* falls back to the last durable commit.
Lose(p) ==
  /\ conn' = [conn EXCEPT ![p] = "closed"]
  /\ orphan' = [orphan EXCEPT ![p] = EmptyDb("missing")]
  /\ IF conn[p] = "open" THEN holder' = NoProc /\ store' = durable
                         ELSE UNCHANGED <<holder, store>>
  /\ UNCHANGED durable

\* The process has nothing left in memory.
Forget(p) ==
  /\ pc' = [pc EXCEPT ![p] = "idle"]
  /\ toScan' = [toScan EXCEPT ![p] = {}]
  /\ scanned' = [scanned EXCEPT ![p] = NoFiles]
  /\ persisted' = [persisted EXCEPT ![p] = NoFiles]
  /\ toParse' = [toParse EXCEPT ![p] = {}]
  /\ parsed' = [parsed EXCEPT ![p] = NoNotes]
  /\ result' = [result EXCEPT ![p] = NoIndex]
  /\ cmd' = [cmd EXCEPT ![p] = "none"]
  /\ seen' = [seen EXCEPT ![p] = [f \in Path |-> {}]]
  /\ UNCHANGED <<diskVars, key, classField, settings>>

\* The command returns an error.
Abort(p) == Release(p) /\ Forget(p) /\ UNCHANGED faults

-----------------------------------------------------------------------------
(* Opening the store: IndexStore::open                                     *)

\* Between the drop of a handle and the next one: the file is to be removed, or
\* is removed.  "replacing" follows a rebuild_needed, "repairing" and "mending" a
\* file the first and the second create_db could not read.
Gap  == {"replacing", "repairing", "mending"}
Gone == {"removed", "repaired", "mended"}
Gaps(s) == CASE s = "replacing" -> "removed" [] s = "repairing" -> "repaired"
             [] OTHER -> "mended"

MayOpen(p) ==
  /\ conn[p] = "closed"
  /\ \/ pc[p] = "collect"
     \/ pc[p] = "parse" /\ cmd[p] = "rebuild" /\ toParse[p] = {}

\* The handle is open and its file rows are read (read_all_files).
Opened(p, db) ==
  /\ conn' = [conn EXCEPT ![p] = "open"]
  /\ store' = db
  /\ durable' = IF store.status = "missing" THEN db ELSE durable
  /\ holder' = p
  /\ persisted' = [persisted EXCEPT ![p] = db.files]
  /\ UNCHANGED orphan

Created == IF store.status = "missing" THEN EmptyDb("ok") ELSE store

ProcStep(p) == UNCHANGED <<diskVars, envVars, cmdVars, seen>>

\* Mutant: the handle does not lock the file.
OpenUnlocked(p) ==
  /\ MayOpen(p) \/ conn[p] = "repaired"
  /\ store.status # "damaged" /\ ~RebuildNeeded(store)
  /\ Opened(p, Created)
  /\ ProcStep(p) /\ UNCHANGED <<pc, toScan, scanned, toParse, parsed, result>>

\* create_db takes the lock, and rebuild_needed finds all tables or none.
OpenStore(p) ==
  /\ MayOpen(p) \/ conn[p] = "repaired"
  /\ holder = NoProc /\ store.status # "damaged" /\ ~RebuildNeeded(store)
  /\ Opened(p, Created)
  /\ ProcStep(p) /\ UNCHANGED <<pc, toScan, scanned, toParse, parsed, result>>

\* Or it finds some: the handle is dropped, and with it the lock.
OpenUnusable(p) ==
  /\ MayOpen(p) \/ conn[p] = "repaired"
  /\ holder = NoProc /\ store.status # "damaged" /\ RebuildNeeded(store)
  /\ conn' = [conn EXCEPT ![p] = "replacing"]
  /\ ProcStep(p) /\ UNCHANGED <<dbVars, planVars, pc, result>>

\* create_db meets a file redb rejects, which it will replace once.
OpenDamaged(p) ==
  /\ MayOpen(p) \/ conn[p] = "removed"
  /\ holder = NoProc /\ store.status = "damaged"
  /\ conn' = [conn EXCEPT ![p] = IF conn[p] = "removed" THEN "mending" ELSE "repairing"]
  /\ ProcStep(p) /\ UNCHANGED <<dbVars, planVars, pc, result>>

\* fs::remove_file by path: whoever holds that file now holds an unlinked one.
RemoveDb(p) ==
  /\ conn[p] \in Gap /\ store.status # "missing"
  /\ conn' = [q \in Proc |-> IF q = p THEN Gaps(conn[p])
                             ELSE IF q = holder THEN "orphan" ELSE conn[q]]
  /\ orphan' = [q \in Proc |-> IF q = holder THEN store ELSE orphan[q]]
  /\ store' = EmptyDb("missing") /\ durable' = EmptyDb("missing")
  /\ holder' = NoProc
  /\ ProcStep(p) /\ UNCHANGED <<planVars, pc, result>>

\* The second create_db: what it opens is not probed any more.
RecreateDb(p) ==
  /\ conn[p] \in {"removed", "mended"} /\ holder = NoProc /\ store.status # "damaged"
  /\ Opened(p, Created)
  /\ ProcStep(p) /\ UNCHANGED <<pc, toScan, scanned, toParse, parsed, result>>

\* Another process holds the lock or has removed the file already, or the file
\* is damaged again.
OpenFails(p) ==
  /\ \/ (MayOpen(p) \/ conn[p] \in Gone) /\ holder # NoProc
     \/ conn[p] \in Gap /\ store.status = "missing"
     \/ conn[p] \in {"repaired", "mended"} /\ store.status = "damaged"
  /\ Abort(p)

-----------------------------------------------------------------------------
(* The pass: RefreshPlan::collect, prepare_pass, apply                     *)

Begin(p, c) ==
  /\ pc[p] = "idle"
  /\ pc' = [pc EXCEPT ![p] = IF c = "rebuild" THEN "build" ELSE "collect"]
  /\ cmd' = [cmd EXCEPT ![p] = c]
  /\ key' = [key EXCEPT ![p] = classField]
  /\ toScan' = [toScan EXCEPT ![p] = Path]
  /\ seen' = [seen EXCEPT ![p] = Now]
  /\ UNCHANGED <<diskVars, dbVars, envVars, conn, scanned, persisted, toParse,
                 parsed, result>>

\* scan: the metadata of one path, in no particular order (par_iter).
ScanFile(p, f) ==
  /\ f \in toScan[p]
  /\ toScan' = [toScan EXCEPT ![p] = @ \ {f}]
  /\ scanned' = [scanned EXCEPT ![p][f] = meta[f]]
  /\ ProcStep(p)
  /\ UNCHANGED <<dbVars, pc, conn, persisted, toParse, parsed, result>>

\* A file the walk listed is gone when its metadata is read: IndexError::Inspect.
ScanVanished(p, f) ==
  /\ f \in toScan[p] /\ meta[f] = Absent
  /\ \E v \in seen[p][f] : v[1] # Absent
  /\ Abort(p)

Collected(p) == toScan[p] = {} /\ pc[p] = "collect" /\ Connected(p)

\* Mutant: the store is served without looking at the delta.
ServeStored(p) ==
  /\ Collected(p)
  /\ pc' = [pc EXCEPT ![p] = "serve"]
  /\ result' = [result EXCEPT ![p] = Serve(StoreIndex(Mine(p)))]
  /\ ProcStep(p) /\ UNCHANGED <<dbVars, planVars, conn>>

\* into_fresh: nothing changed, and the store serves as it is.
ServeFresh(p) ==
  /\ Collected(p) /\ DeltaIsEmpty(scanned[p], persisted[p])
  /\ pc' = [pc EXCEPT ![p] = "serve"]
  /\ result' = [result EXCEPT ![p] = Serve(StoreIndex(Mine(p)))]
  /\ ProcStep(p) /\ UNCHANGED <<dbVars, planVars, conn>>

\* Mutant: a refresh parses the files it has no row of, not the changed ones.
PlanParseAdded(p) ==
  /\ toScan[p] = {} /\ (Collected(p) \/ pc[p] = "build")
  /\ toParse' = [toParse EXCEPT ![p] =
                   {f \in Present(scanned[p]) \cap NotePath :
                      pc[p] = "build" \/ persisted[p][f] = Absent}]
  /\ pc' = [pc EXCEPT ![p] = "parse"]
  /\ ProcStep(p)
  /\ UNCHANGED <<dbVars, conn, toScan, scanned, persisted, parsed, result>>

\* Only the upserted files are parsed by a refresh, all of them by a rebuild.
PlanParse(p) ==
  /\ toScan[p] = {}
  /\ \/ /\ Collected(p) /\ ~DeltaIsEmpty(scanned[p], persisted[p])
        /\ toParse' = [toParse EXCEPT ![p] =
                         Upserted(scanned[p], persisted[p]) \cap NotePath]
     \/ /\ pc[p] = "build"
        /\ toParse' = [toParse EXCEPT ![p] = Present(scanned[p]) \cap NotePath]
  /\ pc' = [pc EXCEPT ![p] = "parse"]
  /\ ProcStep(p)
  /\ UNCHANGED <<dbVars, conn, toScan, scanned, persisted, parsed, result>>

\* parse_note reads the file as it is by now.
ParseNote(p, f) ==
  /\ f \in toParse[p] /\ meta[f] # Absent
  /\ toParse' = [toParse EXCEPT ![p] = @ \ {f}]
  /\ parsed' = [parsed EXCEPT ![p][f] = body[f]]
  /\ ProcStep(p)
  /\ UNCHANGED <<dbVars, pc, conn, toScan, scanned, persisted, result>>

\* IndexError::NoteParse: the scanned file is gone.
ParseVanished(p, f) ==
  /\ f \in toParse[p] /\ meta[f] = Absent
  /\ Abort(p)

Ready(p) == pc[p] = "parse" /\ toParse[p] = {} /\ Connected(p)

Update(p) == Reconcile(Mine(p), scanned[p], persisted[p], parsed[p])

NextDb(p) ==
  IF cmd[p] = "rebuild"
  THEN ApplyRebuild(BuildIndex(scanned[p], parsed[p]), key[p])
  ELSE ApplyIncremental(Mine(p), scanned[p], persisted[p], Update(p).notes,
                        Update(p).edges, key[p])

\* Mutant: refresh_store answers from the rows before the commit.
OutcomeBefore(p, after) ==
  IF cmd[p] = "rebuild" THEN BuildIndex(scanned[p], parsed[p])
  ELSE IF cmd[p] = "refresh_store" THEN StoreIndex(Mine(p))
  ELSE IntoIndex(Mine(p), after, scanned[p], persisted[p], parsed[p])

Outcome(p, after) ==
  IF cmd[p] = "rebuild" THEN BuildIndex(scanned[p], parsed[p])
  ELSE IF cmd[p] = "refresh_store" THEN StoreIndex(after)
  ELSE IntoIndex(Mine(p), after, scanned[p], persisted[p], parsed[p])

\* The transaction commits, with Durability::None.
Persist(p) ==
  /\ Ready(p)
  /\ IF conn[p] = "open" THEN store' = NextDb(p) /\ UNCHANGED orphan
     ELSE orphan' = [orphan EXCEPT ![p] = NextDb(p)] /\ UNCHANGED store
  /\ pc' = [pc EXCEPT ![p] = "serve"]
  /\ result' = [result EXCEPT ![p] = Serve(Outcome(p, NextDb(p)))]
  /\ ProcStep(p) /\ UNCHANGED <<durable, holder, conn, planVars>>

\* The transaction fails.  refresh is fail-open and serves the update it could
\* not write; the other commands report the error.
PersistFails(p) ==
  /\ faults < MaxFaults /\ HasTurn /\ Ready(p)
  /\ faults' = faults + 1
  /\ IF cmd[p] = "refresh"
     THEN /\ pc' = [pc EXCEPT ![p] = "serve"]
          /\ result' = [result EXCEPT ![p] = Serve(Outcome(p, Mine(p)))]
          /\ UNCHANGED <<diskVars, dbVars, planVars, cmdVars, conn, seen,
                         classField, settings>>
     ELSE Release(p) /\ Forget(p)

\* The command is done and drops its handle.
Finish(p) == pc[p] = "serve" /\ Abort(p)

\* Any other I/O error on the way.
IoError(p) ==
  /\ faults < MaxFaults /\ HasTurn /\ pc[p] \notin {"idle", "serve"}
  /\ faults' = faults + 1
  /\ Release(p) /\ Forget(p)

\* The process dies.
Crash(p) ==
  /\ faults < MaxFaults /\ HasTurn /\ pc[p] # "idle"
  /\ faults' = faults + 1
  /\ Lose(p) /\ Forget(p)

-----------------------------------------------------------------------------
ProcNext(p) ==
  \/ OpenStore(p) \/ OpenUnusable(p) \/ OpenDamaged(p) \/ RemoveDb(p)
  \/ RecreateDb(p) \/ OpenFails(p)
  \/ \E f \in Path : ScanFile(p, f)
  \/ \E f \in Path : ScanVanished(p, f)
  \/ ServeFresh(p) \/ PlanParse(p)
  \/ \E f \in Path : ParseNote(p, f)
  \/ \E f \in Path : ParseVanished(p, f)
  \/ Persist(p) \/ Finish(p)

FaultNext == \/ DamageDb
             \/ \E p \in Proc : PersistFails(p) \/ IoError(p) \/ Crash(p)

UserNext == \/ \E f \in Path, b \in Body \cup {NoBody} : WriteFile(f, b)
            \/ \E f \in Path : RemoveFile(f)
            \/ \E f, g \in Path : MoveFile(f, g)
            \/ \E k \in ClassField : SetClassField(k)

Next == \/ \E p \in Proc, c \in Commands : Begin(p, c)
        \/ \E p \in Proc : ProcNext(p)
        \/ FaultNext
        \/ UserNext

Spec == Init /\ [][Next]_vars

\* The user keeps running commands, and a running process keeps going.
Fairness == \A p \in Proc : /\ WF_vars(\E c \in Commands : Begin(p, c))
                            /\ WF_vars(ProcNext(p))
FairSpec == Spec /\ Fairness

-----------------------------------------------------------------------------
(* Properties                                                              *)

Index == [files : Files, notes : Notes, links : SUBSET Edge, served : BOOLEAN]
Version_ == Stamp \X (Body \cup {NoBody})

\* Types of all variables.
TypeOK ==
  /\ meta \in Files /\ body \in Notes /\ clock \in Nat
  /\ classField \in ClassField
  /\ store \in Db /\ durable \in Db /\ orphan \in [Proc -> Db]
  /\ holder \in Proc \cup {NoProc}
  /\ pc \in [Proc -> {"idle", "collect", "build", "parse", "serve"}]
  /\ cmd \in [Proc -> Commands \cup {"none"}]
  /\ conn \in [Proc -> {"closed", "open", "orphan"} \cup Gap \cup Gone]
  /\ key \in [Proc -> ClassField]
  /\ toScan \in [Proc -> SUBSET Path] /\ toParse \in [Proc -> SUBSET Path]
  /\ scanned \in [Proc -> Files] /\ persisted \in [Proc -> Files]
  /\ parsed \in [Proc -> Notes]
  /\ result \in [Proc -> Index]
  /\ seen \in [Proc -> [Path -> SUBSET Version_]]
  /\ faults \in Nat /\ settings \in Nat

-----------------------------------------------------------------------------
(* What holds on the way: the parts of the inductive invariant.            *)

\* The lock: at most one handle is on the file at the index path.
LockExclusive ==
  \A p \in Proc : conn[p] = "open" <=> holder = p

\* A note has contents, and nothing else has.
DiskNotes ==
  \A f \in Path : body[f] # NoBody <=> meta[f] # Absent /\ f \in NotePath

\* The notes a command parses: a rebuild all it scanned, a refresh the upserts.
ToParse(p) ==
  NotePath \cap (IF cmd[p] = "rebuild" THEN Present(scanned[p])
                 ELSE Upserted(scanned[p], persisted[p]))

\* Where each command can be, and how far its parse has come.
Progress ==
  \A p \in Proc :
    /\ pc[p] = "build" => cmd[p] = "rebuild" /\ conn[p] = "closed"
    /\ pc[p] = "collect" => cmd[p] # "rebuild"
    /\ pc[p] = "idle" => conn[p] = "closed" /\ toScan[p] = {}
    /\ pc[p] \in {"idle", "collect", "build"} =>
         toParse[p] = {} /\ parsed[p] = NoNotes
    /\ pc[p] = "parse" =>
         /\ cmd[p] = "rebuild" \/ Connected(p)
         /\ toScan[p] = {}
         /\ toParse[p] \subseteq ToParse(p)
         /\ NoteRows(parsed[p]) = ToParse(p) \ toParse[p]
    /\ pc[p] = "serve" => conn[p] \notin Gap \cup Gone /\ toScan[p] = {}

-----------------------------------------------------------------------------
(* Safety                                                                  *)

\* Every database a process could read: the file, what a crash would restore,
\* and the unlinked ones.
Databases == {store, durable} \cup {orphan[p] : p \in Proc}

\* In every database, whatever was interrupted, patched or thrown away, the note
\* rows are those of the file rows, the links are what a full recompute gives,
\* and the two tables of each axis are inverse and list each note's values under
\* one class field (store.rs: persist; refresh.rs: reconcile).
StoreCoherent == \A db \in Databases : Coherent(db)

\* No lost update: a note row stored under the metadata the file has now is the
\* parse of its contents now, so a refresh may skip it (service.rs: refresh
\* "Unchanged Markdown notes reuse persisted parses").
RowsCurrent ==
  \A db \in Databases, f \in NotePath :
    meta[f] # Absent /\ db.files[f] = meta[f] => db.notes[f] = body[f]

\* The file rows a pass computed its delta against are still those of its
\* handle when it commits, even though the file can be replaced under it.
SnapshotCurrent ==
  \A p \in Proc : /\ Connected(p) /\ pc[p] \in {"collect", "parse"}
                  => persisted[p] = Mine(p).files

\* The invariant the proofs use (IndexRefresh_proofs.tla).
IInv == /\ TypeOK /\ LockExclusive /\ DiskNotes /\ Progress
        /\ SnapshotCurrent /\ StoreCoherent

\* If the disk did not change during a command, what it serves is exactly what
\* a build from scratch would: cold, warm, patched, replaced or fail-open.
ServesBuild ==
  \A p \in Proc :
    /\ result[p].served
    /\ \A f \in Path : seen[p][f] = {Version(f)}
    => result[p] = Serve(BuildIndex(meta, body))

\* A database whose rows all agree with the disk is not thrown away, so that
\* unchanged notes reuse their persisted parses.
UnchangedIsKept ==
  [][\A p \in Proc : OpenUnusable(p) => ~(store.status = "ok" /\ store.files = meta)]_vars

\* The machine above, store and all, is an implementation of the index without
\* a store (WorkspaceIndex.tla).
Promised == INSTANCE WorkspaceIndex
              WITH running <- {p \in Proc : pc[p] # "idle"}
ImplementsWorkspaceIndex == Promised!Spec

\* Once the user stops editing, the stored index is right again and again,
\* whatever was interrupted before, if no file was moved away and back: delta.rs
\* takes equal metadata for equal contents (README, section 6).
Agrees == /\ store.status = "ok" /\ store.files = meta /\ store.notes = body
          /\ store.links = EdgesFor(meta, body)
Converges == []<>Agrees
=============================================================================
