---------------------------- MODULE ConfigTrust ----------------------------
(***************************************************************************)
(* Trusting, tracking and loading local config files                       *)
(* (src/src/config/{discovery,trust,tracker,service,file}.rs and           *)
(* src/src/file_tracker.rs).                                               *)
(*                                                                         *)
(* Two directories hold hash-named symlinks: the trust store's point at    *)
(* workspace roots, the tracker store's at their config files.  A trusted  *)
(* root may have a companion file with the digest of its config.  Nothing  *)
(* locks either directory, so every system call of a command interleaves   *)
(* with those of other traces processes and with the user's edits, and a   *)
(* command may fail or be killed between any two of them.                  *)
(*                                                                         *)
(* Digests are collision free, so a digest is the content it was computed  *)
(* from.  `--all` runs one command per config file and stops at the first  *)
(* that fails; `--show` and `list` only read.                              *)
(***************************************************************************)
EXTENDS Naturals, FiniteSets

CONSTANTS
  Root,       \* directories that may be workspace roots
  NoRoot,     \* the top of the walk: the file system's root or a ceiling
  Above,      \* [Root -> Root \cup {NoRoot}]: parent directories
  Content,    \* contents of a config file
  NoFile,     \* no config file
  NoHash,     \* no companion file
  Torn,       \* a companion created or truncated and not yet written
  Proc,       \* traces processes
  MaxEdits,   \* bound on the user's edits
  MaxFaults   \* bound on failing system calls and killed processes

ASSUME AboveAssumption   == Above \in [Root -> Root \cup {NoRoot}] /\ NoRoot \notin Root
ASSUME ContentAssumption == {NoFile, NoHash, Torn} \cap Content = {} /\ NoHash # Torn
ASSUME BoundsAssumption  == MaxEdits \in Nat /\ MaxFaults \in Nat

VARIABLES
  dir,        \* the directories that exist
  config,     \* [Root -> Content \cup {NoFile}]: .traces/config.toml
  entries,    \* [STORES -> SUBSET Root]: the symlinks of each store
  hash,       \* [Root -> Content \cup {NoHash, Torn}]: companions, as digests
  pc,         \* the next system call of each process
  job,        \* its command and what it has learned so far
  edits,      \* edits so far
  faults,     \* faults so far
  \* history
  granted,    \* [Root -> SUBSET Content]: contents granted and not revoked
  doomed,     \* [Proc -> [Root -> SUBSET Content]]: what success will revoke
  allowed,    \* [Proc -> SUBSET Content]: what its load may return
  calm,       \* [Proc -> BOOLEAN]: has nothing interfered with its command?
  rootOnly    \* roots whose entry was linked without a config to grant

disk   == <<dir, config, edits>>
stores == <<entries, hash>>
vars   == <<disk, stores, pc, job, faults, granted, doomed, allowed, calm, rootOnly>>

STORES   == {"trusted", "tracked"}
OPS      == {"none", "load", "trust", "untrust", "clean"}
OUTCOMES == {"none", "ok", "failed", "untrusted", "missing", "stale"}
STEPS    == {"idle", "walk", "canonicalize", "exists", "link", "contains", "baseline",
             "compare", "read", "open", "write", "remove", "companion",
             "sweep", "unlink", "companions", "done"}

Digest == Content \cup {NoHash, Torn}

Job == [op      : OPS,
        start   : Root \cup {NoRoot},   \* the directory it was given
        at      : Root \cup {NoRoot},   \* the directory or root it works on
        named   : BOOLEAN,              \* is the subject a config file?
        store   : STORES,               \* the store it records in or cleans
        held    : Digest,               \* the content or digest it read
        linked  : BOOLEAN,              \* is the companion it opened still there?
        todo    : SUBSET Root,          \* entries to sweep, then companions to remove
        removed : SUBSET Root,          \* entries it removed
        outcome : OUTCOMES]

NoJob == [op |-> "none", start |-> NoRoot, at |-> NoRoot, named |-> FALSE,
          store |-> "tracked", held |-> NoHash, linked |-> FALSE,
          todo |-> {}, removed |-> {}, outcome |-> "none"]

Init ==
  /\ dir \in SUBSET Root
  /\ \A r \in dir : Above[r] \in dir \cup {NoRoot}
  /\ config \in [Root -> Content \cup {NoFile}]
  /\ \A r \in Root \ dir : config[r] = NoFile
  /\ entries = [s \in STORES |-> {}] /\ hash = [r \in Root |-> NoHash]
  /\ pc = [p \in Proc |-> "idle"] /\ job = [p \in Proc |-> NoJob]
  /\ edits = 0 /\ faults = 0
  /\ granted = [r \in Root |-> {}]
  /\ doomed = [p \in Proc |-> [r \in Root |-> {}]]
  /\ allowed = [p \in Proc |-> {}]
  /\ calm = [p \in Proc |-> TRUE] /\ rootOnly = {}

-----------------------------------------------------------------------------
(* Helpers *)

\* Is the path an entry points at there?  exists and try_exists follow the link.
Target(s, r) == IF s = "trusted" THEN r \in dir ELSE config[r] # NoFile

\* A grant for r's config, at step s, that has read it and is not over.
Grants(s, j, r) == /\ j.op = "trust" /\ j.named /\ j.at = r /\ j.held \in Content
                   /\ s \in {"open", "write", "canonicalize", "exists", "link"}

Granting(r) == {p \in Proc : Grants(pc[p], job[p], r)}

\* Grants for r that are over.
Settled(r) == granted[r] \ {job[p].held : p \in Granting(r)}

GoTo(p, step)  == pc' = [pc EXCEPT ![p] = step]
Learn(p, j)    == job' = [job EXCEPT ![p] = j]
Finish(p, out) == GoTo(p, "done") /\ Learn(p, [job[p] EXCEPT !.outcome = out])

\* A change of the disk or the stores interferes with every other command.
Interfere(p) == calm' = [q \in Proc |-> calm[q] /\ (q = p \/ pc[q] = "idle")]

\* Success: the grants this command was to replace or revoke are void.
Revoke(p) == granted' = [r \in Root |-> granted[r] \ doomed[p][r]]

history == <<granted, doomed, allowed, calm, rootOnly>>

-----------------------------------------------------------------------------
(* Resolving the subject *)

\* load starts with tracking; so does the grant for a config file.
FirstStep(o, named) == IF o = "untrust" THEN "remove" ELSE "canonicalize"
FirstStore(o, named) == IF o = "trust" /\ ~named THEN "trusted" ELSE "tracked"

\* The subject is r's config file or, if there is none, r itself.
Resolved(p, o, r, named) ==
  /\ GoTo(p, FirstStep(o, named))
  /\ Learn(p, [NoJob EXCEPT !.op = o, !.at = r, !.named = named,
                            !.store = FirstStore(o, named)])
  /\ doomed' = [doomed EXCEPT ![p][r] = IF o = "untrust" \/ (o = "trust" /\ named)
                                          THEN Settled(r) ELSE {}]
  /\ allowed' = [allowed EXCEPT ![p] = granted[r]]
  /\ UNCHANGED <<granted, calm, rootOnly>>

\* A command starts: for a directory, for a config file by name, or to clean.
Begin(p) ==
  /\ pc[p] = "idle"
  /\ \/ \E o \in {"load", "trust", "untrust"}, r \in Root :
          /\ GoTo(p, "walk")
          /\ Learn(p, [NoJob EXCEPT !.op = o, !.start = r, !.at = r])
          /\ UNCHANGED history
     \/ \E o \in {"trust", "untrust"}, r \in Root : Resolved(p, o, r, TRUE)
     \/ \E s \in STORES :
          /\ GoTo(p, "sweep")
          /\ Learn(p, [NoJob EXCEPT !.op = "clean", !.store = s, !.todo = entries[s]])
          /\ UNCHANGED history
  /\ UNCHANGED <<disk, stores, faults>>

\* nearest_local looks at one ancestor; without a config at or above the
\* directory a load fails and a trust command means the directory itself.
Walk(p) ==
  LET j == job[p] IN
  /\ pc[p] = "walk"
  /\ \/ j.at # NoRoot /\ config[j.at] # NoFile /\ Resolved(p, j.op, j.at, TRUE)
     \/ /\ j.at # NoRoot /\ config[j.at] = NoFile
        /\ GoTo(p, "walk") /\ Learn(p, [j EXCEPT !.at = Above[j.at]])
        /\ UNCHANGED history
     \/ /\ j.at = NoRoot /\ j.op = "load"
        /\ Finish(p, "failed") /\ UNCHANGED history
     \/ j.at = NoRoot /\ j.op # "load" /\ Resolved(p, j.op, j.start, FALSE)
  /\ UNCHANGED <<disk, stores, faults>>

-----------------------------------------------------------------------------
(* FilePathTracker::record, of the config file and then of the root *)

\* What follows a record: a load only warns if it failed.
RecordFailed(p) ==
  IF job[p].op = "load" THEN GoTo(p, "contains") /\ UNCHANGED job
                        ELSE Finish(p, "failed")

Recorded(p) ==
  LET j == job[p] IN
  \/ /\ j.op = "load" /\ GoTo(p, "contains") /\ UNCHANGED <<job, granted, rootOnly>>
  \/ /\ j.op = "trust" /\ j.store = "tracked"
     /\ GoTo(p, "read") /\ UNCHANGED <<job, granted, rootOnly>>
  \/ /\ j.op = "trust" /\ j.store = "trusted" /\ Finish(p, "ok") /\ Revoke(p)
     /\ rootOnly' = CASE j.named -> rootOnly \ {j.at}
                      [] ~j.named /\ j.at \in entries["trusted"] -> rootOnly
                      [] OTHER -> rootOnly \cup {j.at}

\* The path is canonicalized, which fails if it is gone.
Canonicalize(p) ==
  /\ pc[p] = "canonicalize"
  /\ IF Target(job[p].store, job[p].at) THEN GoTo(p, "exists") /\ UNCHANGED job
                                        ELSE RecordFailed(p)
  /\ UNCHANGED <<disk, stores, faults, history>>

\* A live entry is left as it is.
Exists(p) ==
  LET j == job[p] IN
  /\ pc[p] = "exists"
  /\ IF j.at \in entries[j.store] /\ Target(j.store, j.at)
       THEN Recorded(p)
       ELSE GoTo(p, "link") /\ UNCHANGED <<job, granted, rootOnly>>
  /\ UNCHANGED <<disk, stores, faults, doomed, allowed, calm>>

\* symlink fails if the name is taken.
Link(p) ==
  LET j == job[p] IN
  /\ pc[p] = "link"
  /\ \/ /\ j.at \in entries[j.store] /\ RecordFailed(p)
        /\ UNCHANGED <<entries, history>>
     \/ /\ j.at \notin entries[j.store]
        /\ entries' = [entries EXCEPT ![j.store] = @ \cup {j.at}]
        /\ Recorded(p) /\ Interfere(p) /\ UNCHANGED <<doomed, allowed>>
  /\ UNCHANGED <<disk, hash, faults>>

-----------------------------------------------------------------------------
(* TrustStore::config_file_trust_check, the rest of a load *)

\* Is the root trusted?
Contains(p) ==
  /\ pc[p] = "contains"
  /\ \/ job[p].at \notin dir /\ Finish(p, "failed")
     \/ job[p].at \in dir \ entries["trusted"] /\ Finish(p, "untrusted")
     \/ job[p].at \in dir \cap entries["trusted"] /\ GoTo(p, "baseline") /\ UNCHANGED job
  /\ UNCHANGED <<disk, stores, faults, history>>

\* The companion is read whole; it may be empty.
Baseline(p) ==
  LET j == job[p] IN
  /\ pc[p] = "baseline"
  /\ \/ j.at \notin dir /\ Finish(p, "failed")
     \/ j.at \in dir /\ hash[j.at] = NoHash /\ Finish(p, "missing")
     \/ /\ j.at \in dir /\ hash[j.at] # NoHash
        /\ GoTo(p, "compare") /\ Learn(p, [j EXCEPT !.held = hash[j.at]])
  /\ UNCHANGED <<disk, stores, faults, history>>

\* The config is read once: what is compared is what is parsed.
Compare(p) ==
  LET j == job[p] IN
  /\ pc[p] = "compare"
  /\ \/ config[j.at] = NoFile /\ Finish(p, "failed")
     \/ /\ config[j.at] \in Content /\ config[j.at] = j.held /\ GoTo(p, "done")
        /\ Learn(p, [j EXCEPT !.held = config[j.at], !.outcome = "ok"])
     \/ config[j.at] \in Content /\ config[j.at] # j.held /\ Finish(p, "stale")
  /\ UNCHANGED <<disk, stores, faults, history>>

-----------------------------------------------------------------------------
(* TrustStore::trust: the companion of a config's root, then its entry *)

\* Mutant: a grant does not notice that the config is gone.
ReadUnchecked(p) ==
  /\ pc[p] = "read" /\ GoTo(p, "open")
  /\ Learn(p, [job[p] EXCEPT !.held = config[job[p].at]])
  /\ UNCHANGED <<disk, stores, faults, history>>

\* Mutant: a grant that cannot read the config trusts the root all the same.
ReadFailsOpen(p) ==
  LET j == job[p] IN
  /\ pc[p] = "read"
  /\ IF config[j.at] = NoFile
       THEN GoTo(p, "canonicalize") /\ Learn(p, [j EXCEPT !.store = "trusted"])
       ELSE GoTo(p, "open") /\ Learn(p, [j EXCEPT !.held = config[j.at]])
  /\ UNCHANGED <<disk, stores, faults, history>>

\* The content this grant is for.  Loads that are under way may return it, and
\* no command that is under way revokes it.
Read(p) ==
  LET j == job[p]
      c == config[j.at] IN
  /\ pc[p] = "read"
  /\ \/ c = NoFile /\ Finish(p, "failed") /\ UNCHANGED history
     \/ /\ c # NoFile
        /\ GoTo(p, "open") /\ Learn(p, [j EXCEPT !.held = c])
        /\ granted' = [granted EXCEPT ![j.at] = @ \cup {c}]
        /\ doomed' = [q \in Proc |-> [doomed[q] EXCEPT ![j.at] = @ \ {c}]]
        /\ allowed' = [q \in Proc |-> IF job[q].at = j.at THEN allowed[q] \cup {c}
                                                          ELSE allowed[q]]
        /\ UNCHANGED <<calm, rootOnly>>
  /\ UNCHANGED <<disk, stores, faults>>

\* fs::write creates or truncates the companion ...
Open(p) ==
  LET j == job[p] IN
  /\ pc[p] = "open"
  /\ \/ j.at \notin dir /\ Finish(p, "failed") /\ UNCHANGED <<hash, calm>>
     \/ /\ j.at \in dir
        /\ hash' = [hash EXCEPT ![j.at] = Torn] /\ Interfere(p)
        /\ GoTo(p, "write") /\ Learn(p, [j EXCEPT !.linked = TRUE])
  /\ UNCHANGED <<disk, entries, faults, granted, doomed, allowed, rootOnly>>

\* ... and writes the digest, in vain if the file was unlinked meanwhile.
Write(p) ==
  LET j == job[p] IN
  /\ pc[p] = "write"
  /\ hash' = IF j.linked THEN [hash EXCEPT ![j.at] = j.held] ELSE hash
  /\ Interfere(p) /\ GoTo(p, "canonicalize")
  /\ Learn(p, [j EXCEPT !.store = "trusted", !.linked = FALSE])
  /\ UNCHANGED <<disk, entries, faults, granted, doomed, allowed, rootOnly>>

-----------------------------------------------------------------------------
(* FilePathTracker::remove_with_companions and clean *)

\* Unlinking a companion also takes it from a process that is writing it.
Unlinked(r, jobs) ==
  [q \in Proc |-> IF pc[q] = "write" /\ job[q].at = r THEN [jobs[q] EXCEPT !.linked = FALSE]
                                                       ELSE jobs[q]]

\* untrust removes the entry, if there is one, ...
Remove(p) ==
  LET j == job[p] IN
  /\ pc[p] = "remove"
  /\ \/ j.at \notin dir /\ Finish(p, "failed") /\ UNCHANGED <<entries, calm>>
     \/ /\ j.at \in dir
        /\ entries' = [entries EXCEPT !["trusted"] = @ \ {j.at}]
        /\ Interfere(p) /\ GoTo(p, "companion") /\ UNCHANGED job
  /\ UNCHANGED <<disk, hash, faults, granted, doomed, allowed, rootOnly>>

\* Mutant: untrust leaves the companion.
RemoveCompanionKept(p) ==
  /\ pc[p] = "companion" /\ Finish(p, "ok") /\ Revoke(p)
  /\ UNCHANGED <<disk, stores, faults, doomed, allowed, calm, rootOnly>>

\* ... and then the companion.
RemoveCompanion(p) ==
  LET j == job[p] IN
  /\ pc[p] = "companion"
  /\ hash' = [hash EXCEPT ![j.at] = NoHash]
  /\ job' = Unlinked(j.at, [job EXCEPT ![p] = [j EXCEPT !.outcome = "ok"]])
  /\ GoTo(p, "done") /\ Revoke(p) /\ Interfere(p)
  /\ UNCHANGED <<disk, entries, faults, doomed, allowed, rootOnly>>

\* Mutant: clean takes every entry for a stale one.
SweepAll(p) ==
  LET j == job[p] IN
  /\ pc[p] = "sweep"
  /\ \/ \E r \in j.todo :
          /\ IF r \in entries[j.store] THEN GoTo(p, "unlink") ELSE UNCHANGED pc
          /\ Learn(p, [j EXCEPT !.todo = @ \ {r}, !.at = r])
     \/ /\ j.todo = {} /\ GoTo(p, "companions")
        /\ Learn(p, [j EXCEPT !.todo = IF j.store = "trusted" THEN j.removed ELSE {}])
  /\ UNCHANGED <<disk, stores, faults, history>>

\* clean reads one listed entry; one that is gone or has its target is kept.
Sweep(p) ==
  LET j == job[p] IN
  /\ pc[p] = "sweep"
  /\ \/ \E r \in j.todo :
          /\ IF r \in entries[j.store] /\ ~Target(j.store, r) THEN GoTo(p, "unlink")
                                                              ELSE UNCHANGED pc
          /\ Learn(p, [j EXCEPT !.todo = @ \ {r}, !.at = r])
     \/ /\ j.todo = {} /\ GoTo(p, "companions")
        /\ Learn(p, [j EXCEPT !.todo = IF j.store = "trusted" THEN j.removed ELSE {}])
  /\ UNCHANGED <<disk, stores, faults, history>>

\* The stale entry is removed by name, whatever has become of its target;
\* if another process was faster, clean gives up with its companions in place.
Unlink(p) ==
  LET j == job[p] IN
  /\ pc[p] = "unlink"
  /\ \/ /\ j.at \notin entries[j.store]
        /\ Finish(p, "failed") /\ UNCHANGED <<entries, doomed, calm>>
     \/ /\ j.at \in entries[j.store]
        /\ entries' = [entries EXCEPT ![j.store] = @ \ {j.at}]
        /\ GoTo(p, "sweep") /\ Learn(p, [j EXCEPT !.removed = @ \cup {j.at}])
        /\ doomed' = [doomed EXCEPT ![p][j.at] = IF j.store = "trusted" THEN Settled(j.at)
                                                                        ELSE {}]
        /\ Interfere(p)
  /\ UNCHANGED <<disk, hash, faults, granted, allowed, rootOnly>>

\* The companions of what it removed go last; tracked paths have none.
Companions(p) ==
  LET j == job[p] IN
  /\ pc[p] = "companions"
  /\ \/ /\ \E r \in j.todo :
             /\ hash' = [hash EXCEPT ![r] = NoHash]
             /\ job' = Unlinked(r, [job EXCEPT ![p] = [j EXCEPT !.todo = @ \ {r}]])
        /\ Interfere(p) /\ UNCHANGED <<pc, granted>>
     \/ /\ j.todo = {}
        /\ Finish(p, "ok") /\ Revoke(p) /\ UNCHANGED <<hash, calm>>
  /\ UNCHANGED <<disk, entries, faults, doomed, allowed, rootOnly>>

-----------------------------------------------------------------------------
(* The environment *)

\* The process reports and exits.
Return(p) ==
  /\ pc[p] = "done" /\ GoTo(p, "idle") /\ Learn(p, NoJob)
  /\ doomed' = [doomed EXCEPT ![p] = [r \in Root |-> {}]]
  /\ allowed' = [allowed EXCEPT ![p] = {}]
  /\ calm' = [calm EXCEPT ![p] = TRUE]
  /\ UNCHANGED <<disk, stores, faults, granted, rootOnly>>

\* A system call fails or the process is killed: nothing is undone.
Stop(p) ==
  /\ pc[p] \notin {"idle", "done"} /\ faults < MaxFaults /\ faults' = faults + 1
  /\ Finish(p, "failed") /\ calm' = [calm EXCEPT ![p] = FALSE]
  /\ UNCHANGED <<disk, stores, granted, doomed, allowed, rootOnly>>

\* A load's tracking fails: it warns and goes on.
Warn(p) ==
  /\ pc[p] \in {"exists", "link"} /\ job[p].op = "load"
  /\ faults < MaxFaults /\ faults' = faults + 1 /\ RecordFailed(p)
  /\ calm' = [calm EXCEPT ![p] = FALSE]
  /\ UNCHANGED <<disk, stores, granted, doomed, allowed, rootOnly>>

\* The user writes or deletes a config file, makes or removes a directory.
Edit ==
  /\ edits < MaxEdits /\ edits' = edits + 1
  /\ \E r \in Root :
       \/ /\ r \in dir /\ UNCHANGED dir
          /\ \E c \in (Content \cup {NoFile}) \ {config[r]} :
               config' = [config EXCEPT ![r] = c]
       \/ /\ r \notin dir /\ Above[r] \in dir \cup {NoRoot}
          /\ dir' = dir \cup {r} /\ UNCHANGED config
       \/ /\ r \in dir /\ config[r] = NoFile /\ \A s \in dir : Above[s] # r
          /\ dir' = dir \ {r} /\ UNCHANGED config
  /\ calm' = [q \in Proc |-> pc[q] = "idle"]
  /\ UNCHANGED <<stores, pc, job, faults, granted, doomed, allowed, rootOnly>>

Step(p) ==
  \/ Begin(p) \/ Walk(p) \/ Canonicalize(p) \/ Exists(p) \/ Link(p)
  \/ Contains(p) \/ Baseline(p) \/ Compare(p)
  \/ Read(p) \/ Open(p) \/ Write(p)
  \/ Remove(p) \/ RemoveCompanion(p) \/ Sweep(p) \/ Unlink(p) \/ Companions(p)
  \/ Return(p) \/ Stop(p) \/ Warn(p)

Next == Edit \/ \E p \in Proc : Step(p)

Spec == Init /\ [][Next]_vars

-----------------------------------------------------------------------------
(* Properties *)

\* Every variable keeps its type (the shapes of the code's structs and files).
TypeOK ==
  /\ dir \subseteq Root /\ config \in [Root -> Content \cup {NoFile}]
  /\ entries \in [STORES -> SUBSET Root] /\ hash \in [Root -> Digest]
  /\ pc \in [Proc -> STEPS] /\ job \in [Proc -> Job]
  /\ edits \in Nat /\ faults \in Nat
  /\ granted \in [Root -> SUBSET Content]
  /\ doomed \in [Proc -> [Root -> SUBSET Content]]
  /\ allowed \in [Proc -> SUBSET Content]
  /\ calm \in [Proc -> BOOLEAN] /\ rootOnly \subseteq Root

\* A load returns only a content that a grant for this root read, and that no
\* revocation (a later grant, an untrust or a clean that was begun after that
\* grant was over, and succeeded before the load began) has taken back: in
\* whatever order the system calls of the commands interleave or fail.
LoadAuthorised ==
  \A p \in Proc :
    (pc[p] = "done" /\ job[p].op = "load" /\ job[p].outcome = "ok")
      => job[p].held \in allowed[p]

(* Why LoadAuthorised holds, inductively *)

\* A step of a command belongs to the command; a digest is written only once
\* the config has been read.
Shape(s, j) ==
  LET recording == s \in {"canonicalize", "exists", "link"} IN
  /\ s = "walk" => j.op \in {"load", "trust", "untrust"} /\ j.start \in Root
  /\ recording => j.op \in {"load", "trust"} /\ j.at \in Root
  /\ recording /\ j.op = "load" => j.store = "tracked"
  /\ recording /\ j.op = "trust" /\ j.store = "tracked" => j.named /\ j.held \notin Content
  /\ recording /\ j.op = "trust" /\ j.store = "trusted" /\ j.named => j.held \in Content
  /\ s \in {"contains", "baseline", "compare"} => j.op = "load" /\ j.at \in Root
  /\ s \in {"read", "open", "write"} => j.op = "trust" /\ j.named /\ j.at \in Root
  /\ s \in {"open", "write"} => j.held \in Content
  /\ s \in {"remove", "companion"} => j.op = "untrust" /\ j.at \in Root
  /\ s \in {"sweep", "unlink", "companions"} => j.op = "clean"
  /\ s = "unlink" => j.at \in Root

JobShape == \A p \in Proc : Shape(pc[p], job[p])

\* Every digest in the store is of a granted content.
HashGranted == \A r \in Root : hash[r] \in Content => hash[r] \in granted[r]

\* What is about to be written is granted, and nobody is going to revoke it.
GrantsStand ==
  \A r \in Root : \A p \in Granting(r) :
    job[p].held \in granted[r] /\ \A q \in Proc : job[p].held \notin doomed[q][r]

\* A load that is at step s may return what was granted when it began or since.
MayReturn(s, j, contents) ==
  j.op = "load" =>
    /\ s \in {"canonicalize", "exists", "link", "contains", "baseline", "compare"}
         => granted[j.at] \subseteq contents
    /\ s = "compare" /\ j.held \in Content => j.held \in contents
    /\ s = "done" /\ j.outcome = "ok" => j.held \in contents

LoadsAllowed == \A p \in Proc : MayReturn(pc[p], job[p], allowed[p])

\* Has a command still to overwrite or remove r's companion, or given up?
Pending(s, j, r) ==
  \/ s = "done"
  \/ /\ j.op = "trust" /\ j.named /\ j.at = r
     /\ \/ s \in {"read", "open"}
        \/ s \in {"canonicalize", "exists", "link"} /\ j.store = "tracked"
  \/ j.op = "untrust" /\ j.at = r /\ s \in {"remove", "companion"}
  \/ /\ j.op = "clean" /\ j.store = "trusted" /\ r \in j.removed
     /\ s \in {"sweep", "unlink"} \/ (s = "companions" /\ r \in j.todo)

\* A digest that is to be revoked is still going to be overwritten or removed.
RevocationsPend ==
  \A q \in Proc, r \in Root :
    hash[r] \in Content /\ hash[r] \in doomed[q][r] => Pending(pc[q], job[q], r)

\* The inductive invariant behind LoadAuthorised.
IInv == TypeOK /\ JobShape /\ HashGranted /\ GrantsStand /\ LoadsAllowed /\ RevocationsPend

\* Does the walk from a directory in U stay in U?
Climbs(U) == \A s \in U : Above[s] \in Root => Above[s] \in U

\* Ancestors of r and r itself, up to the walk's end.
Ancestors(r) == {s \in Root : \A U \in SUBSET Root : r \in U /\ Climbs(U) => s \in U}

\* What a command has achieved if nothing interfered with it.
Achieved(j) ==
  LET r == j.at IN
  CASE j.op = "load" /\ r = NoRoot ->
         j.outcome = "failed" /\ \A s \in Ancestors(j.start) : config[s] = NoFile
    [] j.op = "load" /\ r # NoRoot ->
         /\ r \in entries["tracked"]
         /\ j.outcome = CASE r \notin entries["trusted"] -> "untrusted"
                          [] r \in entries["trusted"] /\ hash[r] = NoHash -> "missing"
                          [] r \in entries["trusted"] /\ hash[r] = config[r] -> "ok"
                          [] OTHER -> "stale"
         /\ j.outcome = "ok" => j.held = config[r]
    [] j.op = "trust" ->
         /\ j.outcome = "ok" <=> r \in dir /\ (j.named => config[r] # NoFile)
         /\ j.outcome = "ok" => r \in entries["trusted"]
         /\ j.outcome = "ok" /\ j.named => r \in entries["tracked"] /\ hash[r] = config[r]
    [] j.op = "untrust" ->
         /\ j.outcome = "ok" <=> r \in dir
         /\ j.outcome = "ok" => r \notin entries["trusted"] /\ hash[r] = NoHash
    [] j.op = "clean" ->
         /\ j.outcome = "ok" /\ \A s \in j.removed : ~Target(j.store, s)
         /\ \A s \in entries[j.store] : Target(j.store, s)

\* A command with which nothing interfered, no other command, edit or failing
\* call, does what its documentation promises, whatever earlier commands that
\* failed halfway or raced left behind in the stores.
AloneAchieves ==
  \A p \in Proc : pc[p] = "done" /\ calm[p] => Achieved(job[p])

\* One process at a time: however its commands fail or are killed, no root is
\* trusted without a baseline unless it had no config when it was trusted.
BaselineBeforeEntry ==
  \A r \in entries["trusted"] : hash[r] = NoHash => r \in rootOnly

\* ADR 0002: "every trusted root that has a local config has that config path
\* in the tracking store".
TrackedIfTrusted ==
  \A r \in entries["trusted"] : config[r] # NoFile => r \in entries["tracked"]
=============================================================================
