-------------------------- MODULE TemplateOutput ---------------------------
(* One `traces template` per process: find a template, render it with        *)
(* prompts, includes and queries, resolve the output path, create the file;  *)
(* template/{service,engine,writer}.rs and cli/template.rs. Meanwhile the    *)
(* user edits notes and templates, the index is refreshed by others, calls   *)
(* fail and processes are killed.                                            *)
EXTENDS TemplateLoader, FiniteSets

CONSTANTS
  Proc,           \* processes, one render each
  User,           \* the author of every other file
  Program, Body,  \* template sources, and the operations each consists of
  Path,           \* files of the vault and its output directory
  Inside,         \* those a relative path under the root can name
  Refused,        \* a text that confinement accepts as no path
  NoText,         \* no requested or declared path
  DefaultOutput,  \* where the output of a template goes by default, by its stem
  Command,        \* what each process may be started with
  NoName,         \* no template named: ask
  Entry,          \* what the user may put into a template directory
  InitialTree,    \* template directories to begin with
  InitialFiles,   \* paths of the user's files to begin with, in a sequence
  MaxDepth,       \* bound: minijinja's limit on nested includes
  MaxEdits,       \* bound: edits and refreshes by others
  MaxFaults       \* bound: failing calls and kills

Text == Inside \cup {Refused}

Name == FileName \cup {Stem(f) : f \in FileName} \cup {<<>>, NoName}

\* What a template does, as far as the output depends on it.
Op == [op : {"ask", "query"}]
        \cup [op : {"write_to"}, text : Text \cup {"answer"}]
        \cup [op : {"file_include"}, text : Text]
        \cup [op : {"include"}, name : Name \ {NoName}, ignore : BOOLEAN]

ASSUME TemplateAssumption ==
  /\ Directory \subseteq Nat \ {0} /\ 1 \in Directory
  /\ \A d \in Directory : 1 .. d \subseteq Directory
  /\ \A f \in FileName : f # <<>>
  /\ User \notin Proc /\ Proc \cap {"user", "empty", "mixed"} = {}
  /\ NoEntry \notin Entry
  /\ \A e \in Entry : e.program \in Program /\ e.link \in BOOLEAN
  /\ Body \in [Program -> Seq(Op)]
  /\ InitialFiles \in Seq(Path) /\ Inside \subseteq Path
  /\ {Refused, NoText} \cap Path = {} /\ NoText # Refused /\ "answer" \notin Text
  /\ DefaultOutput \in [{Stem(f) : f \in FileName} -> Path]
  /\ Command \subseteq [Proc -> [name : Name, requested : Text \cup {NoText},
                               force : BOOLEAN, dry : BOOLEAN, texts : Seq(Text),
                               provider : {"terminal", "preset"}]]
  /\ InitialTree \subseteq [Directory -> [FileName -> Entry \cup {NoEntry}]]

VARIABLES
  tree,     \* template directories
  touched,  \* entries of them that were edited
  disk,     \* the file at each path, 0 for none
  data,     \* files, by number: maker, text, who wrote to it since it was empty
  removed,  \* numbers of files the user removed
  index,    \* version of the index a refresh gives
  edits, faults,
  cmd,      \* the command each process runs
  run,      \* its progress and what it has rendered
  target,   \* the path it settled on
  handle,   \* the file it has open, 0 for none
  outcome

worldVars  == <<tree, touched, disk, data, removed, index, edits>>
writerVars == <<target, handle>>
vars == <<worldVars, faults, cmd, run, writerVars, outcome>>
-----------------------------------------------------------------------------
\* Rendering starts with nothing declared, cached, loaded or asked.
FreshRun(c) ==
  [pc       |-> IF c.name = NoName THEN "list" ELSE "build",
   asked    |-> c.name,   \* the identifier being searched
   dir      |-> 1,        \* the directory being searched
   unseen   |-> {},       \* directories it passed without a look
   file     |-> <<>>,     \* what the search found there
   offered  |-> {},       \* names of the picker
   resolved |-> <<>>,     \* the file of the template itself
   frames   |-> <<>>,     \* templates being rendered and how far each is
   loaded   |-> {},       \* names included so far and what was read for them
   declared |-> NoText,   \* State's WRITE_TO_KEY
   answer   |-> Refused,  \* the answer to the last ui.text_input
   texts    |-> c.texts,  \* queued answers of a PresetDialogProvider
   cached   |-> 0,        \* State's INDEX_CACHE_KEY, 0 for unset
   seen     |-> {},       \* versions of the index its queries ran against
   used     |-> {},       \* what each search found
   missed   |-> {}]       \* what searches found nothing for

FileOf(maker, text) == [maker |-> maker, text |-> text, writers |-> {maker}]

Init ==
  /\ tree \in InitialTree /\ touched = {}
  /\ data = [i \in 1 .. Len(InitialFiles) |-> FileOf(User, "user")]
  /\ disk = [q \in Path |-> IF \E i \in 1 .. Len(InitialFiles) : InitialFiles[i] = q
                            THEN CHOOSE i \in 1 .. Len(InitialFiles) : InitialFiles[i] = q
                            ELSE 0]
  /\ removed = {} /\ index = 1 /\ edits = 0 /\ faults = 0
  /\ cmd \in Command
  /\ run = [p \in Proc |-> FreshRun(cmd[p])]
  /\ target = [p \in Proc |-> NoText]
  /\ handle = [p \in Proc |-> 0]
  /\ outcome = [p \in Proc |-> "none"]

At(p, pc) == run[p].pc = pc

End(p, result) ==
  /\ run' = [run EXCEPT ![p].pc = "done"]
  /\ outcome' = [outcome EXCEPT ![p] = result]
  /\ UNCHANGED <<worldVars, cmd, writerVars>>

CallFails == faults < MaxFaults /\ faults' = faults + 1

\* A call fails, which ends the render, or goes well.
Fault(p, result) == CallFails /\ End(p, result)

GoesOn == UNCHANGED <<worldVars, cmd, writerVars, outcome>>

Fine == GoesOn /\ UNCHANGED faults
-----------------------------------------------------------------------------
(* Dialogs: a terminal whose user answers or cancels, or a provider that     *)
(* replays queued texts and then answers with defaults. Without a queue it   *)
(* is what --no-input selects; a terminal provider without a TTY answers     *)
(* the same.                                                                 *)
IsInteractive(p) == cmd[p].provider = "terminal" \/ run[p].texts # <<>>

\* text: the answers, each with the queue left.
Answers(p, default) ==
  IF cmd[p].provider = "terminal" THEN {[text |-> t, texts |-> <<>>] : t \in Text}
  ELSE IF run[p].texts # <<>>
       THEN {[text |-> Head(run[p].texts), texts |-> Tail(run[p].texts)]}
       ELSE {[text |-> default, texts |-> <<>>]}

\* Escape or Ctrl-C at a prompt.
Cancel(p) ==
  /\ cmd[p].provider = "terminal"
  /\ \/ run[p].pc \in {"choose", "prompt"} /\ End(p, "cancelled")
     \/ run[p].pc = "ask" /\ End(p, "render_error")
  /\ UNCHANGED faults
-----------------------------------------------------------------------------
Offers(p, offered) ==
  IF offered = {} \/ ~IsInteractive(p) THEN End(p, "no_picker")
  ELSE run' = [run EXCEPT ![p].pc = "choose", ![p].offered = offered] /\ GoesOn

\* pick_template offers what is there now, less what cannot be read; the user
\* takes their time.
List(p) ==
  /\ At(p, "list")
  /\ \/ Offers(p, ListAvailable(tree)) /\ UNCHANGED faults
     \/ CallFails /\ \E readable \in SUBSET ListAvailable(tree) : Offers(p, readable)

Choose(p) ==
  /\ At(p, "choose")
  /\ \E name \in run[p].offered :
       run' = [run EXCEPT ![p].pc = "build", ![p].asked = name, ![p].offered = {}]
  /\ Fine

\* parse_input, TemplateService::new, which loads the schema registry, and the
\* first directory.
Build(p) ==
  /\ At(p, "build")
  /\ IF ~IsValid(run[p].asked) THEN End(p, "resolve_error") /\ UNCHANGED faults
     ELSE \/ run' = [run EXCEPT ![p].pc = "find_path"] /\ Fine
          \/ Fault(p, "schema_error")
-----------------------------------------------------------------------------
(* The search, for the template itself and for every include.                *)
IsInclude(p) == run[p].frames # <<>>

\* The top frame moves past the operation it is at.
Advanced(frames) == [frames EXCEPT ![Len(frames)].at = @ + 1]

Operation(p) ==
  LET top == run[p].frames[Len(run[p].frames)] IN Body[top.source][top.at]

SearchFails(p) ==
  /\ End(p, IF IsInclude(p) THEN "render_error" ELSE "resolve_error")
  /\ UNCHANGED faults

\* load turns absence into "no such template", which `ignore missing` accepts.
Missing(p, unseen) ==
  LET missed == run[p].missed \cup {[asked |-> run[p].asked, unseen |-> unseen]}
  IN IF IsInclude(p) /\ Operation(p).ignore
     THEN run' = [run EXCEPT ![p].pc = "render", ![p].missed = missed,
                             ![p].frames = Advanced(@)] /\ GoesOn
     ELSE /\ run' = [run EXCEPT ![p].pc = "done", ![p].missed = missed]
          /\ outcome' = [outcome EXCEPT ![p] = IF IsInclude(p) THEN "render_error"
                                              ELSE "not_found"]
          /\ UNCHANGED <<worldVars, cmd, writerVars>>

Found(p, f) == run' = [run EXCEPT ![p].pc = "read", ![p].file = f] /\ Fine

\* Mutant: the next directory is the same one.
NextDirectoryAgain(p, unseen) == run' = [run EXCEPT ![p].pc = "find_path"] /\ GoesOn

\* The local directory first, then the global one.
NextDirectory(p, unseen) ==
  IF run[p].dir + 1 \in Directory
  THEN run' = [run EXCEPT ![p].pc = "find_path", ![p].dir = @ + 1,
                          ![p].unseen = unseen] /\ GoesOn
  ELSE Missing(p, unseen)

\* No file of that path, or none that can be seen: a name with an extension is
\* looked up in no other way, one without by find_name_in.
NotByPath(p, unseen) ==
  IF HasExtension(run[p].asked) THEN NextDirectory(p, unseen)
  ELSE run' = [run EXCEPT ![p].pc = "find_name"] /\ GoesOn

\* The name as a path. A symlink_metadata that fails is no match.
FindPathIn(p) ==
  /\ At(p, "find_path")
  /\ LET name   == run[p].asked
         exists == name \in FileName /\ IsFile(tree[run[p].dir], name)
     IN \/ exists /\ Found(p, name)
        \/ ~exists /\ NotByPath(p, run[p].unseen) /\ UNCHANGED faults
        \/ NotByPath(p, run[p].unseen \cup {run[p].dir}) /\ CallFails

\* Mutant: the first hit is taken for the only one.
FindNameFirst(p) ==
  /\ At(p, "find_name")
  /\ LET hits == Hits(tree[run[p].dir], run[p].asked)
     IN \/ hits = {} /\ NextDirectory(p, run[p].unseen) /\ UNCHANGED faults
        \/ \E f \in hits : Found(p, f)

\* The name as a stem, which one file at most may have.
FindNameIn(p) ==
  /\ At(p, "find_name")
  /\ LET hits == Hits(tree[run[p].dir], run[p].asked)
     IN \/ hits = {} /\ NextDirectory(p, run[p].unseen) /\ UNCHANGED faults
        \/ \E f \in hits : hits = {f} /\ Found(p, f)
        \/ Cardinality(hits) > 1 /\ SearchFails(p)
        \/ Fault(p, IF IsInclude(p) THEN "render_error" ELSE "resolve_error")

RenderFails(p) == End(p, "render_error") /\ UNCHANGED faults

\* minijinja counts nested includes when it enters one.
TooDeep(p) == Len(run[p].frames) = MaxDepth

\* minijinja keeps what its loader returned for the life of the engine.
Enter(p, program) ==
  LET below  == IF IsInclude(p) THEN Advanced(run[p].frames) ELSE <<>>
      frames == Append(below, [source |-> program, at |-> 1])
  IN run' = [run EXCEPT
       ![p].pc = "render", ![p].frames = frames, ![p].dir = 1,
       ![p].resolved = IF IsInclude(p) THEN @ ELSE run[p].file,
       ![p].loaded = IF IsInclude(p)
                     THEN @ \cup {[name |-> run[p].asked, program |-> program]} ELSE @,
       ![p].unseen = {},
       ![p].used = @ \cup {[asked |-> run[p].asked, dir |-> run[p].dir,
                            unseen |-> run[p].unseen, file |-> run[p].file]}]

\* The file may be gone since it was found, or be a link by now, which is read.
ReadTemplate(p) ==
  /\ At(p, "read")
  /\ LET entry == tree[run[p].dir][run[p].file]
     IN \/ entry # NoEntry /\ ~TooDeep(p) /\ Enter(p, entry.program) /\ Fine
        \/ entry # NoEntry /\ TooDeep(p) /\ RenderFails(p)
        \/ /\ entry = NoEntry
           /\ IF ~IsInclude(p) THEN End(p, "read_error") /\ UNCHANGED faults
              ELSE IF Operation(p).ignore
              THEN run' = [run EXCEPT ![p].pc = "render", ![p].dir = 1,
                                      ![p].frames = Advanced(@)] /\ Fine
              ELSE End(p, "render_error") /\ UNCHANGED faults
        \/ Fault(p, IF IsInclude(p) THEN "render_error" ELSE "read_error")
-----------------------------------------------------------------------------
(* Rendering.                                                                *)
Executes(p, op) ==
  /\ At(p, "render")
  /\ LET top == run[p].frames[Len(run[p].frames)]
     IN top.at <= Len(Body[top.source])
  /\ Operation(p).op = op

\* file.write_to: the last call wins, wherever in the tree of includes it is.
WriteTo(p) ==
  /\ Executes(p, "write_to")
  /\ LET given == Operation(p).text
     IN run' = [run EXCEPT ![p].declared = IF given = "answer" THEN run[p].answer
                                           ELSE given,
                           ![p].frames = Advanced(@)]
  /\ Fine

\* ui.text_input, without a default: the empty text, which names no path.
Ask(p) == Executes(p, "ask") /\ run' = [run EXCEPT ![p].pc = "ask"] /\ Fine

Answered(p, text, texts) ==
  /\ run' = [run EXCEPT ![p] =
       [@ EXCEPT !.pc = "render", !.answer = text, !.texts = texts,
                 !.frames = Advanced(run[p].frames)]]
  /\ Fine

TextInput(p) ==
  /\ At(p, "ask")
  /\ \E given \in Answers(p, Refused) : Answered(p, given.text, given.texts)

\* Mutant: every query refreshes.
CachedIndexEach(p) == index

\* cached: the first query refreshes the index, later ones share what it got.
CachedIndex(p) == IF run[p].cached # 0 THEN run[p].cached ELSE index

RunsAgainst(p, version) ==
  /\ run' = [run EXCEPT ![p] =
       [@ EXCEPT !.cached = version, !.seen = run[p].seen \cup {version},
                 !.frames = Advanced(run[p].frames)]]
  /\ Fine

Query(p) ==
  /\ Executes(p, "query")
  /\ \/ RunsAgainst(p, CachedIndex(p))
     \/ run[p].cached = 0 /\ Fault(p, "render_error")

\* file.include reads a file of the vault as it is now.
FileInclude(p) ==
  /\ Executes(p, "file_include")
  /\ LET text == Operation(p).text
     IN IF text = Refused \/ disk[text] = 0 THEN RenderFails(p)
        ELSE \/ run' = [run EXCEPT ![p].frames = Advanced(@)] /\ Fine
             \/ Fault(p, "render_error")

Include(p) ==
  /\ Executes(p, "include")
  /\ LET name  == Operation(p).name
         known == {l \in run[p].loaded : l.name = name}
     IN IF ~IsValid(name) \/ (known # {} /\ TooDeep(p)) THEN RenderFails(p)
        ELSE IF known = {}
        THEN run' = [run EXCEPT ![p].pc = "find_path", ![p].asked = name,
                                ![p].dir = 1, ![p].unseen = {}] /\ Fine
        ELSE \E l \in known :
               run' = [run EXCEPT ![p].frames =
                 Append(Advanced(@), [source |-> l.program, at |-> 1])] /\ Fine

\* A template ends; the outermost one with the render.
Leave(p) ==
  /\ At(p, "render")
  /\ LET frames == run[p].frames
         top    == frames[Len(frames)]
         below  == SubSeq(frames, 1, Len(frames) - 1)
     IN /\ top.at > Len(Body[top.source])
        /\ run' = [run EXCEPT ![p].frames = below,
                              ![p].pc = IF below = <<>> THEN "write" ELSE "render"]
  /\ Fine
-----------------------------------------------------------------------------
(* The output.                                                               *)
\* requested over declared over the default, which is not confined.
Candidate(p) ==
  IF cmd[p].requested # NoText THEN cmd[p].requested
  ELSE IF run[p].declared # NoText THEN run[p].declared
  ELSE DefaultOutput[Stem(run[p].resolved)]

Exists(path) == disk[path] # 0

Settle(p, pc, path) ==
  /\ run' = [run EXCEPT ![p].pc = pc]
  /\ target' = [target EXCEPT ![p] = path]
  /\ UNCHANGED <<worldVars, faults, cmd, handle, outcome>>

\* Mutant: --force skips confinement.
ResolveForced(p) ==
  /\ At(p, "write")
  /\ LET path == Candidate(p) IN
     IF cmd[p].dry THEN End(p, "previewed") /\ UNCHANGED faults
     ELSE IF path = Refused /\ ~cmd[p].force THEN End(p, "escapes") /\ UNCHANGED faults
     ELSE Settle(p, IF \/ cmd[p].force \/ cmd[p].requested # NoText
                       \/ ~IsInteractive(p) \/ ~Exists(path)
                    THEN "create" ELSE "prompt", path)

\* write returns at once in a dry run, then resolve up to its prompt.
Resolve(p) ==
  /\ At(p, "write")
  /\ LET path == Candidate(p) IN
     IF cmd[p].dry THEN End(p, "previewed") /\ UNCHANGED faults
     ELSE IF path = Refused THEN End(p, "escapes") /\ UNCHANGED faults
     ELSE Settle(p, IF \/ cmd[p].force \/ cmd[p].requested # NoText
                       \/ ~IsInteractive(p) \/ ~Exists(path)
                    THEN "create" ELSE "prompt", path)

\* resolve's loop. The default offered is the absolute path: taking it is
\* answering with a path that is refused.
Replied(p, text, texts) ==
  LET again == text = Refused \/ (Exists(text) /\ text # target[p])
  IN /\ run' = [run EXCEPT ![p] =
          [@ EXCEPT !.texts = texts, !.pc = IF again THEN "prompt" ELSE "create"]]
     /\ target' = [target EXCEPT ![p] = IF text = Refused THEN @ ELSE text]
     /\ UNCHANGED <<worldVars, faults, cmd, handle, outcome>>

Prompt(p) ==
  /\ At(p, "prompt")
  /\ \E given \in Answers(p, Refused) : Replied(p, given.text, given.texts)

\* File i with another text.
Rewritten(i, text, writers) ==
  data' = [data EXCEPT ![i] = [maker |-> @.maker, text |-> text, writers |-> writers]]

\* Opens file i, which holds nothing by p's doing.
Opens(p, i) ==
  /\ run' = [run EXCEPT ![p].pc = "fill"]
  /\ handle' = [handle EXCEPT ![p] = i]
  /\ UNCHANGED <<tree, touched, removed, index, edits, faults, cmd, target, outcome>>

CreateNew(p) ==
  /\ disk' = [disk EXCEPT ![target[p]] = Len(data) + 1]
  /\ data' = Append(data, FileOf(p, "empty"))
  /\ Opens(p, Len(data) + 1)

Truncate(p) ==
  LET i == disk[target[p]]
  IN /\ Rewritten(i, "empty", {p})
     /\ UNCHANGED disk
     /\ Opens(p, i)

\* Mutant: resolve's check is relied on.
CreateUnchecked(p) ==
  /\ At(p, "create")
  /\ \/ ~Exists(target[p]) /\ CreateNew(p)
     \/ Exists(target[p]) /\ Truncate(p)

\* create_dir_all and create_file, which may fail.
Create(p) ==
  /\ At(p, "create")
  /\ \/ ~Exists(target[p]) /\ CreateNew(p)
     \/ Exists(target[p]) /\ cmd[p].force /\ Truncate(p)
     \/ Exists(target[p]) /\ ~cmd[p].force /\ End(p, "exists") /\ UNCHANGED faults
     \/ Fault(p, "write_error")

\* What a write from offset 0 leaves: over the text of another, all or a part.
Written(p, before) == IF before = "empty" THEN {p} ELSE {p, "mixed"}

\* Mutant: the result of write_all is dropped.
FillDropsErrors(p) ==
  /\ At(p, "fill")
  /\ \E text \in Written(p, data[handle[p]].text) \cup {"mixed"} :
       Rewritten(handle[p], text, data[handle[p]].writers \cup {p})
  /\ run' = [run EXCEPT ![p].pc = "done"]
  /\ outcome' = [outcome EXCEPT ![p] = "written"]
  /\ UNCHANGED <<tree, touched, disk, removed, index, edits, faults, cmd, writerVars>>

Fill(p) ==
  /\ At(p, "fill")
  /\ \/ /\ \E text \in Written(p, data[handle[p]].text) :
             Rewritten(handle[p], text, data[handle[p]].writers \cup {p})
        /\ run' = [run EXCEPT ![p].pc = "done"]
        /\ outcome' = [outcome EXCEPT ![p] = "written"]
        /\ UNCHANGED <<tree, touched, disk, removed, index, edits, faults, cmd, writerVars>>
     \/ /\ CallFails
        /\ Rewritten(handle[p], "mixed", data[handle[p]].writers \cup {p})
        /\ run' = [run EXCEPT ![p].pc = "done"]
        /\ outcome' = [outcome EXCEPT ![p] = "write_error"]
        /\ UNCHANGED <<tree, touched, disk, removed, index, edits, cmd, writerVars>>
-----------------------------------------------------------------------------
(* Everything else that happens.                                             *)
Kill(p) == ~At(p, "done") /\ Fault(p, "killed")

Edits == edits < MaxEdits /\ edits' = edits + 1

UserWrites(path) ==
  /\ Edits
  /\ IF Exists(path)
     THEN Rewritten(disk[path], "user", {User}) /\ UNCHANGED disk
     ELSE /\ data' = Append(data, FileOf(User, "user"))
          /\ disk' = [disk EXCEPT ![path] = Len(data) + 1]
  /\ UNCHANGED <<tree, touched, removed, index, faults, cmd, run, writerVars, outcome>>

UserRemoves(path) ==
  /\ Edits /\ Exists(path)
  /\ disk' = [disk EXCEPT ![path] = 0] /\ removed' = removed \cup {disk[path]}
  /\ UNCHANGED <<tree, touched, data, index, faults, cmd, run, writerVars, outcome>>

UserEditsTemplate(d, f, entry) ==
  /\ Edits /\ entry # tree[d][f]
  /\ tree' = [tree EXCEPT ![d][f] = entry] /\ touched' = touched \cup {<<d, f>>}
  /\ UNCHANGED <<disk, data, removed, index, faults, cmd, run, writerVars, outcome>>

\* Notes changed, so that the next refresh gives another index.
IndexMoves ==
  /\ Edits /\ index' = index + 1
  /\ UNCHANGED <<tree, touched, disk, data, removed, faults, cmd, run, writerVars, outcome>>

World ==
  \/ \E path \in Path : UserWrites(path) \/ UserRemoves(path)
  \/ \E d \in Directory, f \in FileName, e \in Entry \cup {NoEntry} : UserEditsTemplate(d, f, e)
  \/ IndexMoves

Runs(p) ==
  \/ List(p) \/ Choose(p) \/ Build(p) \/ FindPathIn(p) \/ FindNameIn(p)
  \/ ReadTemplate(p) \/ WriteTo(p) \/ Ask(p) \/ TextInput(p) \/ Query(p)
  \/ FileInclude(p) \/ Include(p) \/ Leave(p)
  \/ Resolve(p) \/ Prompt(p) \/ Create(p) \/ Fill(p)

Next == World \/ \E p \in Proc : Runs(p) \/ Cancel(p) \/ Kill(p)

Spec == Init /\ [][Next]_vars

(* A process that can run does, and a user has no endless patience with a    *)
(* prompt that comes back.                                                   *)
FairSpec == Spec /\ \A p \in Proc : WF_vars(Runs(p)) /\ WF_vars(Cancel(p))
-----------------------------------------------------------------------------
(* Properties.                                                               *)
Phases == {"list", "choose", "build", "find_path", "find_name", "read", "render",
           "ask", "write", "prompt", "create", "fill", "done"}

Result == {"none", "cancelled", "no_picker", "resolve_error", "schema_error", "not_found",
           "read_error", "render_error", "previewed", "escapes", "exists", "write_error",
           "written", "killed"}

File == [maker : Proc \cup {User}, writers : SUBSET (Proc \cup {User}),
         text : Proc \cup {"user", "empty", "mixed"}]

Frame == [source : Program, at : Nat \ {0}]

Run == [pc : Phases, asked : Name, dir : Directory, unseen : SUBSET Directory,
        file : FileName \cup {<<>>}, offered : SUBSET Name,
        resolved : FileName \cup {<<>>}, frames : Seq(Frame),
        loaded : SUBSET [name : Name, program : Program], declared : Text \cup {NoText},
        answer : Text, texts : Seq(Text), cached : Nat, seen : SUBSET Nat,
        used : SUBSET [asked : Name, dir : Directory, unseen : SUBSET Directory,
                       file : FileName \cup {<<>>}],
        missed : SUBSET [asked : Name, unseen : SUBSET Directory]]

\* Every variable has its type; a file number is one of a file there is.
TypeOK ==
  /\ tree \in [Directory -> [FileName -> Entry \cup {NoEntry}]]
  /\ data \in Seq(File)
  /\ disk \in [Path -> 0 .. Len(data)]
  /\ removed \subseteq 1 .. Len(data)
  /\ index \in Nat /\ edits \in Nat /\ faults \in Nat
  /\ cmd \in Command
  /\ run \in [Proc -> Run]
  /\ target \in [Proc -> Path \cup {NoText}]
  /\ handle \in [Proc -> 0 .. Len(data)]
  /\ outcome \in [Proc -> Result]

\* Without --force a process has written to no file but one it made itself, and
\* in a dry run to none, however its check of the path, the prompt and the
\* creation interleave with others (CommitPolicy::create_file).
OwnFilesOnly ==
  \A i \in DOMAIN data, p \in Proc :
    p \in data[i].writers => ~cmd[p].dry /\ (data[i].maker = p \/ cmd[p].force)

\* What is reported as written is all there, unless another truncated or wrote
\* the same file since this process opened it, and it is the file at the
\* reported path unless the user removed it (WriteOutcome::Written).
ReportedIsThere ==
  \A p \in Proc : outcome[p] = "written" =>
    LET i == handle[p] IN
    /\ i # 0
    /\ data[i].text = p \/ data[i].writers # {p}
    /\ disk[target[p]] = i \/ i \in removed

\* All queries of one render, in all its includes, run against one index.
OneSnapshot == \A p \in Proc : Cardinality(run[p].seen) <= 1

\* A file nobody edited that a search for `name` in directory d must not miss.
Stands(d, f, name) ==
  /\ IsFile(tree[d], f) /\ <<d, f>> \notin touched
  /\ \/ f = name
     \/ ~HasExtension(name) /\ Stem(f) = name

\* Local before global, the name before the stem, and no choice among several
\* files of a stem; absence is reported only for what is absent: whatever the
\* user edits and whatever call fails between the steps of the search
\* (TemplateLoader::find). Only the directories in which a name with an
\* extension could not be looked up, which find_path_in takes for absence, are
\* left out.
SearchIsSound ==
  \A p \in Proc : \A d \in Directory, f \in FileName :
    /\ \A u \in run[p].used :
         d <= u.dir /\ d \notin u.unseen /\ Stands(d, f, u.asked)
           => d = u.dir /\ (f = u.file \/ u.file = u.asked)
    /\ \A m \in run[p].missed : d \in m.unseen \/ ~Stands(d, f, m.asked)

\* Every run ends: includes that include each other, names of the picker that
\* are found no more and taken paths notwithstanding. Queued answers that run
\* out at the prompt are the exception: the default is answered for ever.
Ends ==
  \A p \in Proc : <>(At(p, "done") \/ (At(p, "prompt") /\ ~IsInteractive(p)))
=============================================================================
