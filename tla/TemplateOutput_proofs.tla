----------------------- MODULE TemplateOutput_proofs -----------------------
(* Proofs about TemplateOutput, for any number of processes, templates and   *)
(* paths: types, that renders leave the files of others alone and report     *)
(* what is there, that searches are sound and that queries share an index.   *)
EXTENDS TemplateOutput, SequenceTheorems, FiniteSetTheorems, TLAPS

\* How far a run is fits what it holds.
RunOK(r) ==
  /\ r.pc = "read" => r.file \in FileName
  /\ r.frames # <<>> => r.resolved \in FileName
  /\ r.pc \in {"render", "ask"} => r.frames # <<>>
  /\ r.pc = "write" => r.resolved \in FileName

\* What p has open is its own or was opened by force; unless another process
\* or the user has been at it since, it is empty; and it is still at p's path
\* unless the user removed it.
HandleOK(p) ==
  LET i == handle[p] IN
  /\ i # 0
  /\ data[i].maker = p \/ cmd[p].force
  /\ data[i].text = "empty" \/ data[i].writers # {p}
  /\ disk[target[p]] = i \/ i \in removed

ProgressOK(p) ==
  /\ RunOK(run[p])
  /\ run[p].pc \in {"prompt", "create", "fill"} => target[p] \in Path /\ ~cmd[p].dry
  /\ run[p].pc = "fill" => HandleOK(p)
  /\ outcome[p] = "written" => run[p].pc = "done" /\ target[p] \in Path

Progress == \A p \in Proc : ProgressOK(p)

\* ReportedIsThere for one process that reported.
ReportedOK(p) ==
  LET i == handle[p] IN
  /\ i # 0
  /\ data[i].text = p \/ data[i].writers # {p}
  /\ disk[target[p]] = i \/ i \in removed

HasWriters == \A i \in DOMAIN data : data[i].writers # {}

IInv == TypeOK /\ Progress /\ HasWriters /\ OwnFilesOnly /\ ReportedIsThere

-----------------------------------------------------------------------------
(* Sequences of frames and of files.                                         *)
LEMMA AdvancedTyped ==
  ASSUME NEW frames \in Seq(Frame), frames # <<>>
  PROVE  Advanced(frames) \in Seq(Frame) /\ Advanced(frames) # <<>>
<1>1. Len(frames) \in 1 .. Len(frames)
  BY EmptySeq, LenProperties
<1>2. frames[Len(frames)] \in Frame
  BY <1>1, ElementOfSeq
<1>4. [frames[Len(frames)] EXCEPT !.at = @ + 1] \in Frame
  BY <1>2 DEF Frame
<1>3. Advanced(frames) = [frames EXCEPT ![Len(frames)] = [frames[Len(frames)] EXCEPT !.at = @ + 1]]
  BY DEF Advanced
<1> QED
  BY <1>1, <1>4, <1>3, ExceptSeq, EmptySeq

LEMMA PoppedTyped ==
  ASSUME NEW frames \in Seq(Frame), frames # <<>>
  PROVE  SubSeq(frames, 1, Len(frames) - 1) \in Seq(Frame)
<1>1. Len(frames) \in Nat /\ Len(frames) > 0
  BY EmptySeq, LenProperties
<1> QED
  BY <1>1, ElementOfSeq, SubSeqProperties

LEMMA RewrittenTyped ==
  ASSUME NEW i \in DOMAIN data, data \in Seq(File),
         NEW text \in Proc \cup {"user", "empty", "mixed"},
         NEW writers \in SUBSET (Proc \cup {User}),
         Rewritten(i, text, writers)
  PROVE  /\ data' \in Seq(File) /\ Len(data') = Len(data) /\ DOMAIN data' = DOMAIN data
         /\ data'[i] = [maker |-> data[i].maker, text |-> text, writers |-> writers]
         /\ \A j \in DOMAIN data : j # i => data'[j] = data[j]
<1>1. i \in 1 .. Len(data) /\ DOMAIN data = 1 .. Len(data)
  BY LenProperties
<1>2. data[i] \in File
  BY <1>1, ElementOfSeq
<1> DEFINE new == [maker |-> data[i].maker, text |-> text, writers |-> writers]
<1>3. new \in File
  BY <1>2 DEF File
<1>4. data' = [data EXCEPT ![i] = new]
  BY DEF Rewritten
<1> HIDE DEF new
<1>5. data' \in Seq(File) /\ Len(data') = Len(data)
  BY <1>1, <1>3, <1>4, ExceptSeq
<1>6. data'[i] = new /\ \A j \in DOMAIN data : j # i => data'[j] = data[j]
  BY <1>1, <1>4
<1> QED
  BY <1>1, <1>5, <1>6, LenProperties DEF new
-----------------------------------------------------------------------------
(* Steps that change only what one process holds in memory.                  *)
LEMMA LocalStep ==
  ASSUME IInv, NEW p \in Proc, NEW r \in Run, RunOK(r),
         r.pc \notin {"prompt", "create", "fill"},
         run[p].pc # "done", run' = [run EXCEPT ![p] = r],
         UNCHANGED <<worldVars, cmd, writerVars>>, faults' \in Nat,
         outcome' \in [Proc -> Result],
         \A q \in Proc : outcome'[q] = "written" => q # p /\ outcome[q] = "written"
  PROVE  IInv'
<1>1. run' \in [Proc -> Run] /\ run'[p] = r /\ \A q \in Proc : q # p => run'[q] = run[q]
  BY DEF IInv, TypeOK
<1>2. UNCHANGED <<tree, touched, disk, data, removed, index, edits, cmd, target, handle>>
  BY DEF worldVars, writerVars
<1>3. TypeOK'
  BY <1>1, <1>2 DEF IInv, TypeOK
<1>4. ASSUME NEW q \in Proc, HandleOK(q)
      PROVE  HandleOK(q)'
  BY <1>2, <1>4 DEF HandleOK
<1>5. Progress'
  <2>1. SUFFICES ASSUME NEW q \in Proc
                 PROVE /\ RunOK(run'[q])
                       /\ run'[q].pc \in {"prompt", "create", "fill"}
                            => target'[q] \in Path /\ ~cmd'[q].dry
                       /\ run'[q].pc = "fill" => HandleOK(q)'
                       /\ outcome'[q] = "written" => run'[q].pc = "done" /\ target'[q] \in Path
    BY DEF Progress, ProgressOK, RunOK
  <2>2. CASE q = p
    BY <1>1, <2>2
  <2>3. CASE q # p
    BY <1>1, <1>2, <1>4, <2>3 DEF IInv, Progress, ProgressOK
  <2> QED
    BY <2>2, <2>3
<1>6. HasWriters' /\ OwnFilesOnly'
  BY <1>2 DEF IInv, HasWriters, OwnFilesOnly
<1>7. ReportedIsThere'
  BY <1>2 DEF IInv, ReportedIsThere
<1> QED
  BY <1>3, <1>5, <1>6, <1>7 DEF IInv

\* The same while rendering goes on, and when it ends.
LEMMA GoesOnStep ==
  ASSUME IInv, NEW p \in Proc, NEW r \in Run, RunOK(r),
         r.pc \notin {"prompt", "create", "fill"}, run[p].pc # "done",
         run' = [run EXCEPT ![p] = r], GoesOn, faults' \in Nat
  PROVE  IInv'
<1>1. \A q \in Proc : outcome'[q] = "written" => q # p /\ outcome[q] = "written"
  BY DEF GoesOn, IInv, Progress, ProgressOK
<1>2. outcome' \in [Proc -> Result]
  BY DEF GoesOn, IInv, TypeOK
<1> QED
  BY <1>1, <1>2, LocalStep DEF GoesOn

LEMMA FineStep ==
  ASSUME IInv, NEW p \in Proc, NEW r \in Run, RunOK(r),
         r.pc \notin {"prompt", "create", "fill"}, run[p].pc # "done",
         run' = [run EXCEPT ![p] = r], Fine
  PROVE  IInv'
<1>1. GoesOn /\ faults' \in Nat
  BY DEF Fine, IInv, TypeOK
<1> QED
  BY <1>1, GoesOnStep

LEMMA CallsCounted ==
  ASSUME IInv, CallFails \/ UNCHANGED faults
  PROVE  faults' \in Nat
  BY DEF CallFails, IInv, TypeOK

LEMMA EndStep ==
  ASSUME IInv, NEW p \in Proc, NEW result \in Result, result # "written",
         run[p].pc # "done", End(p, result), faults' \in Nat
  PROVE  IInv'
<1> DEFINE r == [run[p] EXCEPT !.pc = "done"]
<1>1. run[p] \in Run /\ RunOK(run[p]) /\ outcome \in [Proc -> Result]
  BY DEF IInv, TypeOK, Progress, ProgressOK
<1>2. r \in Run /\ r.pc = "done"
  BY ZenonT(90), <1>1 DEF Run, Phases
<1>3. RunOK(r)
  BY <1>1 DEF RunOK, Run
<1>4. run' = [run EXCEPT ![p] = r]
  BY DEF End
<1>5. outcome' \in [Proc -> Result]
      /\ \A q \in Proc : outcome'[q] = "written" => q # p /\ outcome[q] = "written"
  BY <1>1 DEF End
<1>6. UNCHANGED <<worldVars, cmd, writerVars>>
  BY DEF End
<1> HIDE DEF r
<1> QED
  BY <1>2, <1>3, <1>4, <1>5, <1>6, LocalStep

LEMMA FaultStep ==
  ASSUME IInv, NEW p \in Proc, NEW result \in Result, result # "written",
         run[p].pc # "done", Fault(p, result)
  PROVE  IInv'
<1>1. faults' \in Nat
  BY CallsCounted DEF Fault
<1> QED
  BY <1>1, EndStep DEF Fault

LEMMA FailStep ==
  ASSUME IInv, NEW p \in Proc, NEW result \in Result, result # "written",
         run[p].pc # "done", End(p, result), UNCHANGED faults
  PROVE  IInv'
<1>1. faults' \in Nat
  BY DEF IInv, TypeOK
<1> QED
  BY <1>1, EndStep
-----------------------------------------------------------------------------
(* The search.                                                               *)
LEMMA RunTyped ==
  ASSUME IInv, NEW p \in Proc
  PROVE  /\ run \in [Proc -> Run] /\ run[p] \in Run /\ RunOK(run[p])
         /\ run[p].frames \in Seq(Frame)
  BY DEF IInv, TypeOK, Progress, ProgressOK, Run

LEMMA OperationTyped ==
  ASSUME IInv, NEW p \in Proc, NEW op, Executes(p, op)
  PROVE  /\ run[p].pc = "render" /\ run[p].frames # <<>>
         /\ Operation(p) \in Op /\ Operation(p).op = op
<1>1. run[p].pc = "render" /\ run[p].frames # <<>> /\ run[p].frames \in Seq(Frame)
  BY RunTyped DEF Executes, At, RunOK
<1> DEFINE top == run[p].frames[Len(run[p].frames)]
<1>2. Len(run[p].frames) \in 1 .. Len(run[p].frames)
  BY <1>1, EmptySeq
<1>3. top \in Frame
  BY <1>1, <1>2, ElementOfSeq
<1>4. Body[top.source] \in Seq(Op) /\ top.at \in 1 .. Len(Body[top.source])
  <2>1. Body[top.source] \in Seq(Op)
    BY <1>3, TemplateAssumption DEF Frame
  <2>2. Len(Body[top.source]) \in Nat
    BY <2>1, LenProperties
  <2> QED
    BY <1>3, <2>1, <2>2 DEF Frame, Executes
<1>5. Operation(p) \in Op
  BY <1>4, ElementOfSeq DEF Operation
<1> QED
  BY <1>1, <1>5 DEF Executes

\* The frames move on and the render with them.
LEMMA AdvanceStep ==
  ASSUME IInv, NEW p \in Proc, run[p].frames # <<>>
  PROVE  LET r == [run[p] EXCEPT !.pc = "render", !.frames = Advanced(@)]
         IN r \in Run /\ RunOK(r) /\ r.pc = "render"
<1>1. run[p] \in Run /\ RunOK(run[p]) /\ run[p].frames \in Seq(Frame)
  BY RunTyped
<1>2. Advanced(run[p].frames) \in Seq(Frame) /\ Advanced(run[p].frames) # <<>>
  BY <1>1, AdvancedTyped
<1> QED
  BY ZenonT(90), <1>1, <1>2 DEF Run, Phases, RunOK

LEMMA MissingStep ==
  ASSUME IInv, NEW p \in Proc, NEW unseen \in SUBSET Directory, run[p].pc # "done",
         Missing(p, unseen), faults' \in Nat
  PROVE  IInv'
<1> DEFINE missed == run[p].missed \cup {[asked |-> run[p].asked, unseen |-> unseen]}
<1>1. /\ run[p] \in Run /\ RunOK(run[p]) /\ run \in [Proc -> Run]
      /\ missed \in SUBSET [asked : Name, unseen : SUBSET Directory]
  BY RunTyped DEF Run
<1>2. CASE IsInclude(p) /\ Operation(p).ignore
  <2> DEFINE a == [run[p] EXCEPT !.pc = "render", !.frames = Advanced(@)]
             r == [a EXCEPT !.missed = missed]
  <2>1. a \in Run /\ RunOK(a) /\ a.pc = "render"
    BY <1>2, AdvanceStep DEF IsInclude
  <2>2. r \in Run /\ RunOK(r) /\ r.pc = "render"
    BY <1>1, <2>1 DEF Run, RunOK
  <2>3. run' = [run EXCEPT ![p] = r] /\ GoesOn
    BY ZenonT(90), <1>1, <1>2 DEF Missing, Run
  <2> HIDE DEF r
  <2> QED
    BY <2>2, <2>3, GoesOnStep
<1>3. CASE ~(IsInclude(p) /\ Operation(p).ignore)
  <2> DEFINE r == [run[p] EXCEPT !.pc = "done", !.missed = missed]
  <2>0. "done" \in Phases
    BY DEF Phases
  <2>a. r \in Run
    BY <1>1, <2>0 DEF Run
  <2>b. /\ r.pc = "done" /\ r.file = run[p].file /\ r.frames = run[p].frames
        /\ r.resolved = run[p].resolved
    BY <1>1 DEF Run
  <2>1. r \in Run /\ RunOK(r) /\ r.pc = "done"
    BY <1>1, <2>a, <2>b DEF RunOK
  <2>2. run' = [run EXCEPT ![p] = r] /\ UNCHANGED <<worldVars, cmd, writerVars>>
    BY <1>1, <1>3 DEF Missing, Run
  <2>3. outcome' \in [Proc -> Result]
        /\ \A q \in Proc : outcome'[q] = "written" => q # p /\ outcome[q] = "written"
    <3>1. \E result \in {"render_error", "not_found"} :
            outcome' = [outcome EXCEPT ![p] = result]
      BY <1>3 DEF Missing
    <3>2. outcome \in [Proc -> Result]
      BY DEF IInv, TypeOK
    <3> QED
      BY <3>1, <3>2 DEF Result
  <2> HIDE DEF r
  <2> QED
    BY <2>1, <2>2, <2>3, LocalStep
<1> QED
  BY <1>2, <1>3

LEMMA FoundStep ==
  ASSUME IInv, NEW p \in Proc, NEW f \in FileName, run[p].pc # "done", Found(p, f)
  PROVE  IInv'
<1> DEFINE r == [run[p] EXCEPT !.pc = "read", !.file = f]
<1>1. run[p] \in Run /\ RunOK(run[p]) /\ run \in [Proc -> Run]
  BY RunTyped
<1>2. r \in Run /\ RunOK(r) /\ r.pc = "read"
  BY ZenonT(90), <1>1 DEF Run, Phases, RunOK
<1>3. run' = [run EXCEPT ![p] = r] /\ Fine
  BY <1>1 DEF Found, Run
<1> HIDE DEF r
<1> QED
  BY <1>2, <1>3, FineStep

LEMMA NextDirectoryStep ==
  ASSUME IInv, NEW p \in Proc, NEW unseen \in SUBSET Directory, run[p].pc # "done",
         NextDirectory(p, unseen), faults' \in Nat
  PROVE  IInv'
<1> DEFINE r == [run[p] EXCEPT !.pc = "find_path", !.dir = @ + 1, !.unseen = unseen]
<1>1. run[p] \in Run /\ RunOK(run[p]) /\ run \in [Proc -> Run]
  BY RunTyped
<1>2. CASE run[p].dir + 1 \in Directory
  <2>0. "find_path" \in Phases
    BY DEF Phases
  <2>a. r \in Run
    BY <1>1, <1>2, <2>0 DEF Run
  <2>b. /\ r.pc = "find_path" /\ r.file = run[p].file /\ r.frames = run[p].frames
        /\ r.resolved = run[p].resolved
    BY <1>1 DEF Run
  <2>1. r \in Run /\ RunOK(r) /\ r.pc = "find_path"
    BY <1>1, <2>a, <2>b DEF RunOK
  <2>2. run' = [run EXCEPT ![p] = r] /\ GoesOn
    BY <1>1, <1>2 DEF NextDirectory, Run
  <2> HIDE DEF r
  <2> QED
    BY <2>1, <2>2, GoesOnStep
<1>3. CASE run[p].dir + 1 \notin Directory
  BY <1>3, MissingStep DEF NextDirectory
<1> QED
  BY <1>2, <1>3

LEMMA SearchFailsStep ==
  ASSUME IInv, NEW p \in Proc, run[p].pc # "done", SearchFails(p)
  PROVE  IInv'
<1>1. CASE IsInclude(p)
  <2>1. End(p, "render_error") /\ UNCHANGED faults
    BY <1>1 DEF SearchFails
  <2> QED
    BY <2>1, FailStep DEF Result
<1>2. CASE ~IsInclude(p)
  <2>1. End(p, "resolve_error") /\ UNCHANGED faults
    BY <1>2 DEF SearchFails
  <2> QED
    BY <2>1, FailStep DEF Result
<1> QED
  BY <1>1, <1>2

LEMMA OffersStep ==
  ASSUME IInv, NEW p \in Proc, run[p].pc = "list", NEW offered \in SUBSET Name,
         Offers(p, offered), faults' \in Nat
  PROVE  IInv'
<1> DEFINE r == [run[p] EXCEPT !.pc = "choose", !.offered = offered]
<1>1. run[p] \in Run /\ RunOK(run[p]) /\ run \in [Proc -> Run]
  BY RunTyped
<1>2. CASE End(p, "no_picker")
  BY <1>2, EndStep DEF Result
<1>3. CASE GoesOn /\ run' = [run EXCEPT ![p].pc = "choose", ![p].offered = offered]
  <2>1. r \in Run /\ RunOK(r) /\ r.pc = "choose"
    BY ZenonT(90), <1>1 DEF Run, Phases, RunOK
  <2>2. run' = [run EXCEPT ![p] = r]
    BY <1>1, <1>3 DEF Run
  <2> HIDE DEF r
  <2> QED
    BY <1>3, <2>1, <2>2, GoesOnStep
<1> QED
  BY <1>2, <1>3 DEF Offers

LEMMA ListStep ==
  ASSUME IInv, NEW p \in Proc, List(p)
  PROVE  IInv'
<1>1. run[p].pc = "list" /\ faults' \in Nat
  BY CallsCounted DEF List, At
<1>2. ListAvailable(tree) \in SUBSET Name
  BY DEF ListAvailable, StemsIn, Name
<1>3. PICK offered \in SUBSET ListAvailable(tree) : Offers(p, offered)
  BY DEF List
<1> QED
  BY <1>1, <1>2, <1>3, OffersStep

LEMMA ChooseStep ==
  ASSUME IInv, NEW p \in Proc, Choose(p)
  PROVE  IInv'
<1>1. run[p] \in Run /\ RunOK(run[p]) /\ run \in [Proc -> Run] /\ run[p].pc = "choose"
  BY RunTyped DEF Choose, At
<1>2. PICK name \in run[p].offered :
        run' = [run EXCEPT ![p].pc = "build", ![p].asked = name, ![p].offered = {}]
  BY DEF Choose
<1> DEFINE r == [run[p] EXCEPT !.pc = "build", !.asked = name, !.offered = {}]
<1>3. r \in Run /\ RunOK(r) /\ r.pc = "build"
  BY ZenonT(90), <1>1 DEF Run, Phases, RunOK
<1>4. run' = [run EXCEPT ![p] = r] /\ Fine
  BY <1>1, <1>2 DEF Choose, Run
<1> HIDE DEF r
<1> QED
  BY <1>1, <1>3, <1>4, FineStep

\* Steps that only change the phase.
LEMMA PhaseStep ==
  ASSUME IInv, NEW p \in Proc, run[p].pc # "done", GoesOn, faults' \in Nat,
         NEW pc \in {"find_path", "find_name"}, run' = [run EXCEPT ![p].pc = pc]
  PROVE  IInv'
<1> DEFINE r == [run[p] EXCEPT !.pc = pc]
<1>1. run[p] \in Run /\ RunOK(run[p]) /\ run \in [Proc -> Run]
  BY RunTyped
<1>2. r \in Run /\ RunOK(r) /\ r.pc = pc
  BY ZenonT(90), <1>1 DEF Run, Phases, RunOK
<1>3. run' = [run EXCEPT ![p] = r]
  BY <1>1
<1> HIDE DEF r
<1> QED
  BY <1>2, <1>3, GoesOnStep

LEMMA BuildStep ==
  ASSUME IInv, NEW p \in Proc, Build(p)
  PROVE  IInv'
<1>1. run[p].pc = "build"
  BY DEF Build, At
<1>2. CASE End(p, "resolve_error") /\ UNCHANGED faults
  BY <1>1, <1>2, FailStep DEF Result
<1>3. CASE run' = [run EXCEPT ![p].pc = "find_path"] /\ Fine
  BY <1>1, <1>3, CallsCounted, PhaseStep DEF Fine
<1>4. CASE Fault(p, "schema_error")
  BY <1>1, <1>4, FaultStep DEF Result
<1> QED
  BY <1>2, <1>3, <1>4 DEF Build

LEMMA NotByPathStep ==
  ASSUME IInv, NEW p \in Proc, NEW unseen \in SUBSET Directory, run[p].pc # "done",
         NotByPath(p, unseen), faults' \in Nat
  PROVE  IInv'
<1>1. CASE NextDirectory(p, unseen)
  BY <1>1, NextDirectoryStep
<1>2. CASE run' = [run EXCEPT ![p].pc = "find_name"] /\ GoesOn
  BY <1>2, PhaseStep
<1> QED
  BY <1>1, <1>2 DEF NotByPath

LEMMA FindPathInStep ==
  ASSUME IInv, NEW p \in Proc, FindPathIn(p)
  PROVE  IInv'
<1>1. /\ run[p].pc = "find_path" /\ run[p].unseen \in SUBSET Directory
      /\ run[p].unseen \cup {run[p].dir} \in SUBSET Directory
  BY RunTyped DEF FindPathIn, At, Run
<1>2. CASE run[p].asked \in FileName /\ Found(p, run[p].asked)
  BY <1>1, <1>2, FoundStep
<1>3. CASE NotByPath(p, run[p].unseen) /\ UNCHANGED faults
  BY <1>1, <1>3, CallsCounted, NotByPathStep
<1>4. CASE NotByPath(p, run[p].unseen \cup {run[p].dir}) /\ CallFails
  BY <1>1, <1>4, CallsCounted, NotByPathStep
<1> QED
  BY <1>2, <1>3, <1>4 DEF FindPathIn

LEMMA FindNameInStep ==
  ASSUME IInv, NEW p \in Proc, FindNameIn(p)
  PROVE  IInv'
<1> DEFINE hits == Hits(tree[run[p].dir], run[p].asked)
<1>1. run[p].pc = "find_name" /\ run[p].unseen \in SUBSET Directory
  BY RunTyped DEF FindNameIn, At, Run
<1>2. CASE NextDirectory(p, run[p].unseen) /\ UNCHANGED faults
  BY <1>1, <1>2, CallsCounted, NextDirectoryStep
<1>3. ASSUME NEW f \in hits, Found(p, f)
      PROVE  IInv'
  <2>1. f \in FileName
    BY DEF Hits
  <2> QED
    BY <1>1, <1>3, <2>1, FoundStep
<1>4. CASE SearchFails(p)
  BY <1>1, <1>4, SearchFailsStep
<1>5. CASE Fault(p, IF IsInclude(p) THEN "render_error" ELSE "resolve_error")
  <2>1. Fault(p, "render_error") \/ Fault(p, "resolve_error")
    BY <1>5
  <2> QED
    BY <1>1, <2>1, FaultStep DEF Result
<1> QED
  BY <1>2, <1>3, <1>4, <1>5 DEF FindNameIn

LEMMA FrameTyped ==
  ASSUME NEW program \in Program
  PROVE  [source |-> program, at |-> 1] \in Frame
  BY DEF Frame

LEMMA EnterTyped ==
  ASSUME IInv, NEW p \in Proc, NEW program \in Program
  PROVE  LET below == IF IsInclude(p) THEN Advanced(run[p].frames) ELSE <<>>
             frames == Append(below, [source |-> program, at |-> 1])
         IN frames \in Seq(Frame) /\ frames # <<>>
<1> DEFINE below == IF IsInclude(p) THEN Advanced(run[p].frames) ELSE <<>>
<1>1. below \in Seq(Frame)
  BY RunTyped, AdvancedTyped, EmptySeq DEF IsInclude
<1> HIDE DEF below
<1>2. Append(below, [source |-> program, at |-> 1]) \in Seq(Frame)
      /\ Append(below, [source |-> program, at |-> 1]) # <<>>
  BY <1>1, FrameTyped, AppendProperties
<1> QED
  BY <1>2 DEF below

LEMMA EnterStep ==
  ASSUME IInv, NEW p \in Proc, NEW program \in Program, run[p].pc = "read",
         Enter(p, program), Fine
  PROVE  IInv'
<1> DEFINE below == IF IsInclude(p) THEN Advanced(run[p].frames) ELSE <<>>
           frames == Append(below, [source |-> program, at |-> 1])
           resolved == IF IsInclude(p) THEN run[p].resolved ELSE run[p].file
           loaded == IF IsInclude(p)
                     THEN run[p].loaded \cup {[name |-> run[p].asked, program |-> program]}
                     ELSE run[p].loaded
           used == run[p].used \cup {[asked |-> run[p].asked, dir |-> run[p].dir,
                                     unseen |-> run[p].unseen, file |-> run[p].file]}
           r == [run[p] EXCEPT !.pc = "render", !.frames = frames, !.dir = 1, !.unseen = {},
                               !.resolved = resolved, !.loaded = loaded, !.used = used]
<1>1. run[p] \in Run /\ RunOK(run[p]) /\ run \in [Proc -> Run]
  BY RunTyped
<1>2. frames \in Seq(Frame) /\ frames # <<>>
  BY EnterTyped
<1>3. resolved \in FileName
  BY <1>1 DEF RunOK, IsInclude
<1>4. loaded \in SUBSET [name : Name, program : Program]
  BY <1>1 DEF Run
<1>5. used \in SUBSET [asked : Name, dir : Directory, unseen : SUBSET Directory,
                      file : FileName \cup {<<>>}]
  BY <1>1 DEF Run
<1>6. run' = [run EXCEPT ![p] = r]
  BY ZenonT(90), <1>1 DEF Enter, Run
<1> HIDE DEF frames, resolved, loaded, used
<1>7. 1 \in Directory
  BY TemplateAssumption
<1>8. r \in Run /\ RunOK(r) /\ r.pc = "render"
  BY ZenonT(90), <1>1, <1>2, <1>3, <1>4, <1>5, <1>7 DEF Run, Phases, RunOK
<1> HIDE DEF r
<1> QED
  BY <1>6, <1>8, FineStep

LEMMA ReadTemplateStep ==
  ASSUME IInv, NEW p \in Proc, ReadTemplate(p)
  PROVE  IInv'
<1> DEFINE entry == tree[run[p].dir][run[p].file]
<1>1. run[p] \in Run /\ RunOK(run[p]) /\ run \in [Proc -> Run] /\ run[p].pc = "read"
  BY RunTyped DEF ReadTemplate, At
<1>2. CASE entry # NoEntry /\ Enter(p, entry.program) /\ Fine
  <2>1. entry \in Entry
    BY <1>1, <1>2 DEF IInv, TypeOK, Run, RunOK
  <2>2. entry.program \in Program
    BY <2>1, TemplateAssumption
  <2> QED
    BY <1>1, <1>2, <2>2, EnterStep
<1>3. CASE End(p, "read_error") /\ UNCHANGED faults
  BY <1>1, <1>3, FailStep DEF Result
<1>4. CASE End(p, "render_error") /\ UNCHANGED faults
  BY <1>1, <1>4, FailStep DEF Result
<1>5. CASE IsInclude(p) /\ Fine /\ run' = [run EXCEPT ![p].pc = "render", ![p].dir = 1,
                                                     ![p].frames = Advanced(@)]
  <2> DEFINE a == [run[p] EXCEPT !.pc = "render", !.frames = Advanced(@)]
             r == [a EXCEPT !.dir = 1]
  <2>1. a \in Run /\ RunOK(a) /\ a.pc = "render"
    BY <1>5, AdvanceStep DEF IsInclude
  <2>2. 1 \in Directory
    BY TemplateAssumption
  <2>3. r \in Run /\ RunOK(r) /\ r.pc = "render"
    BY ZenonT(90), <2>1, <2>2 DEF Run, RunOK
  <2>4. run' = [run EXCEPT ![p] = r]
    BY ZenonT(90), <1>1, <1>5 DEF Run
  <2> HIDE DEF r
  <2> QED
    BY <1>1, <1>5, <2>3, <2>4, FineStep
<1>6. CASE RenderFails(p)
  BY <1>1, <1>6, FailStep DEF RenderFails, Result
<1>7. CASE Fault(p, IF IsInclude(p) THEN "render_error" ELSE "read_error")
  <2>1. Fault(p, "render_error") \/ Fault(p, "read_error")
    BY <1>7
  <2> QED
    BY <1>1, <2>1, FaultStep DEF Result
<1> QED
  BY <1>2, <1>3, <1>4, <1>5, <1>6, <1>7 DEF ReadTemplate
-----------------------------------------------------------------------------
(* Rendering.                                                                *)
LEMMA WriteToStep ==
  ASSUME IInv, NEW p \in Proc, WriteTo(p)
  PROVE  IInv'
<1> DEFINE given == Operation(p).text
           declared == IF given = "answer" THEN run[p].answer ELSE given
           a == [run[p] EXCEPT !.pc = "render", !.frames = Advanced(@)]
           r == [a EXCEPT !.declared = declared]
<1>1. /\ run[p] \in Run /\ RunOK(run[p]) /\ run \in [Proc -> Run] /\ run[p].pc = "render"
      /\ run[p].frames # <<>> /\ Operation(p) \in Op /\ Operation(p).op = "write_to"
  BY RunTyped, OperationTyped DEF WriteTo
<1>2. given \in Text \cup {"answer"}
  BY <1>1 DEF Op
<1>3. declared \in Text
  BY <1>1, <1>2 DEF Run
<1>4. run' = [run EXCEPT ![p] = r] /\ Fine
  <2>1. /\ run' = [run EXCEPT ![p].declared = declared, ![p].frames = Advanced(@)]
        /\ Fine
    BY DEF WriteTo
  <2>2. r = [run[p] EXCEPT !.declared = declared, !.frames = Advanced(@)]
    BY <1>1 DEF Run
  <2> HIDE DEF declared, r
  <2> QED
    BY <1>1, <2>1, <2>2
<1>5. a \in Run /\ RunOK(a) /\ a.pc = "render"
  BY <1>1, AdvanceStep
<1> HIDE DEF declared, a
<1>6. r \in Run /\ RunOK(r) /\ r.pc = "render"
  BY <1>3, <1>5 DEF Run, RunOK
<1> HIDE DEF r
<1> QED
  BY <1>1, <1>4, <1>6, FineStep

LEMMA AskStep ==
  ASSUME IInv, NEW p \in Proc, Ask(p)
  PROVE  IInv'
<1> DEFINE r == [run[p] EXCEPT !.pc = "ask"]
<1>1. /\ run[p] \in Run /\ RunOK(run[p]) /\ run \in [Proc -> Run] /\ run[p].pc = "render"
      /\ run[p].frames # <<>>
  BY RunTyped, OperationTyped DEF Ask
<1>2. r \in Run /\ RunOK(r) /\ r.pc = "ask"
  BY ZenonT(90), <1>1 DEF Run, Phases, RunOK
<1>3. run' = [run EXCEPT ![p] = r] /\ Fine
  BY <1>1 DEF Ask
<1> HIDE DEF r
<1> QED
  BY <1>1, <1>2, <1>3, FineStep

LEMMA AnswersTyped ==
  ASSUME IInv, NEW p \in Proc, NEW given \in Answers(p, Refused)
  PROVE  given.text \in Text /\ given.texts \in Seq(Text)
<1>1. run[p].texts \in Seq(Text)
  BY RunTyped DEF Run
<1>2. <<>> \in Seq(Text) /\ Refused \in Text
  BY EmptySeq DEF Text
<1>3. CASE cmd[p].provider = "terminal"
  <2>1. given \in {[text |-> t, texts |-> <<>>] : t \in Text}
    BY <1>3 DEF Answers
  <2>2. PICK t \in Text : given = [text |-> t, texts |-> <<>>]
    BY <2>1, Zenon
  <2>3. given.text = t /\ given.texts = <<>>
    BY <2>2
  <2> QED
    BY <1>2, <2>3
<1>4. CASE cmd[p].provider # "terminal" /\ run[p].texts # <<>>
  <2>1. Head(run[p].texts) \in Text /\ Tail(run[p].texts) \in Seq(Text)
    BY <1>1, <1>4, HeadTailProperties
  <2> QED
    BY SMTT(90), <1>4, <2>1 DEF Answers
<1>5. CASE cmd[p].provider # "terminal" /\ run[p].texts = <<>>
  <2>1. given = [text |-> Refused, texts |-> <<>>]
    BY <1>5 DEF Answers
  <2>2. given.text = Refused /\ given.texts = <<>>
    BY <2>1
  <2> QED
    BY <1>2, <2>2
<1> QED
  BY <1>3, <1>4, <1>5

LEMMA AnsweredStep ==
  ASSUME IInv, NEW p \in Proc, run[p].pc = "ask",
         NEW text \in Text, NEW texts \in Seq(Text), Answered(p, text, texts)
  PROVE  IInv'
<1> DEFINE frames == Advanced(run[p].frames)
           r == [run[p] EXCEPT !.pc = "render", !.answer = text, !.texts = texts,
                               !.frames = frames]
<1>1. /\ run[p] \in Run /\ RunOK(run[p]) /\ run \in [Proc -> Run]
      /\ run[p].frames # <<>> /\ run[p].frames \in Seq(Frame)
  BY RunTyped DEF RunOK
<1>2. run' = [run EXCEPT ![p] = r] /\ Fine
  BY DEF Answered
<1>3. frames \in Seq(Frame) /\ frames # <<>>
  BY <1>1, AdvancedTyped
<1> HIDE DEF frames
<1>4. r \in Run /\ RunOK(r) /\ r.pc = "render"
  BY ZenonT(90), <1>1, <1>3 DEF Run, Phases, RunOK
<1> HIDE DEF r
<1> QED
  BY <1>2, <1>4, FineStep

LEMMA TextInputStep ==
  ASSUME IInv, NEW p \in Proc, TextInput(p)
  PROVE  IInv'
<1>1. PICK given \in Answers(p, Refused) : Answered(p, given.text, given.texts)
  BY DEF TextInput
<1>2. given.text \in Text /\ given.texts \in Seq(Text)
  BY AnswersTyped
<1>3. run[p].pc = "ask"
  BY DEF TextInput, At
<1> QED
  BY <1>1, <1>2, <1>3, AnsweredStep

LEMMA RunsAgainstStep ==
  ASSUME IInv, NEW p \in Proc, run[p].pc = "render", run[p].frames # <<>>,
         NEW version \in Nat, RunsAgainst(p, version)
  PROVE  IInv'
<1> DEFINE frames == Advanced(run[p].frames)
           seen == run[p].seen \cup {version}
           r == [run[p] EXCEPT !.cached = version, !.seen = seen, !.frames = frames]
<1>1. run[p] \in Run /\ RunOK(run[p]) /\ run[p].frames \in Seq(Frame)
  BY RunTyped
<1>2. run' = [run EXCEPT ![p] = r] /\ Fine
  BY DEF RunsAgainst
<1>3. frames \in Seq(Frame) /\ frames # <<>>
  BY <1>1, AdvancedTyped
<1>4. seen \in SUBSET Nat
  BY <1>1 DEF Run
<1> HIDE DEF frames, seen
<1>5. r \in Run /\ RunOK(r) /\ r.pc = "render"
  BY <1>1, <1>3, <1>4 DEF Run, RunOK
<1> HIDE DEF r
<1> QED
  BY <1>2, <1>5, FineStep

LEMMA QueryStep ==
  ASSUME IInv, NEW p \in Proc, Query(p)
  PROVE  IInv'
<1>1. run[p] \in Run /\ run[p].pc = "render" /\ run[p].frames # <<>>
  BY RunTyped, OperationTyped DEF Query
<1>2. CASE Fault(p, "render_error")
  BY <1>1, <1>2, FaultStep DEF Result
<1>3. CASE RunsAgainst(p, CachedIndex(p))
  <2>1. CachedIndex(p) \in Nat
    BY <1>1 DEF CachedIndex, Run, IInv, TypeOK
  <2> QED
    BY <1>1, <1>3, <2>1, RunsAgainstStep
<1> QED
  BY <1>2, <1>3 DEF Query

LEMMA FileIncludeStep ==
  ASSUME IInv, NEW p \in Proc, FileInclude(p)
  PROVE  IInv'
<1> DEFINE r == [run[p] EXCEPT !.frames = Advanced(@)]
<1>1. /\ run[p] \in Run /\ RunOK(run[p]) /\ run \in [Proc -> Run] /\ run[p].pc = "render"
      /\ run[p].frames # <<>>
  BY RunTyped, OperationTyped DEF FileInclude
<1>2. CASE RenderFails(p)
  BY <1>1, <1>2, FailStep DEF RenderFails, Result
<1>3. CASE Fault(p, "render_error")
  BY <1>1, <1>3, FaultStep DEF Result
<1>4. CASE run' = [run EXCEPT ![p].frames = Advanced(@)] /\ Fine
  <2>1. run[p].frames \in Seq(Frame)
    BY RunTyped
  <2>2. Advanced(run[p].frames) \in Seq(Frame) /\ Advanced(run[p].frames) # <<>>
    BY <1>1, <2>1, AdvancedTyped
  <2>3. r \in Run /\ RunOK(r) /\ r.pc = "render"
    BY <1>1, <2>2 DEF Run, RunOK
  <2>4. run' = [run EXCEPT ![p] = r]
    BY <1>1, <1>4 DEF Run
  <2> HIDE DEF r
  <2> QED
    BY <1>1, <1>4, <2>3, <2>4, FineStep
<1> QED
  BY <1>2, <1>3, <1>4 DEF FileInclude

LEMMA IncludeStep ==
  ASSUME IInv, NEW p \in Proc, Include(p)
  PROVE  IInv'
<1> DEFINE name == Operation(p).name
           known == {l \in run[p].loaded : l.name = name}
<1>1. /\ run[p] \in Run /\ RunOK(run[p]) /\ run \in [Proc -> Run] /\ run[p].pc = "render"
      /\ run[p].frames # <<>> /\ Operation(p) \in Op /\ Operation(p).op = "include"
  BY RunTyped, OperationTyped DEF Include
<1>2. name \in Name
  BY <1>1 DEF Op
<1>3. CASE RenderFails(p)
  BY <1>1, <1>3, FailStep DEF RenderFails, Result
<1>4. CASE /\ run' = [run EXCEPT ![p].pc = "find_path", ![p].asked = name,
                                 ![p].dir = 1, ![p].unseen = {}]
           /\ Fine
  <2> DEFINE r == [run[p] EXCEPT !.pc = "find_path", !.asked = name, !.dir = 1, !.unseen = {}]
  <2>1. 1 \in Directory
    BY TemplateAssumption
  <2>2. run' = [run EXCEPT ![p] = r]
    BY <1>1, <1>4 DEF Run
  <2> HIDE DEF name
  <2>3. r \in Run /\ RunOK(r) /\ r.pc = "find_path"
    BY ZenonT(90), <1>1, <1>2, <2>1 DEF Run, Phases, RunOK
  <2> HIDE DEF r
  <2> QED
    BY <1>1, <1>4, <2>2, <2>3, FineStep
<1>5. ASSUME NEW l \in known, Fine,
             run' = [run EXCEPT ![p].frames =
                       Append(Advanced(@), [source |-> l.program, at |-> 1])]
      PROVE  IInv'
  <2> DEFINE frames == Append(Advanced(run[p].frames), [source |-> l.program, at |-> 1])
             r == [run[p] EXCEPT !.frames = frames]
  <2>1. l.program \in Program
    BY <1>1 DEF Run
  <2>2. frames \in Seq(Frame) /\ frames # <<>>
    BY <1>1, <2>1, EnterTyped DEF IsInclude
  <2>3. run' = [run EXCEPT ![p] = r]
    BY <1>1, <1>5
  <2> HIDE DEF frames
  <2>4. r \in Run /\ RunOK(r) /\ r.pc = "render"
    BY <1>1, <2>2 DEF Run, RunOK
  <2> HIDE DEF r
  <2> QED
    BY <1>1, <1>5, <2>3, <2>4, FineStep
<1> QED
  BY <1>3, <1>4, <1>5 DEF Include

LEMMA LeaveStep ==
  ASSUME IInv, NEW p \in Proc, Leave(p)
  PROVE  IInv'
<1> DEFINE frames == run[p].frames
           below == SubSeq(frames, 1, Len(frames) - 1)
           pc == IF below = <<>> THEN "write" ELSE "render"
           r == [run[p] EXCEPT !.frames = below, !.pc = pc]
<1>1. /\ run[p] \in Run /\ RunOK(run[p]) /\ run \in [Proc -> Run] /\ run[p].pc = "render"
      /\ run[p].frames # <<>> /\ run[p].frames \in Seq(Frame)
  BY RunTyped DEF Leave, At, RunOK
<1>2. below \in Seq(Frame)
  BY <1>1, PoppedTyped
<1>3. run' = [run EXCEPT ![p] = r] /\ Fine
  BY <1>1 DEF Leave, Run
<1>4. pc \in {"write", "render"} /\ (pc = "render" => below # <<>>)
  OBVIOUS
<1> HIDE DEF below, pc
<1>5. r \in Run /\ RunOK(r) /\ r.pc = pc
  BY ZenonT(90), <1>1, <1>2, <1>4 DEF Run, Phases, RunOK
<1> HIDE DEF r
<1> QED
  BY <1>1, <1>3, <1>4, <1>5, FineStep

LEMMA CancelStep ==
  ASSUME IInv, NEW p \in Proc, Cancel(p)
  PROVE  IInv'
<1>1. run[p].pc # "done"
  BY DEF Cancel
<1>2. CASE End(p, "cancelled") /\ UNCHANGED faults
  BY <1>1, <1>2, FailStep DEF Result
<1>3. CASE End(p, "render_error") /\ UNCHANGED faults
  BY <1>1, <1>3, FailStep DEF Result
<1> QED
  BY <1>2, <1>3 DEF Cancel

LEMMA KillStep ==
  ASSUME IInv, NEW p \in Proc, Kill(p)
  PROVE  IInv'
<1>1. run[p].pc # "done" /\ Fault(p, "killed")
  BY DEF Kill, At
<1> QED
  BY <1>1, FaultStep DEF Result
-----------------------------------------------------------------------------
(* The output. What a step of one does to files leaves every other process   *)
(* where it was: a file it changes is a file it has written to by now.       *)
FilesKept(x) ==
  \A i \in DOMAIN data :
    /\ i \in DOMAIN data'
    /\ \/ data'[i] = data[i]
       \/ data'[i].maker = data[i].maker /\ x \in data'[i].writers

PathsKept ==
  \A path \in Path :
    disk'[path] = disk[path] \/ disk[path] = 0 \/ disk[path] \in removed'

Stays(q) ==
  /\ run'[q] = run[q] /\ target'[q] = target[q]
  /\ handle'[q] = handle[q] /\ outcome'[q] = outcome[q]

LEMMA OthersKeep ==
  ASSUME IInv, NEW x \in Proc \cup {User}, NEW q \in Proc, q # x, Stays(q),
         cmd' = cmd, removed \subseteq removed', FilesKept(x), PathsKept
  PROVE  ProgressOK(q)' /\ (outcome'[q] = "written" => ReportedOK(q)')
<1>1. ProgressOK(q) /\ (outcome[q] = "written" => ReportedOK(q))
  BY DEF IInv, Progress, ReportedIsThere, ReportedOK
<1>2. handle[q] # 0 => handle[q] \in DOMAIN data
  BY LenProperties DEF IInv, TypeOK
<1>3. ASSUME HandleOK(q), target[q] \in Path
      PROVE  HandleOK(q)'
  BY <1>2, <1>3 DEF HandleOK, Stays, FilesKept, PathsKept
<1>4. ASSUME ReportedOK(q), target[q] \in Path
      PROVE  ReportedOK(q)'
  BY <1>2, <1>4 DEF ReportedOK, Stays, FilesKept, PathsKept
<1> QED
  BY <1>1, <1>3, <1>4 DEF ProgressOK, RunOK, Stays

\* So that only its own part is left to show for a process that changes files.
LEMMA FileStep ==
  ASSUME IInv, TypeOK', NEW p \in Proc, \A q \in Proc \ {p} : Stays(q),
         cmd' = cmd, removed \subseteq removed', FilesKept(p), PathsKept,
         ProgressOK(p)', outcome'[p] = "written" => ReportedOK(p)',
         HasWriters', OwnFilesOnly'
  PROVE  IInv'
<1>1. ASSUME NEW q \in Proc
      PROVE  ProgressOK(q)' /\ (outcome'[q] = "written" => ReportedOK(q)')
  BY OthersKeep
<1>2. Progress' /\ ReportedIsThere'
  BY <1>1 DEF Progress, ReportedIsThere, ReportedOK
<1> QED
  BY <1>2 DEF IInv

\* The same for a step of the user.
LEMMA UserStep ==
  ASSUME IInv, TypeOK', UNCHANGED <<cmd, run, target, handle, outcome>>,
         removed \subseteq removed', FilesKept(User), PathsKept,
         \A i \in DOMAIN data' : \/ i \in DOMAIN data /\ data'[i] = data[i]
                                \/ data'[i].writers = {User}
  PROVE  IInv'
<1>1. User \notin Proc
  BY TemplateAssumption
<1>2. ASSUME NEW q \in Proc
      PROVE  ProgressOK(q)' /\ (outcome'[q] = "written" => ReportedOK(q)')
  <2>1. Stays(q) /\ cmd' = cmd /\ User \in Proc \cup {User} /\ q # User
    BY <1>1 DEF Stays
  <2> QED
    BY <2>1, OthersKeep
<1>3. Progress' /\ ReportedIsThere'
  BY <1>2 DEF Progress, ReportedIsThere, ReportedOK
<1>4. HasWriters'
  BY DEF IInv, HasWriters
<1>5. OwnFilesOnly'
  BY <1>1 DEF IInv, OwnFilesOnly
<1> QED
  BY <1>3, <1>4, <1>5 DEF IInv

LEMMA CommandTyped ==
  ASSUME IInv, NEW p \in Proc
  PROVE  cmd[p].requested \in Text \cup {NoText}
<1>1. cmd \in [Proc -> [name : Name, requested : Text \cup {NoText},
                       force : BOOLEAN, dry : BOOLEAN, texts : Seq(Text),
                       provider : {"terminal", "preset"}]]
  BY TemplateAssumption DEF IInv, TypeOK
<1> QED
  BY <1>1

LEMMA CandidateTyped ==
  ASSUME IInv, NEW p \in Proc, run[p].pc = "write", Candidate(p) # Refused
  PROVE  Candidate(p) \in Path
<1>1. run[p] \in Run /\ run[p].resolved \in FileName
  BY RunTyped DEF RunOK
<1>2. run[p].declared \in Text \cup {NoText}
  BY <1>1 DEF Run
<1>3. Text \ {Refused} \subseteq Path
  BY TemplateAssumption DEF Text
<1>4. DefaultOutput[Stem(run[p].resolved)] \in Path
  BY <1>1, TemplateAssumption
<1> QED
  BY <1>2, <1>3, <1>4, CommandTyped DEF Candidate

\* On the way to creating a file.
LEMMA TargetStep ==
  ASSUME IInv, NEW p \in Proc, NEW r \in Run, RunOK(r), r.pc \in {"prompt", "create"},
         run[p].pc # "done", ~cmd[p].dry, NEW path \in Path,
         run' = [run EXCEPT ![p] = r], target' = [target EXCEPT ![p] = path],
         UNCHANGED <<worldVars, faults, cmd, handle, outcome>>
  PROVE  IInv'
<1>1. UNCHANGED <<tree, touched, disk, data, removed, index, edits, faults, cmd, handle, outcome>>
  BY DEF worldVars
<1>2. run \in [Proc -> Run] /\ target \in [Proc -> Path \cup {NoText}]
  BY DEF IInv, TypeOK
<1>3. /\ run' \in [Proc -> Run] /\ run'[p] = r
      /\ target' \in [Proc -> Path \cup {NoText}] /\ target'[p] = path
  BY <1>2
<1>4. TypeOK'
  BY <1>1, <1>3 DEF IInv, TypeOK
<1>5. \A q \in Proc \ {p} : Stays(q)
  BY <1>1, <1>2 DEF Stays
<1>6. FilesKept(p) /\ PathsKept
  BY <1>1 DEF FilesKept, PathsKept
<1>7. outcome'[p] # "written"
  BY <1>1 DEF IInv, Progress, ProgressOK
<1>8. ProgressOK(p)'
  BY <1>1, <1>3, <1>7 DEF ProgressOK, RunOK
<1>9. HasWriters' /\ OwnFilesOnly'
  BY <1>1 DEF IInv, HasWriters, OwnFilesOnly
<1> QED
  BY <1>1, <1>4, <1>5, <1>6, <1>7, <1>8, <1>9, FileStep

LEMMA ResolveStep ==
  ASSUME IInv, NEW p \in Proc, Resolve(p)
  PROVE  IInv'
<1>1. run[p] \in Run /\ RunOK(run[p]) /\ run[p].pc = "write"
  BY RunTyped DEF Resolve, At
<1>2. CASE End(p, "previewed") /\ UNCHANGED faults
  BY <1>1, <1>2, FailStep DEF Result
<1>3. CASE End(p, "escapes") /\ UNCHANGED faults
  BY <1>1, <1>3, FailStep DEF Result
<1>4. ASSUME NEW pc \in {"create", "prompt"}, ~cmd[p].dry, Candidate(p) # Refused,
             Settle(p, pc, Candidate(p))
      PROVE  IInv'
  <2> DEFINE r == [run[p] EXCEPT !.pc = pc]
             path == Candidate(p)
  <2>1. r \in Run /\ RunOK(r) /\ r.pc \in {"prompt", "create"}
    BY ZenonT(90), <1>1 DEF Run, Phases, RunOK
  <2>2. path \in Path
    BY <1>1, <1>4, CandidateTyped
  <2>3. /\ run' = [run EXCEPT ![p] = r] /\ target' = [target EXCEPT ![p] = path]
        /\ UNCHANGED <<worldVars, faults, cmd, handle, outcome>>
    BY <1>4 DEF Settle
  <2> HIDE DEF r, path
  <2> QED
    BY <1>1, <1>4, <2>1, <2>2, <2>3, TargetStep
<1> QED
  BY <1>2, <1>3, <1>4 DEF Resolve

LEMMA RepliedStep ==
  ASSUME IInv, NEW p \in Proc, run[p].pc = "prompt",
         NEW text \in Text, NEW texts \in Seq(Text), Replied(p, text, texts)
  PROVE  IInv'
<1> DEFINE again == text = Refused \/ (Exists(text) /\ text # target[p])
           pc == IF again THEN "prompt" ELSE "create"
           path == IF text = Refused THEN target[p] ELSE text
           r == [run[p] EXCEPT !.texts = texts, !.pc = pc]
<1>1. /\ run[p] \in Run /\ RunOK(run[p])
      /\ target[p] \in Path /\ ~cmd[p].dry
  BY RunTyped DEF IInv, Progress, ProgressOK
<1>2. path \in Path
  BY <1>1, TemplateAssumption DEF Text
<1>3. run' = [run EXCEPT ![p] = r]
  BY DEF Replied
<1>4. target' = [target EXCEPT ![p] = path]
  BY DEF Replied
<1>5. UNCHANGED <<worldVars, faults, cmd, handle, outcome>>
  BY DEF Replied
<1>6. pc \in {"prompt", "create"}
  OBVIOUS
<1> HIDE DEF pc, path
<1>7. r \in Run /\ RunOK(r) /\ r.pc = pc
  BY ZenonT(90), <1>1, <1>6 DEF Run, Phases, RunOK
<1> HIDE DEF r
<1> QED
  BY <1>1, <1>2, <1>3, <1>4, <1>5, <1>6, <1>7, TargetStep

LEMMA PromptStep ==
  ASSUME IInv, NEW p \in Proc, Prompt(p)
  PROVE  IInv'
<1>1. PICK given \in Answers(p, Refused) : Replied(p, given.text, given.texts)
  BY DEF Prompt
<1>2. given.text \in Text /\ given.texts \in Seq(Text)
  BY AnswersTyped
<1>3. run[p].pc = "prompt"
  BY DEF Prompt, At
<1> QED
  BY <1>1, <1>2, <1>3, RepliedStep

LEMMA OpensTyped ==
  ASSUME IInv, NEW p \in Proc, run[p].pc = "create", NEW i, Opens(p, i)
  PROVE  /\ run' \in [Proc -> Run] /\ RunOK(run'[p]) /\ run'[p].pc = "fill"
         /\ handle' = [handle EXCEPT ![p] = i] /\ handle'[p] = i
         /\ target[p] \in Path /\ target' = target /\ cmd' = cmd /\ removed' = removed
         /\ ~cmd[p].dry /\ outcome'[p] # "written"
         /\ \A q \in Proc \ {p} : Stays(q)
         /\ UNCHANGED <<tree, touched, removed, index, edits, faults, cmd, target, outcome>>
<1> DEFINE r == [run[p] EXCEPT !.pc = "fill"]
<1>1. /\ run[p] \in Run /\ RunOK(run[p]) /\ run \in [Proc -> Run]
      /\ handle \in [Proc -> 0 .. Len(data)]
      /\ target[p] \in Path /\ ~cmd[p].dry /\ outcome[p] # "written"
  BY RunTyped DEF IInv, TypeOK, Progress, ProgressOK
<1>2. r \in Run /\ RunOK(r) /\ r.pc = "fill"
  BY ZenonT(90), <1>1 DEF Run, Phases, RunOK
<1>3. run' = [run EXCEPT ![p] = r] /\ handle' = [handle EXCEPT ![p] = i]
  BY DEF Opens
<1>4. UNCHANGED <<tree, touched, removed, index, edits, faults, cmd, target, outcome>>
  BY DEF Opens
<1> HIDE DEF r
<1>5. run' \in [Proc -> Run] /\ run'[p] = r /\ handle'[p] = i
  BY <1>1, <1>2, <1>3
<1>6. \A q \in Proc \ {p} : Stays(q)
  BY <1>1, <1>3, <1>4 DEF Stays
<1> QED
  BY <1>1, <1>2, <1>3, <1>4, <1>5, <1>6

\* One more file, at a path that had none.
LEMMA AppendedTyped ==
  ASSUME IInv, NEW path \in Path, disk[path] = 0, NEW file \in File,
         data' = Append(data, file), disk' = [disk EXCEPT ![path] = Len(data) + 1]
  PROVE  /\ data' \in Seq(File) /\ Len(data) \in Nat /\ Len(data') = Len(data) + 1
         /\ DOMAIN data = 1 .. Len(data) /\ DOMAIN data' = 1 .. Len(data) + 1
         /\ data'[Len(data) + 1] = file /\ \A i \in DOMAIN data : data'[i] = data[i]
         /\ disk' \in [Path -> 0 .. Len(data')] /\ disk'[path] = Len(data) + 1
         /\ \A other \in Path : disk'[other] = disk[other] \/ disk[other] = 0
<1>1. data \in Seq(File) /\ Len(data) \in Nat /\ DOMAIN data = 1 .. Len(data)
  BY LenProperties DEF IInv, TypeOK
<1>2. /\ data' \in Seq(File) /\ Len(data') = Len(data) + 1
      /\ data'[Len(data) + 1] = file /\ \A i \in 1 .. Len(data) : data'[i] = data[i]
  BY <1>1, AppendProperties
<1>3. DOMAIN data' = 1 .. Len(data) + 1
  BY <1>2, LenProperties
<1>4. disk \in [Path -> 0 .. Len(data)]
  BY DEF IInv, TypeOK
<1>5. disk' \in [Path -> 0 .. Len(data) + 1] /\ disk'[path] = Len(data) + 1
      /\ \A other \in Path : disk'[other] = disk[other] \/ disk[other] = 0
  BY <1>1, <1>4
<1> QED
  BY <1>1, <1>2, <1>3, <1>5

LEMMA CreateNewStep ==
  ASSUME IInv, NEW p \in Proc, run[p].pc = "create", ~Exists(target[p]), CreateNew(p)
  PROVE  IInv'
<1> DEFINE new == Len(data) + 1
<1>1. Opens(p, new)
  BY DEF CreateNew
<1>2. FileOf(p, "empty") \in File
  BY DEF FileOf, File
<1>3. target[p] \in Path
  BY DEF IInv, Progress, ProgressOK
<1>4. disk[target[p]] = 0
  BY DEF Exists
<1>5. /\ data' \in Seq(File) /\ Len(data) \in Nat /\ Len(data') = Len(data) + 1
      /\ DOMAIN data = 1 .. Len(data) /\ DOMAIN data' = 1 .. Len(data) + 1
      /\ data'[new] = FileOf(p, "empty") /\ \A i \in DOMAIN data : data'[i] = data[i]
      /\ disk' \in [Path -> 0 .. Len(data')] /\ disk'[target[p]] = new
      /\ \A path \in Path : disk'[path] = disk[path] \/ disk[path] = 0
  BY <1>2, <1>3, <1>4, AppendedTyped DEF CreateNew
<1>6. /\ run' \in [Proc -> Run] /\ RunOK(run'[p]) /\ run'[p].pc = "fill"
      /\ handle' = [handle EXCEPT ![p] = new] /\ handle'[p] = new
      /\ ~cmd[p].dry /\ outcome'[p] # "written"
      /\ \A q \in Proc \ {p} : Stays(q)
      /\ UNCHANGED <<tree, touched, removed, index, edits, faults, cmd, target, outcome>>
  BY <1>1, OpensTyped
<1>7. TypeOK'
  <2>1. handle' \in [Proc -> 0 .. Len(data')] /\ removed' \subseteq 1 .. Len(data')
    BY <1>5, <1>6 DEF IInv, TypeOK
  <2> QED
    BY <1>5, <1>6, <2>1 DEF IInv, TypeOK
<1>8. FilesKept(p) /\ PathsKept
  BY <1>5 DEF FilesKept, PathsKept
<1>9. HandleOK(p)'
  BY <1>5, <1>6 DEF HandleOK, FileOf
<1>10. ProgressOK(p)'
  BY <1>3, <1>6, <1>9 DEF ProgressOK, RunOK
<1>11. \A i \in DOMAIN data' : i \in DOMAIN data \/ i = new
  BY <1>5
<1>12. data'[new].writers = {p} /\ data'[new].maker = p
  BY <1>5 DEF FileOf
<1> HIDE DEF new
<1>13. HasWriters'
  BY <1>5, <1>11, <1>12 DEF IInv, HasWriters
<1>14. OwnFilesOnly'
  BY <1>5, <1>6, <1>11, <1>12 DEF IInv, OwnFilesOnly
<1> QED
  BY <1>6, <1>7, <1>8, <1>10, <1>13, <1>14, FileStep

\* Process p has written to file i, which is its own or opened by force.
LEMMA RewrittenKeeps ==
  ASSUME IInv, NEW p \in Proc, NEW i \in DOMAIN data, cmd' = cmd, disk' = disk,
         NEW text \in Proc \cup {"user", "empty", "mixed"},
         NEW writers \in SUBSET (Proc \cup {User}), p \in writers,
         writers \subseteq data[i].writers \cup {p}, Rewritten(i, text, writers),
         ~cmd[p].dry, data[i].maker = p \/ cmd[p].force
  PROVE  FilesKept(p) /\ PathsKept /\ HasWriters' /\ OwnFilesOnly'
<1>1. data \in Seq(File)
  BY DEF IInv, TypeOK
<1>2. /\ DOMAIN data' = DOMAIN data
      /\ data'[i] = [maker |-> data[i].maker, text |-> text, writers |-> writers]
      /\ \A j \in DOMAIN data : j # i => data'[j] = data[j]
  BY <1>1, RewrittenTyped
<1>3. data'[i].maker = data[i].maker /\ data'[i].writers = writers
  BY <1>2
<1>4. FilesKept(p) /\ PathsKept
  BY <1>2, <1>3 DEF FilesKept, PathsKept
<1>5. HasWriters'
  <2>1. ASSUME NEW j \in DOMAIN data
        PROVE  data'[j].writers # {}
    <3>1. CASE j = i
      BY <1>3, <3>1
    <3>2. CASE j # i
      BY <1>2, <3>2 DEF IInv, HasWriters
    <3> QED
      BY <3>1, <3>2
  <2> QED
    BY <1>2, <2>1 DEF HasWriters
<1>6. OwnFilesOnly'
  <2>1. ASSUME NEW j \in DOMAIN data, NEW q \in Proc, q \in data'[j].writers
        PROVE  ~cmd[q].dry /\ (data'[j].maker = q \/ cmd[q].force)
    <3>1. CASE j # i \/ q # p
      BY <1>2, <1>3, <2>1, <3>1 DEF IInv, OwnFilesOnly
    <3>2. CASE j = i /\ q = p
      BY <1>3, <3>2
    <3> QED
      BY <3>1, <3>2
  <2> QED
    BY <1>2, <2>1 DEF OwnFilesOnly
<1> QED
  BY <1>4, <1>5, <1>6

LEMMA TruncateStep ==
  ASSUME IInv, NEW p \in Proc, run[p].pc = "create", Exists(target[p]), cmd[p].force,
         Truncate(p)
  PROVE  IInv'
<1> DEFINE i == disk[target[p]]
<1>1. Rewritten(i, "empty", {p}) /\ disk' = disk /\ Opens(p, i)
  BY DEF Truncate
<1>2. target[p] \in Path /\ disk \in [Path -> 0 .. Len(data)] /\ data \in Seq(File)
  BY DEF IInv, TypeOK, Progress, ProgressOK
<1>3. i # 0
  BY DEF Exists
<1>4. i \in DOMAIN data /\ i \in 0 .. Len(data)
  BY <1>2, <1>3, LenProperties
<1>5. /\ run' \in [Proc -> Run] /\ RunOK(run'[p]) /\ run'[p].pc = "fill"
      /\ handle' = [handle EXCEPT ![p] = i] /\ handle'[p] = i
      /\ ~cmd[p].dry /\ outcome'[p] # "written"
      /\ \A q \in Proc \ {p} : Stays(q)
      /\ UNCHANGED <<tree, touched, removed, index, edits, faults, cmd, target, outcome>>
  BY <1>1, OpensTyped
<1> HIDE DEF i
<1>6. /\ "empty" \in Proc \cup {"user", "empty", "mixed"}
      /\ {p} \in SUBSET (Proc \cup {User}) /\ {p} \subseteq data[i].writers \cup {p}
  OBVIOUS
<1>7. /\ data' \in Seq(File) /\ Len(data') = Len(data)
      /\ data'[i] = [maker |-> data[i].maker, text |-> "empty", writers |-> {p}]
  <2> DEFINE text == "empty"
             writers == {p}
  <2>1. /\ text \in Proc \cup {"user", "empty", "mixed"} /\ writers \in SUBSET (Proc \cup {User})
        /\ Rewritten(i, text, writers)
    BY <1>1, <1>6
  <2> HIDE DEF text, writers
  <2>2. /\ data' \in Seq(File) /\ Len(data') = Len(data)
        /\ data'[i] = [maker |-> data[i].maker, text |-> text, writers |-> writers]
    BY ZenonT(90), <1>2, <1>4, <2>1, RewrittenTyped
  <2> QED
    BY <2>2 DEF text, writers
<1>8. TypeOK'
  <2>1. handle' \in [Proc -> 0 .. Len(data)]
    BY <1>4, <1>5 DEF IInv, TypeOK
  <2> QED
    BY <1>1, <1>5, <1>7, <2>1 DEF IInv, TypeOK
<1>9. FilesKept(p) /\ PathsKept /\ HasWriters' /\ OwnFilesOnly'
  BY <1>1, <1>4, <1>5, <1>6, RewrittenKeeps
<1>10. HandleOK(p)'
  <2>1. data'[i].text = "empty"
    BY <1>7
  <2> QED
    BY <1>1, <1>3, <1>5, <2>1 DEF HandleOK, i
<1>11. ProgressOK(p)'
  BY <1>2, <1>5, <1>10 DEF ProgressOK, RunOK
<1> QED
  BY <1>5, <1>8, <1>9, <1>11, FileStep

LEMMA CreateStep ==
  ASSUME IInv, NEW p \in Proc, Create(p)
  PROVE  IInv'
<1>1. run[p].pc = "create"
  BY DEF Create, At
<1>2. CASE ~Exists(target[p]) /\ CreateNew(p)
  BY <1>1, <1>2, CreateNewStep
<1>3. CASE Exists(target[p]) /\ cmd[p].force /\ Truncate(p)
  BY <1>1, <1>3, TruncateStep
<1>4. CASE End(p, "exists") /\ UNCHANGED faults
  BY <1>1, <1>4, FailStep DEF Result
<1>5. CASE Fault(p, "write_error")
  BY <1>1, <1>5, FaultStep DEF Result
<1> QED
  BY <1>2, <1>3, <1>4, <1>5 DEF Create

LEMMA FilledStep ==
  ASSUME IInv, NEW p \in Proc, run[p].pc = "fill",
         NEW text \in Proc \cup {"user", "empty", "mixed"},
         NEW result \in {"written", "write_error"},
         result = "written" => text \in Written(p, data[handle[p]].text),
         Rewritten(handle[p], text, data[handle[p]].writers \cup {p}), faults' \in Nat,
         run' = [run EXCEPT ![p].pc = "done"], outcome' = [outcome EXCEPT ![p] = result],
         UNCHANGED <<tree, touched, disk, removed, index, edits, cmd, writerVars>>
  PROVE  IInv'
<1> DEFINE i == handle[p]
           writers == data[i].writers \cup {p}
           r == [run[p] EXCEPT !.pc = "done"]
<1>1. UNCHANGED <<tree, touched, disk, removed, index, edits, cmd, target, handle>>
  BY DEF writerVars
<1>2. /\ run[p] \in Run /\ RunOK(run[p]) /\ run \in [Proc -> Run]
      /\ HandleOK(p) /\ target[p] \in Path /\ ~cmd[p].dry
      /\ data \in Seq(File) /\ i \in 0 .. Len(data) /\ outcome \in [Proc -> Result]
  BY RunTyped DEF IInv, TypeOK, Progress, ProgressOK
<1>3. i \in DOMAIN data
  BY <1>2, LenProperties DEF HandleOK
<1>4. data[i] \in File
  BY <1>2, <1>3, ElementOfSeq, LenProperties
<1>5. writers \in SUBSET (Proc \cup {User})
  BY <1>4 DEF File
<1>6. run' = [run EXCEPT ![p] = r] /\ r \in Run /\ RunOK(r) /\ r.pc = "done"
  BY ZenonT(90), <1>2 DEF Run, Phases, RunOK
<1> HIDE DEF r
<1>7. /\ run' \in [Proc -> Run] /\ run'[p] = r
      /\ outcome' \in [Proc -> Result] /\ outcome'[p] = result
  BY <1>2, <1>6 DEF Result
<1>8. \A q \in Proc \ {p} : Stays(q)
  BY <1>1, <1>2, <1>6 DEF Stays
<1>9. /\ data' \in Seq(File) /\ Len(data') = Len(data)
      /\ data'[i] = [maker |-> data[i].maker, text |-> text, writers |-> writers]
  BY ZenonT(90), <1>2, <1>3, <1>5, RewrittenTyped
<1>10. TypeOK'
  BY <1>1, <1>7, <1>9 DEF IInv, TypeOK
<1>11. data[i].maker = p \/ cmd[p].force
  BY <1>2 DEF HandleOK
<1> HIDE DEF writers
<1>12. p \in writers /\ writers \subseteq data[i].writers \cup {p}
  BY DEF writers
<1>13. Rewritten(i, text, writers)
  BY DEF writers
<1>14. FilesKept(p) /\ PathsKept /\ HasWriters' /\ OwnFilesOnly'
  BY <1>1, <1>2, <1>3, <1>5, <1>11, <1>12, <1>13, RewrittenKeeps
<1>15. ProgressOK(p)'
  BY <1>1, <1>2, <1>6, <1>7 DEF ProgressOK, RunOK
<1>16. ASSUME result = "written"
       PROVE  ReportedOK(p)'
  <2>1. i # 0 /\ (disk'[target'[p]] = i \/ i \in removed') /\ handle'[p] = i
    BY <1>1, <1>2 DEF HandleOK
  <2>2. data'[i].text = text /\ data'[i].writers = writers
    BY <1>9
  <2>3. CASE data[i].text = "empty"
    BY <1>16, <2>1, <2>2, <2>3 DEF ReportedOK, Written
  <2>4. CASE data[i].writers # {p}
    <3>1. data[i].writers # {}
      BY <1>3 DEF IInv, HasWriters
    <3>2. writers # {p}
      BY <2>4, <3>1 DEF writers
    <3> QED
      BY <2>1, <2>2, <3>2 DEF ReportedOK
  <2> QED
    BY <1>2, <2>3, <2>4 DEF HandleOK
<1> QED
  BY <1>1, <1>7, <1>8, <1>10, <1>14, <1>15, <1>16, FileStep

LEMMA FillStep ==
  ASSUME IInv, NEW p \in Proc, Fill(p)
  PROVE  IInv'
<1> DEFINE writers == data[handle[p]].writers \cup {p}
<1>1. run[p].pc = "fill"
  BY DEF Fill, At
<1>2. ASSUME NEW text \in Written(p, data[handle[p]].text),
             Rewritten(handle[p], text, writers),
             run' = [run EXCEPT ![p].pc = "done"],
             outcome' = [outcome EXCEPT ![p] = "written"],
             UNCHANGED <<tree, touched, disk, removed, index, edits, faults, cmd, writerVars>>
      PROVE  IInv'
  <2>1. text \in Proc \cup {"user", "empty", "mixed"}
    BY DEF Written
  <2>2. faults' \in Nat
    BY <1>2 DEF IInv, TypeOK
  <2> QED
    BY <1>1, <1>2, <2>1, <2>2, FilledStep
<1>3. ASSUME faults' = faults + 1, Rewritten(handle[p], "mixed", writers),
             run' = [run EXCEPT ![p].pc = "done"],
             outcome' = [outcome EXCEPT ![p] = "write_error"],
             UNCHANGED <<tree, touched, disk, removed, index, edits, cmd, writerVars>>
      PROVE  IInv'
  <2>1. faults' \in Nat
    BY <1>3 DEF IInv, TypeOK
  <2> QED
    BY <1>1, <1>3, <2>1, FilledStep
<1> QED
  BY <1>2, <1>3 DEF Fill, CallFails
-----------------------------------------------------------------------------
(* Everything else that happens.                                             *)
LEMMA UserWritesStep ==
  ASSUME IInv, NEW path \in Path, UserWrites(path)
  PROVE  IInv'
<1>1. UNCHANGED <<tree, touched, removed, index, faults, cmd, run, target, handle, outcome>>
  BY DEF UserWrites, writerVars
<1>2. edits' \in Nat
  BY DEF UserWrites, Edits, IInv, TypeOK
<1>3. data \in Seq(File) /\ disk \in [Path -> 0 .. Len(data)]
  BY DEF IInv, TypeOK
<1>4. CASE Exists(path)
  <2> DEFINE i == disk[path]
  <2>1. Rewritten(i, "user", {User}) /\ disk' = disk
    BY <1>4 DEF UserWrites
  <2>2. i \in DOMAIN data
    BY <1>3, <1>4, LenProperties DEF Exists
  <2> HIDE DEF i
  <2>3. "user" \in Proc \cup {"user", "empty", "mixed"} /\ {User} \in SUBSET (Proc \cup {User})
    OBVIOUS
  <2>4. /\ data' \in Seq(File) /\ Len(data') = Len(data) /\ DOMAIN data' = DOMAIN data
        /\ data'[i] = [maker |-> data[i].maker, text |-> "user", writers |-> {User}]
        /\ \A j \in DOMAIN data : j # i => data'[j] = data[j]
    BY <1>3, <2>1, <2>2, <2>3, RewrittenTyped
  <2>5. TypeOK'
    BY <1>1, <1>2, <2>1, <2>4 DEF IInv, TypeOK
  <2>6. data'[i].maker = data[i].maker /\ data'[i].writers = {User}
    BY <2>4
  <2>7. FilesKept(User) /\ PathsKept
    BY <2>1, <2>4, <2>6 DEF FilesKept, PathsKept
  <2>8. ASSUME NEW j \in DOMAIN data'
        PROVE  (j \in DOMAIN data /\ data'[j] = data[j]) \/ data'[j].writers = {User}
    <3>1. CASE j = i
      BY <2>6, <3>1
    <3>2. CASE j # i
      BY <2>4, <3>2
    <3> QED
      BY <3>1, <3>2
  <2> QED
    BY <1>1, <2>5, <2>7, <2>8, UserStep
<1>5. CASE ~Exists(path)
  <2> DEFINE file == FileOf(User, "user")
             new == Len(data) + 1
  <2>1. data' = Append(data, file) /\ disk' = [disk EXCEPT ![path] = new]
    BY <1>5 DEF UserWrites
  <2>2. file \in File /\ file.writers = {User}
    BY DEF FileOf, File
  <2>3. disk[path] = 0
    BY <1>5 DEF Exists
  <2> HIDE DEF file
  <2>4. /\ data' \in Seq(File) /\ Len(data) \in Nat /\ Len(data') = Len(data) + 1
        /\ DOMAIN data = 1 .. Len(data) /\ DOMAIN data' = 1 .. Len(data) + 1
        /\ data'[new] = file /\ \A i \in DOMAIN data : data'[i] = data[i]
        /\ disk' \in [Path -> 0 .. Len(data')]
        /\ \A other \in Path : disk'[other] = disk[other] \/ disk[other] = 0
    BY <2>1, <2>2, <2>3, AppendedTyped
  <2>5. TypeOK'
    <3>1. handle' \in [Proc -> 0 .. Len(data')] /\ removed' \subseteq 1 .. Len(data')
      BY <1>1, <2>4 DEF IInv, TypeOK
    <3> QED
      BY <1>1, <1>2, <2>4, <3>1 DEF IInv, TypeOK
  <2>6. FilesKept(User) /\ PathsKept
    BY <2>4 DEF FilesKept, PathsKept
  <2>7. ASSUME NEW j \in DOMAIN data'
        PROVE  (j \in DOMAIN data /\ data'[j] = data[j]) \/ data'[j].writers = {User}
    <3>1. CASE j = new
      BY <2>2, <2>4, <3>1
    <3>2. CASE j # new
      BY <2>4, <3>2
    <3> QED
      BY <3>1, <3>2
  <2> QED
    BY <1>1, <2>5, <2>6, <2>7, UserStep
<1> QED
  BY <1>4, <1>5

LEMMA UserRemovesStep ==
  ASSUME IInv, NEW path \in Path, UserRemoves(path)
  PROVE  IInv'
<1>1. /\ UNCHANGED <<tree, touched, data, index, faults, cmd, run, target, handle, outcome>>
      /\ disk' = [disk EXCEPT ![path] = 0] /\ removed' = removed \cup {disk[path]}
      /\ disk[path] # 0
  BY DEF UserRemoves, writerVars, Exists
<1>2. /\ edits' \in Nat /\ disk \in [Path -> 0 .. Len(data)] /\ Len(data) \in Nat
      /\ removed \subseteq 1 .. Len(data)
  BY LenProperties DEF UserRemoves, Edits, IInv, TypeOK
<1>3. disk' \in [Path -> 0 .. Len(data)] /\ removed' \subseteq 1 .. Len(data)
  <2>1. disk[path] \in 1 .. Len(data)
    BY <1>1, <1>2
  <2>2. 0 \in 0 .. Len(data)
    BY <1>2
  <2>3. disk' \in [Path -> 0 .. Len(data)]
    BY <1>1, <1>2, <2>2
  <2> QED
    BY <1>1, <1>2, <2>1, <2>3
<1>4. TypeOK'
  BY <1>1, <1>2, <1>3 DEF IInv, TypeOK
<1>5. FilesKept(User) /\ PathsKept
  BY <1>1, <1>2 DEF FilesKept, PathsKept
<1>6. removed \subseteq removed'
  BY <1>1
<1> QED
  BY <1>1, <1>4, <1>5, <1>6, UserStep

\* The user does not touch files of the vault that renders write.
LEMMA ElsewhereStep ==
  ASSUME IInv, TypeOK',
         UNCHANGED <<disk, data, removed, cmd, run, target, handle, outcome>>
  PROVE  IInv'
<1>1. FilesKept(User) /\ PathsKept
  BY DEF FilesKept, PathsKept
<1> QED
  BY <1>1, UserStep

LEMMA WorldStep ==
  ASSUME IInv, World
  PROVE  IInv'
<1>1. ASSUME NEW path \in Path, UserWrites(path) \/ UserRemoves(path)
      PROVE  IInv'
  BY <1>1, UserWritesStep, UserRemovesStep
<1>2. ASSUME NEW d \in Directory, NEW f \in FileName, NEW e \in Entry \cup {NoEntry},
             UserEditsTemplate(d, f, e)
      PROVE  IInv'
  <2>1. UNCHANGED <<disk, data, removed, index, faults, cmd, run, target, handle, outcome>>
    BY <1>2 DEF UserEditsTemplate, writerVars
  <2>2. edits' \in Nat /\ tree' \in [Directory -> [FileName -> Entry \cup {NoEntry}]]
    BY <1>2 DEF UserEditsTemplate, Edits, IInv, TypeOK
  <2>3. TypeOK'
    BY <2>1, <2>2 DEF IInv, TypeOK
  <2> QED
    BY <2>1, <2>3, ElsewhereStep
<1>3. CASE IndexMoves
  <2>1. UNCHANGED <<tree, disk, data, removed, faults, cmd, run, target, handle, outcome>>
    BY <1>3 DEF IndexMoves, writerVars
  <2>2. edits' \in Nat /\ index' \in Nat
    BY <1>3 DEF IndexMoves, Edits, IInv, TypeOK
  <2>3. TypeOK'
    BY <2>1, <2>2 DEF IInv, TypeOK
  <2> QED
    BY <2>1, <2>3, ElsewhereStep
<1> QED
  BY <1>1, <1>2, <1>3 DEF World
-----------------------------------------------------------------------------
(* The theorems.                                                             *)
LEMMA TemplateInit == Init => IInv
<1> SUFFICES ASSUME Init PROVE IInv
  OBVIOUS
<1> DEFINE n == Len(InitialFiles)
           user == FileOf(User, "user")
<1>1. InitialFiles \in Seq(Path) /\ n \in Nat
  BY TemplateAssumption, LenProperties
<1>2. user \in File /\ user.writers = {User}
  BY DEF FileOf, File
<1>3. data = [i \in 1 .. n |-> user]
  BY DEF Init
<1> HIDE DEF user
<1>4. data \in Seq(File) /\ Len(data) = n /\ DOMAIN data = 1 .. n
  <2>1. data \in [1 .. n -> File]
    BY <1>2, <1>3
  <2> QED
    BY <1>1, <2>1, IsASeq, LenProperties
<1>5. disk \in [Path -> 0 .. n]
  <2>1. ASSUME NEW q \in Path, \E i \in 1 .. n : InitialFiles[i] = q
        PROVE  (CHOOSE i \in 1 .. n : InitialFiles[i] = q) \in 0 .. n
    <3>1. (CHOOSE i \in 1 .. n : InitialFiles[i] = q) \in 1 .. n
      BY <2>1
    <3> QED
      BY <1>1, <3>1
  <2>2. 0 \in 0 .. n
    BY <1>1
  <2> DEFINE start(q) == IF \E i \in 1 .. n : InitialFiles[i] = q
                         THEN CHOOSE i \in 1 .. n : InitialFiles[i] = q ELSE 0
  <2>3. \A q \in Path : start(q) \in 0 .. n
    BY <2>1, <2>2
  <2>4. disk = [q \in Path |-> start(q)]
    BY DEF Init
  <2> HIDE DEF start
  <2> QED
    BY <2>3, <2>4
<1>6. run \in [Proc -> Run] /\ \A p \in Proc : RunOK(run[p]) /\ run[p].pc \in {"list", "build"}
  <2>1. ASSUME NEW p \in Proc
        PROVE  FreshRun(cmd[p]) \in Run /\ RunOK(FreshRun(cmd[p]))
               /\ FreshRun(cmd[p]).pc \in {"list", "build"}
    <3>1. cmd[p].name \in Name /\ cmd[p].texts \in Seq(Text)
      <4>1. cmd \in [Proc -> [name : Name, requested : Text \cup {NoText},
                             force : BOOLEAN, dry : BOOLEAN, texts : Seq(Text),
                             provider : {"terminal", "preset"}]]
        BY TemplateAssumption DEF Init
      <4> QED
        BY <4>1
    <3>2. 1 \in Directory /\ Refused \in Text /\ <<>> \in Seq(Frame)
      BY TemplateAssumption, EmptySeq DEF Text
    <3> QED
      BY <3>1, <3>2 DEF FreshRun, Run, Phases, RunOK
  <2> QED
    BY <2>1 DEF Init
<1>7. TypeOK
  <2>1. tree \in [Directory -> [FileName -> Entry \cup {NoEntry}]]
    BY TemplateAssumption DEF Init
  <2>2. outcome \in [Proc -> Result]
    BY DEF Init, Result
  <2>3. handle \in [Proc -> 0 .. n] /\ target \in [Proc -> Path \cup {NoText}]
    BY <1>1 DEF Init
  <2> QED
    BY <1>4, <1>5, <1>6, <2>1, <2>2, <2>3 DEF Init, TypeOK
<1>8. \A p \in Proc : outcome[p] # "written"
  BY DEF Init
<1>9. Progress
  BY <1>6, <1>8 DEF Progress, ProgressOK
<1>10. \A i \in DOMAIN data : data[i].writers = {User}
  BY <1>2, <1>3
<1>11. HasWriters /\ OwnFilesOnly
  BY ZenonT(90), <1>10, TemplateAssumption DEF HasWriters, OwnFilesOnly
<1> QED
  BY <1>7, <1>8, <1>9, <1>11 DEF IInv, ReportedIsThere

LEMMA TemplateNext == IInv /\ [Next]_vars => IInv'
<1> SUFFICES ASSUME IInv, [Next]_vars PROVE IInv'
  OBVIOUS
<1>1. CASE World
  BY <1>1, WorldStep
<1>2. ASSUME NEW p \in Proc, Runs(p)
      PROVE  IInv'
  <2>1. CASE List(p) \/ Choose(p) \/ Build(p) \/ FindPathIn(p) \/ FindNameIn(p) \/ ReadTemplate(p)
    BY <2>1, ListStep, ChooseStep, BuildStep, FindPathInStep, FindNameInStep, ReadTemplateStep
  <2>2. CASE WriteTo(p) \/ Ask(p) \/ TextInput(p) \/ Query(p) \/ FileInclude(p) \/ Include(p)
    BY <2>2, WriteToStep, AskStep, TextInputStep, QueryStep, FileIncludeStep, IncludeStep
  <2>3. CASE Leave(p) \/ Resolve(p) \/ Prompt(p) \/ Create(p) \/ Fill(p)
    BY <2>3, LeaveStep, ResolveStep, PromptStep, CreateStep, FillStep
  <2> QED
    BY <1>2, <2>1, <2>2, <2>3 DEF Runs
<1>3. ASSUME NEW p \in Proc, Cancel(p) \/ Kill(p)
      PROVE  IInv'
  BY <1>3, CancelStep, KillStep
<1>4. CASE UNCHANGED vars
  <2>1. UNCHANGED <<tree, touched, disk, data, removed, index, edits, faults,
                    cmd, run, target, handle, outcome>>
    BY <1>4 DEF vars, worldVars, writerVars
  <2>2. TypeOK'
    BY <2>1 DEF IInv, TypeOK
  <2> QED
    BY <2>1, <2>2, ElsewhereStep
<1> QED
  BY <1>1, <1>2, <1>3, <1>4 DEF Next

\* The invariant of all renders and of whoever edits beside them.
THEOREM TemplateInductive == Spec => []IInv
<1> QED
  BY TemplateInit, TemplateNext, PTL DEF Spec

\* Every variable keeps its type: files are numbered as they are made, and a
\* search stays within its directories and a render within its frames.
THEOREM TemplateTypeCorrect == Spec => []TypeOK
<1>1. IInv => TypeOK
  BY DEF IInv
<1> QED
  BY <1>1, TemplateInductive, PTL

\* However many renders race for one path: without --force none has written
\* to a file it did not make, and a dry run to none (CommitPolicy::create_file).
THEOREM RendersLeaveOthersAlone == Spec => []OwnFilesOnly
<1>1. IInv => OwnFilesOnly
  BY DEF IInv
<1> QED
  BY <1>1, TemplateInductive, PTL

\* What a render reports as written is all there and at its path, unless
\* another wrote the same file or the user removed it (WriteOutcome::Written).
THEOREM ReportedStaysThere == Spec => []ReportedIsThere
<1>1. IInv => ReportedIsThere
  BY DEF IInv
<1> QED
  BY <1>1, TemplateInductive, PTL
-----------------------------------------------------------------------------
(* The search. What a file that nobody edited answers to does not change:    *)
(* edits only take from Stands. So what a search has passed stays passed.    *)
Passed(d, name) == \A f \in FileName : ~Stands(d, f, name)

FoundRightly(u) ==
  \A d \in Directory, f \in FileName :
    d <= u.dir /\ d \notin u.unseen /\ Stands(d, f, u.asked)
      => d = u.dir /\ (f = u.file \/ u.file = u.asked)

\* Directories before the one being searched were passed, with or without a
\* look; the stem is searched for a name without an extension; and what is
\* about to be read is the hit.
Searching(r) ==
  /\ r.pc \in {"list", "choose", "build"} => r.dir = 1
  /\ r.pc \in {"find_path", "find_name", "read"} =>
       \A d \in Directory : d < r.dir => d \in r.unseen \/ Passed(d, r.asked)
  /\ r.pc = "find_name" => ~HasExtension(r.asked)
  /\ r.pc = "read" => FoundRightly([asked |-> r.asked, dir |-> r.dir,
                                    unseen |-> r.unseen, file |-> r.file])

Searched(r) ==
  /\ \A u \in r.used : FoundRightly(u)
  /\ \A m \in r.missed : \A d \in Directory : d \in m.unseen \/ Passed(d, m.asked)

\* All its queries ran against what it has cached.
Snapshot(r) == r.seen \subseteq {r.cached} /\ (r.cached = 0 => r.seen = {})

SearchInv ==
  /\ index # 0
  /\ \A p \in Proc : Searching(run[p]) /\ Searched(run[p]) /\ Snapshot(run[p])

\* An edit of a template touches it, so that no file begins to stand.
LEMMA EditsTakeAway ==
  ASSUME IInv, World, NEW d \in Directory, NEW f \in FileName, NEW name,
         Stands(d, f, name)'
  PROVE  Stands(d, f, name)
<1>1. CASE UNCHANGED <<tree, touched>>
  BY <1>1 DEF Stands
<1>2. ASSUME NEW b \in Directory, NEW g \in FileName, NEW e \in Entry \cup {NoEntry},
             UserEditsTemplate(b, g, e)
      PROVE  Stands(d, f, name)
  <2>1. <<b, g>> # <<d, f>>
    BY <1>2 DEF UserEditsTemplate, Stands
  <2>2. tree'[d][f] = tree[d][f] /\ (<<d, f>> \notin touched' => <<d, f>> \notin touched)
    BY <1>2, <2>1 DEF UserEditsTemplate, IInv, TypeOK
  <2> QED
    BY <2>2 DEF Stands, IsFile
<1> QED
  BY <1>1, <1>2 DEF World, UserWrites, UserRemoves, IndexMoves

LEMMA WorldSearch ==
  ASSUME IInv, SearchInv, World
  PROVE  SearchInv'
<1>1. run' = run /\ index' # 0
  BY DEF World, UserWrites, UserRemoves, UserEditsTemplate, IndexMoves, SearchInv, IInv, TypeOK
<1>2. ASSUME NEW d \in Directory, NEW name, Passed(d, name)
      PROVE  Passed(d, name)'
  BY <1>2, EditsTakeAway DEF Passed
<1>3. ASSUME NEW u, FoundRightly(u)
      PROVE  FoundRightly(u)'
  BY <1>3, EditsTakeAway DEF FoundRightly
<1>4. SUFFICES ASSUME NEW p \in Proc
               PROVE  Searching(run[p])' /\ Searched(run[p])' /\ Snapshot(run[p])'
  BY <1>1 DEF SearchInv
<1>5. run[p] \in Run /\ Searching(run[p]) /\ Searched(run[p]) /\ Snapshot(run[p])
  BY RunTyped DEF SearchInv
<1>6. Searching(run[p])'
  BY <1>1, <1>2, <1>3, <1>5 DEF Searching
<1>7. Searched(run[p])'
  BY <1>1, <1>2, <1>3, <1>5 DEF Searched
<1>8. Snapshot(run[p])'
  BY <1>1, <1>5 DEF Snapshot
<1> QED
  BY <1>6, <1>7, <1>8

\* A step of one process leaves the templates and the others' searches alone.
LEMMA OneSearches ==
  ASSUME IInv, SearchInv, NEW p \in Proc, NEW r,
         Searching(r), Searched(r), Snapshot(r),
         run' = [run EXCEPT ![p] = r], UNCHANGED <<tree, touched, index>>
  PROVE  SearchInv'
<1>1. run'[p] = r /\ \A q \in Proc : q # p => run'[q] = run[q]
  BY RunTyped
<1>2. ASSUME NEW q \in Proc
      PROVE  (Searching(run[q]) /\ Searched(run[q]) /\ Snapshot(run[q]))'
  <2>1. CASE q = p
    BY <1>1, <2>1 DEF Searching, Searched, Snapshot, FoundRightly, Passed, Stands
  <2>2. CASE q # p
    <3>1. Searching(run[q]) /\ Searched(run[q]) /\ Snapshot(run[q])
      BY DEF SearchInv
    <3> QED
      BY <1>1, <2>2, <3>1 DEF Searching, Searched, Snapshot, FoundRightly, Passed, Stands
  <2> QED
    BY <2>1, <2>2
<1>3. index' # 0
  BY DEF SearchInv
<1> QED
  BY <1>2, <1>3 DEF SearchInv

\* The phases of a render in which nothing is searched for.
Quiet == Phases \ {"list", "choose", "build", "find_path", "find_name", "read"}

LEMMA QuietStep ==
  ASSUME IInv, SearchInv, NEW p \in Proc, NEW r, r.pc \in Quiet,
         r.used = run[p].used, r.missed = run[p].missed,
         r.cached = run[p].cached, r.seen = run[p].seen,
         run' = [run EXCEPT ![p] = r], UNCHANGED <<tree, touched, index>>
  PROVE  SearchInv'
<1>1. Searching(r)
  BY DEF Searching, Quiet
<1>2. Searched(r) /\ Snapshot(r)
  BY DEF SearchInv, Searched, Snapshot
<1> QED
  BY <1>1, <1>2, OneSearches

LEMMA EndSearch ==
  ASSUME IInv, SearchInv, NEW p \in Proc, NEW result, End(p, result)
  PROVE  SearchInv'
<1> DEFINE r == [run[p] EXCEPT !.pc = "done"]
<1>1. run[p] \in Run
  BY RunTyped
<1>2. run' = [run EXCEPT ![p] = r]
  BY DEF End
<1>3. /\ r.pc \in Quiet /\ r.used = run[p].used /\ r.missed = run[p].missed
      /\ r.cached = run[p].cached /\ r.seen = run[p].seen
  BY <1>1 DEF Run, Quiet, Phases
<1>4. UNCHANGED <<tree, touched, index>>
  BY DEF End, worldVars
<1> HIDE DEF r
<1> QED
  BY <1>2, <1>3, <1>4, QuietStep

LEMMA FineWorld ==
  ASSUME Fine \/ GoesOn
  PROVE  UNCHANGED <<tree, touched, index>>
  BY DEF Fine, GoesOn, worldVars

LEMMA MissingSearch ==
  ASSUME IInv, SearchInv, NEW p \in Proc, NEW unseen, Missing(p, unseen),
         \A d \in Directory : d \in unseen \/ Passed(d, run[p].asked)
  PROVE  SearchInv'
<1> DEFINE missed == run[p].missed \cup {[asked |-> run[p].asked, unseen |-> unseen]}
           a == [run[p] EXCEPT !.pc = "render", !.missed = missed, !.frames = Advanced(@)]
           b == [run[p] EXCEPT !.pc = "done", !.missed = missed]
<1>1. run[p] \in Run /\ Searched(run[p]) /\ Snapshot(run[p])
  BY RunTyped DEF SearchInv
<1>2. PICK r \in {a, b} : run' = [run EXCEPT ![p] = r]
  BY DEF Missing
<1>3. UNCHANGED <<tree, touched, index>>
  BY DEF Missing, GoesOn, worldVars
<1>4. /\ r.pc \in Quiet /\ r.used = run[p].used /\ r.missed = missed
      /\ r.cached = run[p].cached /\ r.seen = run[p].seen
  BY ZenonT(90), <1>1 DEF Run, Quiet, Phases
<1> HIDE DEF a, b
<1>5. Searching(r) /\ Snapshot(r)
  BY <1>1, <1>4 DEF Searching, Quiet, Snapshot
<1>6. Searched(r)
  BY <1>1, <1>4 DEF Searched
<1> QED
  BY <1>2, <1>3, <1>5, <1>6, OneSearches

LEMMA NextDirectorySearch ==
  ASSUME IInv, SearchInv, NEW p \in Proc, NEW unseen, NextDirectory(p, unseen),
         \A d \in Directory : d <= run[p].dir => d \in unseen \/ Passed(d, run[p].asked)
  PROVE  SearchInv'
<1>1. run[p] \in Run /\ Searched(run[p]) /\ Snapshot(run[p]) /\ run[p].dir \in Nat
  BY RunTyped, TemplateAssumption DEF SearchInv, Run
<1>2. CASE run[p].dir + 1 \in Directory
  <2> DEFINE r == [run[p] EXCEPT !.pc = "find_path", !.dir = @ + 1, !.unseen = unseen]
  <2>1. run' = [run EXCEPT ![p] = r] /\ UNCHANGED <<tree, touched, index>>
    BY <1>2, FineWorld DEF NextDirectory
  <2>2. /\ r.pc = "find_path" /\ r.dir = run[p].dir + 1 /\ r.asked = run[p].asked
        /\ r.unseen = unseen
        /\ r.used = run[p].used /\ r.missed = run[p].missed
        /\ r.cached = run[p].cached /\ r.seen = run[p].seen
    BY <1>1 DEF Run
  <2> HIDE DEF r
  <2>3. \A d \in Directory : d < r.dir => d <= run[p].dir
    BY <1>1, <2>2, TemplateAssumption
  <2>4. Searching(r) /\ Searched(r) /\ Snapshot(r)
    BY <1>1, <2>2, <2>3 DEF Searching, Searched, Snapshot
  <2> QED
    BY <2>1, <2>4, OneSearches
<1>3. CASE run[p].dir + 1 \notin Directory
  <2>1. \A d \in Directory : d \in Nat /\ 1 .. d \subseteq Directory
    BY TemplateAssumption
  <2>2. ASSUME NEW d \in Directory, ~(d <= run[p].dir)
        PROVE  FALSE
    <3>1. d \in Nat /\ run[p].dir + 1 \in 1 .. d
      BY <1>1, <2>1, <2>2
    <3> QED
      BY <1>3, <2>1, <3>1
  <2> QED
    BY <1>3, <2>2, MissingSearch DEF NextDirectory
<1> QED
  BY <1>2, <1>3

LEMMA FoundSearch ==
  ASSUME IInv, SearchInv, NEW p \in Proc, NEW f, Found(p, f),
         FoundRightly([asked |-> run[p].asked, dir |-> run[p].dir,
                       unseen |-> run[p].unseen, file |-> f]),
         \A d \in Directory : d < run[p].dir => d \in run[p].unseen \/ Passed(d, run[p].asked)
  PROVE  SearchInv'
<1> DEFINE r == [run[p] EXCEPT !.pc = "read", !.file = f]
<1>1. run[p] \in Run /\ Searched(run[p]) /\ Snapshot(run[p])
  BY RunTyped DEF SearchInv
<1>2. run' = [run EXCEPT ![p] = r] /\ UNCHANGED <<tree, touched, index>>
  BY FineWorld DEF Found
<1>3. /\ r.pc = "read" /\ r.file = f /\ r.dir = run[p].dir /\ r.asked = run[p].asked
      /\ r.unseen = run[p].unseen
      /\ r.used = run[p].used /\ r.missed = run[p].missed
      /\ r.cached = run[p].cached /\ r.seen = run[p].seen
  BY <1>1 DEF Run
<1> HIDE DEF r
<1>4. Searching(r) /\ Searched(r) /\ Snapshot(r)
  BY <1>1, <1>3 DEF Searching, Searched, Snapshot
<1> QED
  BY <1>2, <1>4, OneSearches

\* No file of that path, or this directory is passed without a look.
LEMMA NotByPathSearch ==
  ASSUME IInv, SearchInv, NEW p \in Proc, run[p].pc = "find_path", NEW unseen,
         run[p].unseen \subseteq unseen, NotByPath(p, unseen),
         HasExtension(run[p].asked)
           => run[p].dir \in unseen \/ Passed(run[p].dir, run[p].asked)
  PROVE  SearchInv'
<1> DEFINE name == run[p].asked
           dir == run[p].dir
<1>1. /\ run[p] \in Run /\ dir \in Directory /\ dir \in Nat /\ Searched(run[p]) /\ Snapshot(run[p])
      /\ \A d \in Directory : d < dir => d \in run[p].unseen \/ Passed(d, name)
  BY RunTyped, TemplateAssumption DEF SearchInv, Run, Searching
<1>2. CASE HasExtension(name)
  <2>1. ASSUME NEW d \in Directory, d <= dir
        PROVE  d \in unseen \/ Passed(d, name)
    <3>1. d \in Nat /\ (d = dir \/ d < dir)
      BY <1>1, <2>1, TemplateAssumption
    <3> QED
      BY <1>1, <1>2, <3>1
  <2> QED
    BY <1>2, <2>1, NextDirectorySearch DEF NotByPath
<1>3. CASE ~HasExtension(name)
  <2> DEFINE r == [run[p] EXCEPT !.pc = "find_name"]
  <2>1. run' = [run EXCEPT ![p] = r] /\ UNCHANGED <<tree, touched, index>>
    BY <1>3, FineWorld DEF NotByPath
  <2>2. /\ r.pc = "find_name" /\ r.dir = dir /\ r.asked = name /\ r.unseen = run[p].unseen
        /\ r.used = run[p].used /\ r.missed = run[p].missed
        /\ r.cached = run[p].cached /\ r.seen = run[p].seen
    BY <1>1 DEF Run
  <2> HIDE DEF r
  <2>3. Searching(r) /\ Searched(r) /\ Snapshot(r)
    BY <1>1, <1>3, <2>2 DEF Searching, Searched, Snapshot
  <2> QED
    BY <2>1, <2>3, OneSearches
<1> QED
  BY <1>2, <1>3

\* The name as a path.
LEMMA FindPathSearch ==
  ASSUME IInv, SearchInv, NEW p \in Proc, FindPathIn(p)
  PROVE  SearchInv'
<1> DEFINE name == run[p].asked
           dir == run[p].dir
           exists == name \in FileName /\ IsFile(tree[dir], name)
<1>1. /\ run[p].pc = "find_path"
      /\ \A d \in Directory : d < dir => d \in run[p].unseen \/ Passed(d, name)
  BY DEF SearchInv, FindPathIn, At, Searching
<1>2. CASE exists /\ Found(p, name)
  <2>1. dir \in Directory /\ dir \in Nat
    BY RunTyped, TemplateAssumption DEF Run
  <2>2. FoundRightly([asked |-> name, dir |-> dir, unseen |-> run[p].unseen, file |-> name])
    BY <1>1, <2>1, TemplateAssumption DEF FoundRightly, Passed
  <2> QED
    BY <1>1, <1>2, <2>2, FoundSearch
<1>3. CASE ~exists /\ NotByPath(p, run[p].unseen)
  <2>1. HasExtension(name) => Passed(dir, name)
    BY <1>3 DEF Passed, Stands
  <2> QED
    BY <1>1, <1>3, <2>1, NotByPathSearch
<1>4. CASE NotByPath(p, run[p].unseen \cup {dir})
  BY <1>1, <1>4, NotByPathSearch
<1> QED
  BY <1>2, <1>3, <1>4 DEF FindPathIn

LEMMA FindNameSearch ==
  ASSUME IInv, SearchInv, NEW p \in Proc, FindNameIn(p)
  PROVE  SearchInv'
<1> DEFINE name == run[p].asked
           dir == run[p].dir
           hits == Hits(tree[dir], name)
<1>1. /\ run[p] \in Run /\ dir \in Directory /\ dir \in Nat /\ ~HasExtension(name)
      /\ \A d \in Directory : d < dir => d \in run[p].unseen \/ Passed(d, name)
  BY RunTyped, TemplateAssumption DEF SearchInv, Run, FindNameIn, At, Searching
<1>2. \A f \in FileName : Stands(dir, f, name) => f \in hits
  BY <1>1 DEF Stands, Hits, Stem
<1>3. CASE hits = {} /\ NextDirectory(p, run[p].unseen)
  <2>1. Passed(dir, name)
    BY <1>2, <1>3 DEF Passed
  <2>2. ASSUME NEW d \in Directory, d <= dir
        PROVE  d \in run[p].unseen \/ Passed(d, name)
    <3>1. d \in Nat /\ (d = dir \/ d < dir)
      BY <1>1, <2>2, TemplateAssumption
    <3> QED
      BY <1>1, <2>1, <3>1
  <2> QED
    BY <1>3, <2>2, NextDirectorySearch
<1>4. ASSUME NEW f \in hits, hits = {f}, Found(p, f)
      PROVE  SearchInv'
  <2>1. FoundRightly([asked |-> name, dir |-> dir, unseen |-> run[p].unseen, file |-> f])
    BY <1>1, <1>2, <1>4, TemplateAssumption DEF FoundRightly, Passed
  <2> QED
    BY <1>1, <1>4, <2>1, FoundSearch
<1>5. CASE SearchFails(p)
  BY <1>5, EndSearch DEF SearchFails
<1>6. CASE Fault(p, IF IsInclude(p) THEN "render_error" ELSE "resolve_error")
  BY <1>6, EndSearch DEF Fault
<1> QED
  BY <1>3, <1>4, <1>5, <1>6 DEF FindNameIn

LEMMA EnterSearch ==
  ASSUME IInv, SearchInv, NEW p \in Proc, run[p].pc = "read", NEW program,
         Enter(p, program), Fine
  PROVE  SearchInv'
<1> DEFINE u == [asked |-> run[p].asked, dir |-> run[p].dir,
                 unseen |-> run[p].unseen, file |-> run[p].file]
<1>1. run[p] \in Run /\ run \in [Proc -> Run]
      /\ FoundRightly(u) /\ Searched(run[p]) /\ Snapshot(run[p])
  BY RunTyped DEF SearchInv, Searching
<1>2. run' = [run EXCEPT ![p] = run'[p]]
  BY ZenonT(90), <1>1 DEF Enter
<1>3. /\ run'[p].pc = "render" /\ run'[p].used = run[p].used \cup {u}
      /\ run'[p].missed = run[p].missed
      /\ run'[p].cached = run[p].cached /\ run'[p].seen = run[p].seen
  BY <1>1 DEF Enter, Run
<1> HIDE DEF u
<1>4. Searching(run'[p]) /\ Searched(run'[p]) /\ Snapshot(run'[p])
  BY <1>1, <1>3 DEF Searching, Searched, Snapshot
<1>5. UNCHANGED <<tree, touched, index>>
  BY FineWorld
<1> QED
  BY <1>2, <1>4, <1>5, OneSearches

\* Until the search begins, it is at the first directory.
LEMMA BeforeSearch ==
  ASSUME IInv, SearchInv, NEW p \in Proc, run' = [run EXCEPT ![p] = run'[p]], GoesOn,
         run[p].pc \in {"list", "choose", "build"},
         run'[p].pc \in {"choose", "build", "find_path"},
         run'[p].dir = run[p].dir, run'[p].used = run[p].used,
         run'[p].missed = run[p].missed,
         run'[p].cached = run[p].cached, run'[p].seen = run[p].seen
  PROVE  SearchInv'
<1>1. run'[p].dir = 1 /\ Searched(run[p]) /\ Snapshot(run[p])
  BY DEF SearchInv, Searching
<1>2. \A d \in Directory : ~(d < 1)
  BY TemplateAssumption
<1>3. Searching(run'[p]) /\ Searched(run'[p]) /\ Snapshot(run'[p])
  BY <1>1, <1>2 DEF Searching, Searched, Snapshot
<1> QED
  BY <1>3, FineWorld, OneSearches

LEMMA StartSearch ==
  ASSUME IInv, SearchInv, NEW p \in Proc, List(p) \/ Choose(p) \/ Build(p)
  PROVE  SearchInv'
<1>1. run[p] \in Run /\ run \in [Proc -> Run]
  BY RunTyped
<1>2. CASE \E result : End(p, result)
  BY <1>2, EndSearch
<1>3. CASE List(p)
  <2>1. ASSUME NEW offered, GoesOn,
               run' = [run EXCEPT ![p].pc = "choose", ![p].offered = offered]
        PROVE  SearchInv'
    <3>1. run[p].pc = "list" /\ run' = [run EXCEPT ![p] = run'[p]]
      BY <1>1, <1>3, <2>1 DEF List, At
    <3>2. /\ run'[p].pc = "choose" /\ run'[p].dir = run[p].dir
          /\ run'[p].used = run[p].used /\ run'[p].missed = run[p].missed
          /\ run'[p].cached = run[p].cached /\ run'[p].seen = run[p].seen
      BY <1>1, <2>1 DEF Run
    <3> QED
      BY <2>1, <3>1, <3>2, BeforeSearch
  <2> QED
    BY <1>2, <1>3, <2>1 DEF List, Offers
<1>4. CASE Choose(p)
  <2>1. PICK name : run' = [run EXCEPT ![p].pc = "build", ![p].asked = name, ![p].offered = {}]
    BY <1>4 DEF Choose
  <2>2. run[p].pc = "choose" /\ GoesOn
    BY <1>4 DEF Choose, At, Fine
  <2>3. run' = [run EXCEPT ![p] = run'[p]]
    BY <1>1, <2>1
  <2>4. /\ run'[p].pc = "build" /\ run'[p].dir = run[p].dir
        /\ run'[p].used = run[p].used /\ run'[p].missed = run[p].missed
        /\ run'[p].cached = run[p].cached /\ run'[p].seen = run[p].seen
    BY <1>1, <2>1 DEF Run
  <2> QED
    BY <2>2, <2>3, <2>4, BeforeSearch
<1>5. CASE Build(p)
  <2>1. CASE GoesOn /\ run' = [run EXCEPT ![p].pc = "find_path"]
    <3>1. run[p].pc = "build" /\ run' = [run EXCEPT ![p] = run'[p]]
      BY <1>1, <1>5, <2>1 DEF Build, At
    <3>2. /\ run'[p].pc = "find_path" /\ run'[p].dir = run[p].dir
          /\ run'[p].used = run[p].used /\ run'[p].missed = run[p].missed
          /\ run'[p].cached = run[p].cached /\ run'[p].seen = run[p].seen
      BY <1>1, <2>1 DEF Run
    <3> QED
      BY <2>1, <3>1, <3>2, BeforeSearch
  <2> QED
    BY <1>2, <1>5, <2>1 DEF Build, Fault, Fine
<1> QED
  BY <1>3, <1>4, <1>5

\* A search for an include begins, in the first directory again.
LEMMA AskedSearch ==
  ASSUME IInv, SearchInv, NEW p \in Proc, NEW name, Fine,
         run' = [run EXCEPT ![p].pc = "find_path", ![p].asked = name, ![p].dir = 1,
                            ![p].unseen = {}]
  PROVE  SearchInv'
<1> DEFINE r == [run[p] EXCEPT !.pc = "find_path", !.asked = name, !.dir = 1, !.unseen = {}]
<1>1. run[p] \in Run /\ run \in [Proc -> Run] /\ Searched(run[p]) /\ Snapshot(run[p])
  BY RunTyped DEF SearchInv
<1>2. run' = [run EXCEPT ![p] = r]
  BY <1>1
<1>3. /\ r.pc = "find_path" /\ r.dir = 1 /\ r.used = run[p].used
      /\ r.missed = run[p].missed /\ r.cached = run[p].cached /\ r.seen = run[p].seen
  BY <1>1 DEF Run
<1> HIDE DEF r
<1>4. \A d \in Directory : ~(d < 1)
  BY TemplateAssumption
<1>5. Searching(r) /\ Searched(r) /\ Snapshot(r)
  BY <1>1, <1>3, <1>4 DEF Searching, Searched, Snapshot
<1> QED
  BY <1>2, <1>5, FineWorld, OneSearches

\* Only this process moves, and it neither searches nor queries.
LEMMA QuietMove ==
  ASSUME IInv, SearchInv, NEW p \in Proc, run' = [run EXCEPT ![p] = run'[p]],
         run'[p].pc \in Quiet, run'[p].used = run[p].used, run'[p].missed = run[p].missed,
         run'[p].cached = run[p].cached, run'[p].seen = run[p].seen,
         UNCHANGED <<tree, touched, index>>
  PROVE  SearchInv'
  BY QuietStep

\* The file that was found, whatever it is by now.
LEMMA ReadSearch ==
  ASSUME IInv, SearchInv, NEW p \in Proc, ReadTemplate(p)
  PROVE  SearchInv'
<1>1. run[p] \in Run /\ run \in [Proc -> Run] /\ run[p].pc = "read"
  BY RunTyped DEF ReadTemplate, At
<1>2. ASSUME NEW program, Enter(p, program), Fine
      PROVE  SearchInv'
  BY <1>1, <1>2, EnterSearch
<1>3. CASE \E result : End(p, result)
  BY <1>3, EndSearch
<1>4. CASE Fine /\ run' = [run EXCEPT ![p].pc = "render", ![p].dir = 1,
                                     ![p].frames = Advanced(@)]
  <2>1. run' = [run EXCEPT ![p] = run'[p]]
    BY <1>1, <1>4
  <2>2. /\ run'[p].pc \in Quiet /\ run'[p].used = run[p].used
        /\ run'[p].missed = run[p].missed
        /\ run'[p].cached = run[p].cached /\ run'[p].seen = run[p].seen
    BY <1>1, <1>4 DEF Run, Quiet, Phases
  <2> QED
    BY <1>4, <2>1, <2>2, FineWorld, QuietMove
<1> QED
  BY <1>2, <1>3, <1>4 DEF ReadTemplate, RenderFails, Fault

\* Rendering, but for queries and includes.
LEMMA RenderSearch ==
  ASSUME IInv, SearchInv, NEW p \in Proc,
         WriteTo(p) \/ Ask(p) \/ TextInput(p) \/ FileInclude(p) \/ Leave(p)
  PROVE  SearchInv'
<1>1. run[p] \in Run /\ run \in [Proc -> Run] /\ run[p].pc \in {"render", "ask"}
  BY RunTyped DEF WriteTo, Ask, TextInput, FileInclude, Leave, Executes, At
<1>2. CASE \E result : End(p, result)
  BY <1>2, EndSearch
<1>3. ASSUME Fine, run' = [run EXCEPT ![p] = run'[p]],
             run'[p].pc \in {"render", "ask", "write"},
             run'[p].used = run[p].used, run'[p].missed = run[p].missed,
             run'[p].cached = run[p].cached, run'[p].seen = run[p].seen
      PROVE  SearchInv'
  <2>1. run'[p].pc \in Quiet
    BY <1>3 DEF Quiet, Phases
  <2> QED
    BY <1>3, <2>1, FineWorld, QuietMove
<1>4. ASSUME NEW frames, NEW declared, run[p].pc = "render", Fine,
             run' = [run EXCEPT ![p].declared = declared, ![p].frames = frames]
      PROVE  SearchInv'
  <2>1. run' = [run EXCEPT ![p] = run'[p]]
    BY <1>1, <1>4
  <2>2. /\ run'[p].pc = "render" /\ run'[p].used = run[p].used
        /\ run'[p].missed = run[p].missed
        /\ run'[p].cached = run[p].cached /\ run'[p].seen = run[p].seen
    BY <1>1, <1>4 DEF Run
  <2> QED
    BY <1>3, <1>4, <2>1, <2>2
<1>5. CASE WriteTo(p)
  <2>1. PICK declared : run' = [run EXCEPT ![p].declared = declared, ![p].frames = Advanced(@)]
    BY <1>5 DEF WriteTo
  <2>2. run[p].pc = "render" /\ Fine
    BY <1>5 DEF WriteTo, Executes, At
  <2> QED
    BY <1>4, <2>1, <2>2
<1>6. CASE Ask(p)
  <2>1. run' = [run EXCEPT ![p].pc = "ask"] /\ Fine
    BY <1>6 DEF Ask
  <2>2. run' = [run EXCEPT ![p] = run'[p]]
    BY <1>1, <2>1
  <2>3. /\ run'[p].pc = "ask" /\ run'[p].used = run[p].used
        /\ run'[p].missed = run[p].missed
        /\ run'[p].cached = run[p].cached /\ run'[p].seen = run[p].seen
    BY <1>1, <2>1 DEF Run
  <2> QED
    BY <1>3, <2>1, <2>2, <2>3
<1>7. CASE TextInput(p)
  <2>1. PICK given \in Answers(p, Refused) : Answered(p, given.text, given.texts)
    BY <1>7 DEF TextInput
  <2>2. Fine /\ run' = [run EXCEPT ![p] = run'[p]]
    BY <1>1, <2>1 DEF Answered
  <2>3. /\ run'[p].pc = "render" /\ run'[p].used = run[p].used
        /\ run'[p].missed = run[p].missed
        /\ run'[p].cached = run[p].cached /\ run'[p].seen = run[p].seen
    BY <1>1, <2>1 DEF Answered, Run
  <2> QED
    BY <1>3, <2>2, <2>3
<1>8. CASE FileInclude(p)
  <2>1. CASE run' = [run EXCEPT ![p].frames = Advanced(@)] /\ Fine
    <3>1. run' = [run EXCEPT ![p] = run'[p]]
      BY <1>1, <2>1
    <3>2. run[p].pc = "render"
      BY <1>8 DEF FileInclude, Executes, At
    <3>3. /\ run'[p].pc = "render" /\ run'[p].used = run[p].used
          /\ run'[p].missed = run[p].missed
          /\ run'[p].cached = run[p].cached /\ run'[p].seen = run[p].seen
      BY <1>1, <2>1, <3>2 DEF Run
    <3> QED
      BY <1>3, <2>1, <3>1, <3>3
  <2> QED
    BY <1>2, <1>8, <2>1 DEF FileInclude, RenderFails, Fault
<1>9. CASE Leave(p)
  <2> DEFINE below == SubSeq(run[p].frames, 1, Len(run[p].frames) - 1)
             pc == IF below = <<>> THEN "write" ELSE "render"
  <2>1. run' = [run EXCEPT ![p].frames = below, ![p].pc = pc] /\ Fine
    BY <1>9 DEF Leave
  <2>2. pc \in {"render", "ask", "write"}
    OBVIOUS
  <2> HIDE DEF below, pc
  <2>3. run' = [run EXCEPT ![p] = run'[p]]
    BY <1>1, <2>1
  <2>4. /\ run'[p].pc = pc /\ run'[p].used = run[p].used
        /\ run'[p].missed = run[p].missed
        /\ run'[p].cached = run[p].cached /\ run'[p].seen = run[p].seen
    BY <1>1, <2>1 DEF Run
  <2> QED
    BY <1>3, <2>1, <2>2, <2>3, <2>4
<1> QED
  BY <1>5, <1>6, <1>7, <1>8, <1>9

\* The first query caches the index of its refresh, which later ones are given.
LEMMA QuerySearch ==
  ASSUME IInv, SearchInv, NEW p \in Proc, Query(p)
  PROVE  SearchInv'
<1>1. run[p] \in Run /\ run \in [Proc -> Run] /\ run[p].pc = "render"
      /\ Searched(run[p]) /\ Snapshot(run[p]) /\ index # 0
  BY RunTyped DEF SearchInv, Query, Executes, At
<1>2. CASE Fault(p, "render_error")
  BY <1>2, EndSearch DEF Fault
<1>3. CASE RunsAgainst(p, CachedIndex(p))
  <2> DEFINE version == CachedIndex(p)
  <2>1. run' = [run EXCEPT ![p] =
          [@ EXCEPT !.cached = version, !.seen = run[p].seen \cup {version},
                    !.frames = Advanced(run[p].frames)]] /\ Fine
    BY <1>3 DEF RunsAgainst
  <2>2. version # 0 /\ run[p].seen \subseteq {version}
    BY <1>1 DEF CachedIndex, Snapshot
  <2> HIDE DEF version
  <2>3. run' = [run EXCEPT ![p] = run'[p]]
    BY <1>1, <2>1
  <2>4. /\ run'[p].pc = "render" /\ run'[p].used = run[p].used
        /\ run'[p].missed = run[p].missed
        /\ run'[p].cached = version /\ run'[p].seen = run[p].seen \cup {version}
    BY <1>1, <2>1 DEF Run
  <2>5. Searching(run'[p]) /\ Searched(run'[p]) /\ Snapshot(run'[p])
    BY <1>1, <2>2, <2>4 DEF Searching, Searched, Snapshot
  <2> QED
    BY <2>1, <2>3, <2>5, FineWorld, OneSearches
<1> QED
  BY <1>2, <1>3 DEF Query

LEMMA IncludeSearch ==
  ASSUME IInv, SearchInv, NEW p \in Proc, Include(p)
  PROVE  SearchInv'
<1>1. run[p] \in Run /\ run \in [Proc -> Run] /\ run[p].pc = "render"
  BY RunTyped DEF Include, Executes, At
<1>2. CASE RenderFails(p)
  BY <1>2, EndSearch DEF RenderFails
<1>3. ASSUME NEW name, Fine,
             run' = [run EXCEPT ![p].pc = "find_path", ![p].asked = name, ![p].dir = 1,
                                ![p].unseen = {}]
      PROVE  SearchInv'
  BY <1>3, AskedSearch
<1>4. ASSUME NEW frame, Fine, run' = [run EXCEPT ![p].frames = Append(Advanced(@), frame)]
      PROVE  SearchInv'
  <2>1. run' = [run EXCEPT ![p] = run'[p]]
    BY <1>1, <1>4
  <2>2. /\ run'[p].pc \in Quiet /\ run'[p].used = run[p].used
        /\ run'[p].missed = run[p].missed
        /\ run'[p].cached = run[p].cached /\ run'[p].seen = run[p].seen
    BY <1>1, <1>4 DEF Run, Quiet, Phases
  <2> QED
    BY <1>4, <2>1, <2>2, FineWorld, QuietMove
<1> QED
  BY <1>2, <1>3, <1>4 DEF Include

\* The output: the templates are not looked at any more.
LEMMA OutputSearch ==
  ASSUME IInv, SearchInv, NEW p \in Proc,
         Resolve(p) \/ Prompt(p) \/ Create(p) \/ Fill(p)
  PROVE  SearchInv'
<1>1. run[p] \in Run /\ run \in [Proc -> Run]
  BY RunTyped
<1>2. CASE \E result : End(p, result)
  BY <1>2, EndSearch
<1>3. ASSUME NEW pc \in {"prompt", "create", "fill", "done"}, NEW texts,
             run' = [run EXCEPT ![p] = [@ EXCEPT !.texts = texts, !.pc = pc]],
             UNCHANGED <<tree, touched, index>>
      PROVE  SearchInv'
  <2>1. run' = [run EXCEPT ![p] = run'[p]]
    BY <1>1, <1>3
  <2>2. /\ run'[p].pc \in Quiet /\ run'[p].used = run[p].used
        /\ run'[p].missed = run[p].missed
        /\ run'[p].cached = run[p].cached /\ run'[p].seen = run[p].seen
    BY <1>1, <1>3 DEF Run, Quiet, Phases
  <2> QED
    BY <1>3, <2>1, <2>2, QuietMove
<1>4. ASSUME NEW pc \in {"prompt", "create", "fill", "done"},
             run' = [run EXCEPT ![p].pc = pc], UNCHANGED <<tree, touched, index>>
      PROVE  SearchInv'
  <2>1. run' = [run EXCEPT ![p] = [@ EXCEPT !.texts = run[p].texts, !.pc = pc]]
    BY <1>1, <1>4 DEF Run
  <2> QED
    BY <1>3, <1>4, <2>1
<1>5. CASE Resolve(p)
  <2>1. ASSUME NEW pc \in {"prompt", "create"}, NEW path, Settle(p, pc, path)
        PROVE  SearchInv'
    BY <1>4, <2>1 DEF Settle, worldVars
  <2> QED
    BY <1>2, <1>5, <2>1 DEF Resolve
<1>6. CASE Prompt(p)
  <2>1. PICK given \in Answers(p, Refused) : Replied(p, given.text, given.texts)
    BY <1>6 DEF Prompt
  <2>2. \E pc \in {"prompt", "create"} :
          run' = [run EXCEPT ![p] = [@ EXCEPT !.texts = given.texts, !.pc = pc]]
    BY <2>1 DEF Replied
  <2>3. UNCHANGED <<tree, touched, index>>
    BY <2>1 DEF Replied, worldVars
  <2> QED
    BY <1>3, <2>2, <2>3
<1>7. CASE Create(p)
  <2>1. CASE \E i : Opens(p, i)
    BY <1>4, <2>1 DEF Opens
  <2> QED
    BY <1>2, <1>7, <2>1 DEF Create, CreateNew, Truncate, Fault
<1>8. CASE Fill(p)
  BY <1>4, <1>8 DEF Fill
<1> QED
  BY <1>5, <1>6, <1>7, <1>8

LEMMA SearchInit == Init => SearchInv
<1> SUFFICES ASSUME Init PROVE SearchInv
  OBVIOUS
<1>1. ASSUME NEW p \in Proc
      PROVE  Searching(run[p]) /\ Searched(run[p]) /\ Snapshot(run[p])
  <2>1. run[p] = FreshRun(cmd[p])
    BY DEF Init
  <2>2. /\ run[p].pc \in {"list", "build"} /\ run[p].dir = 1
        /\ run[p].used = {} /\ run[p].missed = {} /\ run[p].seen = {}
    BY <2>1 DEF FreshRun
  <2> QED
    BY <2>2 DEF Searching, Searched, Snapshot
<1> QED
  BY <1>1 DEF SearchInv, Init

LEMMA SearchNext == IInv /\ SearchInv /\ [Next]_vars => SearchInv'
<1> SUFFICES ASSUME IInv, SearchInv, [Next]_vars PROVE SearchInv'
  OBVIOUS
<1>1. CASE World
  BY <1>1, WorldSearch
<1>2. ASSUME NEW p \in Proc, Runs(p)
      PROVE  SearchInv'
  <2>1. CASE List(p) \/ Choose(p) \/ Build(p) \/ FindPathIn(p) \/ FindNameIn(p) \/ ReadTemplate(p)
    BY <2>1, StartSearch, FindPathSearch, FindNameSearch, ReadSearch
  <2>2. CASE WriteTo(p) \/ Ask(p) \/ TextInput(p) \/ FileInclude(p) \/ Leave(p)
    BY <2>2, RenderSearch
  <2>3. CASE Query(p) \/ Include(p)
    BY <2>3, QuerySearch, IncludeSearch
  <2>4. CASE Resolve(p) \/ Prompt(p) \/ Create(p) \/ Fill(p)
    BY <2>4, OutputSearch
  <2> QED
    BY <1>2, <2>1, <2>2, <2>3, <2>4 DEF Runs
<1>3. ASSUME NEW p \in Proc, Cancel(p) \/ Kill(p)
      PROVE  SearchInv'
  BY <1>3, EndSearch DEF Cancel, Kill, Fault
<1>4. CASE UNCHANGED vars
  <2>1. UNCHANGED <<tree, touched, index, run>>
    BY <1>4 DEF vars, worldVars
  <2> QED
    BY <2>1 DEF SearchInv, Searching, Searched, Snapshot, FoundRightly, Passed, Stands
<1> QED
  BY <1>1, <1>2, <1>3, <1>4 DEF Next

\* Directories passed, hits found and the cached index, as invariants.
THEOREM SearchInductive == Spec => [](IInv /\ SearchInv)
<1> QED
  BY TemplateInit, TemplateNext, SearchInit, SearchNext, PTL DEF Spec

\* Whatever the user edits between the steps of a search: what it found is what
\* local before global and the name before the stem ask for, and it reports as
\* missing only what no directory has (TemplateLoader::find).
THEOREM SearchesAreSound == Spec => []SearchIsSound
<1>1. SearchInv => SearchIsSound
  BY DEF SearchInv, Searched, FoundRightly, Passed, SearchIsSound
<1> QED
  BY <1>1, SearchInductive, PTL

\* However often notes change and others refresh while a template renders, all
\* its queries, in all its includes, run against one index (query.rs, cached).
THEOREM OneIndexPerRender == Spec => []OneSnapshot
<1>1. ASSUME SearchInv
      PROVE  OneSnapshot
  <2>1. ASSUME NEW p \in Proc
        PROVE  Cardinality(run[p].seen) <= 1
    <3>1. IsFiniteSet({run[p].cached}) /\ Cardinality({run[p].cached}) = 1
      BY FS_Singleton
    <3>2. run[p].seen \subseteq {run[p].cached}
      BY <1>1 DEF SearchInv, Snapshot
    <3> QED
      BY <3>1, <3>2, FS_Subset
  <2> QED
    BY <2>1 DEF OneSnapshot
<1> QED
  BY <1>1, SearchInductive, PTL
=============================================================================
