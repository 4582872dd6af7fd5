------------------------- MODULE ConfigTrust_proofs -------------------------
(***************************************************************************)
(* Proofs about ConfigTrust: a load returns only what was granted and not  *)
(* revoked, for any number of processes and roots, with any faults; and    *)
(* when one process runs at a time, no config is entered without baseline; *)
(* and a command with which nothing interferes does what it is for.        *)
(***************************************************************************)
EXTENDS ConfigTrust, TLAPS

USE DEF Digest

-----------------------------------------------------------------------------
(* A job of which one field changes is a job and keeps its other fields *)

LEMMA JobAt ==
  ASSUME NEW j \in Job
  PROVE  \A x \in Root \cup {NoRoot} : LET k == [j EXCEPT !.at = x] IN
           /\ k \in Job /\ k.at = x /\ k.start = j.start /\ k.named = j.named /\ k.store = j.store /\ k.held = j.held
           /\ k.linked = j.linked /\ k.todo = j.todo /\ k.removed = j.removed /\ k.outcome = j.outcome /\ k.op = j.op
  BY DEF Job

LEMMA JobOutcome ==
  ASSUME NEW j \in Job
  PROVE  \A x \in OUTCOMES : LET k == [j EXCEPT !.outcome = x] IN
           /\ k \in Job /\ k.at = j.at /\ k.start = j.start /\ k.named = j.named /\ k.store = j.store /\ k.held = j.held
           /\ k.linked = j.linked /\ k.todo = j.todo /\ k.removed = j.removed /\ k.outcome = x /\ k.op = j.op
  BY DEF Job

LEMMA JobHeld ==
  ASSUME NEW j \in Job
  PROVE  \A x \in Digest : LET k == [j EXCEPT !.held = x] IN
           /\ k \in Job /\ k.at = j.at /\ k.start = j.start /\ k.named = j.named /\ k.store = j.store /\ k.held = x
           /\ k.linked = j.linked /\ k.todo = j.todo /\ k.removed = j.removed /\ k.outcome = j.outcome /\ k.op = j.op
  BY DEF Job

LEMMA JobLinked ==
  ASSUME NEW j \in Job
  PROVE  \A x \in BOOLEAN : LET k == [j EXCEPT !.linked = x] IN
           /\ k \in Job /\ k.at = j.at /\ k.start = j.start /\ k.named = j.named /\ k.store = j.store /\ k.held = j.held
           /\ k.linked = x /\ k.todo = j.todo /\ k.removed = j.removed /\ k.outcome = j.outcome /\ k.op = j.op
  BY DEF Job

LEMMA JobStore ==
  ASSUME NEW j \in Job
  PROVE  \A x \in STORES, b \in BOOLEAN : LET k == [j EXCEPT !.store = x, !.linked = b] IN
           /\ k \in Job /\ k.at = j.at /\ k.start = j.start /\ k.named = j.named /\ k.store = x /\ k.held = j.held
           /\ k.linked = b /\ k.todo = j.todo /\ k.removed = j.removed /\ k.outcome = j.outcome /\ k.op = j.op
  BY ZenonT(90) DEF Job

LEMMA JobTodo ==
  ASSUME NEW j \in Job
  PROVE  \A x \in SUBSET Root : LET k == [j EXCEPT !.todo = x] IN
           /\ k \in Job /\ k.at = j.at /\ k.start = j.start /\ k.named = j.named /\ k.store = j.store /\ k.held = j.held
           /\ k.linked = j.linked /\ k.todo = x /\ k.removed = j.removed /\ k.outcome = j.outcome /\ k.op = j.op
  BY DEF Job

LEMMA JobRemoved ==
  ASSUME NEW j \in Job
  PROVE  \A x \in SUBSET Root : LET k == [j EXCEPT !.removed = x] IN
           /\ k \in Job /\ k.at = j.at /\ k.start = j.start /\ k.named = j.named /\ k.store = j.store /\ k.held = j.held
           /\ k.linked = j.linked /\ k.todo = j.todo /\ k.removed = x /\ k.outcome = j.outcome /\ k.op = j.op
  BY DEF Job

-----------------------------------------------------------------------------
(* A step that leaves the companions and the grants alone *)

\* A process whose companion was unlinked is otherwise where it was.
Aside(q) == pc'[q] = pc[q] /\ job'[q] \in {job[q], [job[q] EXCEPT !.linked = FALSE]}

LEMMA AsideKeeps ==
  ASSUME TypeOK, NEW q \in Proc, Aside(q)
  PROVE  /\ job'[q] \in Job
         /\ Shape(pc[q], job[q]) => Shape(pc'[q], job'[q])
         /\ \A r \in Root : /\ Grants(pc'[q], job'[q], r) <=> Grants(pc[q], job[q], r)
                            /\ Pending(pc'[q], job'[q], r) <=> Pending(pc[q], job[q], r)
         /\ job'[q].op = job[q].op /\ job'[q].at = job[q].at
         /\ job'[q].held = job[q].held /\ job'[q].outcome = job[q].outcome
<1>1. CASE job'[q] = job[q]
  BY <1>1 DEF TypeOK, Aside
<1>2. CASE job'[q] = [job[q] EXCEPT !.linked = FALSE]
  <2> DEFINE k == [job[q] EXCEPT !.linked = FALSE]
  <2>1. /\ job[q] \in Job /\ k \in Job /\ k.at = job[q].at /\ k.start = job[q].start
        /\ k.named = job[q].named /\ k.store = job[q].store /\ k.held = job[q].held
        /\ k.todo = job[q].todo /\ k.removed = job[q].removed
        /\ k.outcome = job[q].outcome /\ k.op = job[q].op
    BY JobLinked DEF TypeOK
  <2>2. job'[q] = k /\ pc'[q] = pc[q]
    BY <1>2 DEF Aside
  <2> HIDE DEF k
  <2>3. QED
    BY <2>1, <2>2 DEF Shape, Grants, Pending
<1>3. QED
  BY <1>1, <1>2 DEF Aside

LEMMA Local ==
  ASSUME IInv, NEW p \in Proc, \A q \in Proc \ {p} : Aside(q),
         Shape(pc'[p], job'[p]),
         \A r \in Root : Grants(pc'[p], job'[p], r)
                           => Grants(pc[p], job[p], r) /\ job'[p].held = job[p].held,
         MayReturn(pc'[p], job'[p], allowed[p]),
         \A r \in Root : Pending(pc[p], job[p], r) => Pending(pc'[p], job'[p], r),
         UNCHANGED <<hash, granted, doomed, allowed>>
  PROVE  JobShape' /\ HashGranted' /\ GrantsStand' /\ LoadsAllowed' /\ RevocationsPend'
<1>1. JobShape'
  BY AsideKeeps DEF IInv, JobShape
<1>2. HashGranted'
  BY DEF IInv, HashGranted
<1>3. GrantsStand'
  BY AsideKeeps DEF IInv, GrantsStand, Granting
<1>4. LoadsAllowed'
  <2> SUFFICES ASSUME NEW q \in Proc PROVE MayReturn(pc[q], job[q], allowed[q])'
    BY DEF LoadsAllowed
  <2>1. CASE q = p
    BY <2>1 DEF MayReturn
  <2>2. CASE q # p
    <3>1. /\ pc'[q] = pc[q] /\ job'[q].op = job[q].op /\ job'[q].at = job[q].at
          /\ job'[q].held = job[q].held /\ job'[q].outcome = job[q].outcome
      BY <2>2, AsideKeeps DEF IInv, Aside
    <3>2. MayReturn(pc[q], job[q], allowed[q])
      BY DEF IInv, LoadsAllowed
    <3>3. QED
      BY <3>1, <3>2 DEF MayReturn
  <2>3. QED
    BY <2>1, <2>2
<1>5. RevocationsPend'
  BY AsideKeeps DEF IInv, RevocationsPend
<1>6. QED
  BY <1>1, <1>2, <1>3, <1>4, <1>5

-----------------------------------------------------------------------------
(* The steps, one by one *)

\* The parts of IInv that are about more than types.
Rest == JobShape /\ HashGranted /\ GrantsStand /\ LoadsAllowed /\ RevocationsPend

\* pc and job keep their types.
Typed == pc \in [Proc -> STEPS] /\ job \in [Proc -> Job]

\* p goes to step s with job k.
LEMMA Goes ==
  ASSUME IInv, NEW p \in Proc, NEW s \in STEPS, NEW k \in Job,
         GoTo(p, s), Learn(p, k), Shape(s, k),
         \A r \in Root : Grants(s, k, r) => Grants(pc[p], job[p], r) /\ k.held = job[p].held,
         MayReturn(s, k, allowed[p]),
         \A r \in Root : Pending(pc[p], job[p], r) => Pending(s, k, r),
         UNCHANGED <<hash, granted, doomed, allowed>>
  PROVE  Typed' /\ Rest'
<1>1. /\ pc' = [pc EXCEPT ![p] = s] /\ job' = [job EXCEPT ![p] = k]
      /\ pc \in [Proc -> STEPS] /\ job \in [Proc -> Job]
  BY DEF GoTo, Learn, IInv, TypeOK
<1>2. Typed' /\ pc'[p] = s /\ job'[p] = k /\ \A q \in Proc \ {p} : Aside(q)
  BY <1>1 DEF Aside, Typed
<1>3. QED
  BY <1>2, Local DEF Rest

\* p goes to step s and learns nothing.
LEMMA Moves ==
  ASSUME IInv, NEW p \in Proc, NEW s \in STEPS, GoTo(p, s), UNCHANGED job, Shape(s, job[p]),
         \A r \in Root : Grants(s, job[p], r) => Grants(pc[p], job[p], r),
         MayReturn(s, job[p], allowed[p]),
         \A r \in Root : Pending(pc[p], job[p], r) => Pending(s, job[p], r),
         UNCHANGED <<hash, granted, doomed, allowed>>
  PROVE  Typed' /\ Rest'
<1>1. job[p] \in Job /\ Learn(p, job[p])
  BY DEF IInv, TypeOK, Learn
<1>2. QED
  BY <1>1, Goes

LEMMA FinishKeeps ==
  ASSUME IInv, NEW p \in Proc, NEW out \in OUTCOMES, out # "ok", Finish(p, out),
         UNCHANGED <<hash, granted, doomed, allowed>>
  PROVE  Typed' /\ Rest'
<1> DEFINE k == [job[p] EXCEPT !.outcome = out]
<1>1. k \in Job /\ k.outcome = out
  BY JobOutcome DEF IInv, TypeOK
<1>2. GoTo(p, "done") /\ Learn(p, k) /\ "done" \in STEPS
  BY DEF Finish, STEPS
<1> HIDE DEF k
<1>3. /\ Shape("done", k) /\ MayReturn("done", k, allowed[p])
      /\ \A r \in Root : ~Grants("done", k, r) /\ Pending("done", k, r)
  BY <1>1 DEF Shape, MayReturn, Grants, Pending
<1>4. QED
  BY <1>1, <1>2, <1>3, Goes

LEMMA RecordFailedKeeps ==
  ASSUME IInv, NEW p \in Proc, pc[p] \in {"canonicalize", "exists", "link"}, RecordFailed(p),
         UNCHANGED <<hash, granted, doomed, allowed>>
  PROVE  Typed' /\ Rest'
<1>1. CASE job[p].op = "load"
  <2>1. GoTo(p, "contains") /\ UNCHANGED job /\ "contains" \in STEPS
    BY <1>1 DEF RecordFailed, STEPS
  <2>2. Shape(pc[p], job[p]) /\ MayReturn(pc[p], job[p], allowed[p])
    BY DEF IInv, JobShape, LoadsAllowed
  <2>3. /\ Shape("contains", job[p]) /\ MayReturn("contains", job[p], allowed[p])
        /\ \A r \in Root : ~Grants("contains", job[p], r) /\ ~Pending(pc[p], job[p], r)
    BY <1>1, <2>2 DEF Shape, MayReturn, Grants, Pending
  <2>4. QED
    BY <2>1, <2>3, Moves
<1>2. CASE job[p].op # "load"
  BY <1>2, FinishKeeps DEF RecordFailed, OUTCOMES
<1>3. QED
  BY <1>1, <1>2

\* The subject is tracked: the load goes on, the grant reads the config.
LEMMA TrackedKeeps ==
  ASSUME IInv, NEW p \in Proc, pc[p] \in {"exists", "link"}, UNCHANGED job,
         \/ job[p].op = "load" /\ GoTo(p, "contains")
         \/ job[p].op = "trust" /\ job[p].store = "tracked" /\ GoTo(p, "read"),
         UNCHANGED <<hash, granted, doomed, allowed>>
  PROVE  Typed' /\ Rest'
<1>1. Shape(pc[p], job[p]) /\ MayReturn(pc[p], job[p], allowed[p])
  BY DEF IInv, JobShape, LoadsAllowed
<1>2. CASE job[p].op = "load" /\ GoTo(p, "contains")
  <2>1. /\ Shape("contains", job[p]) /\ MayReturn("contains", job[p], allowed[p])
        /\ \A r \in Root : ~Grants("contains", job[p], r) /\ ~Pending(pc[p], job[p], r)
    BY <1>1, <1>2 DEF Shape, MayReturn, Grants, Pending
  <2>2. QED
    BY <1>2, <2>1, Moves DEF STEPS
<1>3. CASE job[p].op = "trust" /\ job[p].store = "tracked" /\ GoTo(p, "read")
  <2>1. /\ Shape("read", job[p]) /\ MayReturn("read", job[p], allowed[p])
        /\ \A r \in Root : /\ ~Grants("read", job[p], r)
                           /\ Pending(pc[p], job[p], r) => Pending("read", job[p], r)
    BY <1>1, <1>3 DEF Shape, MayReturn, Grants, Pending
  <2>2. QED
    BY <1>3, <2>1, Moves DEF STEPS
<1>4. QED
  BY <1>2, <1>3

\* A command that finishes with success revokes what it was to revoke, and has
\* overwritten or removed the companions of those grants.
LEMMA SuccessKeeps ==
  ASSUME IInv, NEW p \in Proc, \A q \in Proc \ {p} : Aside(q),
         job'[p] \in Job, pc'[p] = "done", job'[p].op # "load", Typed',
         \A r \in Root : hash'[r] \in Content =>
            hash'[r] = hash[r] /\ ~Pending(pc[p], job[p], r),
         Revoke(p), UNCHANGED <<doomed, allowed>>
  PROVE  Rest'
<1>1. JobShape'
  <2>1. Shape("done", job'[p])
    BY DEF Shape
  <2>2. QED
    BY <2>1, AsideKeeps DEF IInv, JobShape
<1>2. /\ granted \in [Root -> SUBSET Content]
      /\ granted' = [r \in Root |-> granted[r] \ doomed[p][r]]
  BY DEF IInv, TypeOK, Revoke
<1>3. HashGranted'
  BY <1>2 DEF IInv, HashGranted, RevocationsPend
<1>4. GrantsStand'
  <2> SUFFICES ASSUME NEW r \in Root, NEW q \in Proc, Grants(pc'[q], job'[q], r)
               PROVE  job'[q].held \in granted'[r] /\ \A o \in Proc : job'[q].held \notin doomed'[o][r]
    BY DEF GrantsStand, Granting
  <2>1. q # p
    BY DEF Grants
  <2>2. Grants(pc[q], job[q], r) /\ job'[q].held = job[q].held
    BY <2>1, AsideKeeps DEF IInv
  <2>3. job[q].held \in granted[r] /\ \A o \in Proc : job[q].held \notin doomed[o][r]
    BY <2>2 DEF IInv, GrantsStand, Granting
  <2>4. QED
    BY <1>2, <2>2, <2>3
<1>5. LoadsAllowed'
  <2> SUFFICES ASSUME NEW q \in Proc PROVE MayReturn(pc[q], job[q], allowed[q])'
    BY DEF LoadsAllowed
  <2>1. CASE q = p
    BY <2>1 DEF MayReturn
  <2>2. CASE q # p
    <3>1. /\ pc'[q] = pc[q] /\ job'[q].op = job[q].op /\ job'[q].at = job[q].at
          /\ job'[q].held = job[q].held /\ job'[q].outcome = job[q].outcome
      BY <2>2, AsideKeeps DEF IInv, Aside
    <3>2. MayReturn(pc[q], job[q], allowed[q]) /\ Shape(pc[q], job[q])
      BY DEF IInv, LoadsAllowed, JobShape
    <3>3. pc[q] \in {"canonicalize", "exists", "link", "contains", "baseline", "compare"}
            => job[q].at \in Root
      BY <3>2 DEF Shape
    <3>4. QED
      BY <1>2, <3>1, <3>2, <3>3 DEF MayReturn
  <2>3. QED
    BY <2>1, <2>2
<1>6. RevocationsPend'
  <2> SUFFICES ASSUME NEW q \in Proc, NEW r \in Root, hash'[r] \in Content,
                      hash'[r] \in doomed'[q][r]
               PROVE  Pending(pc'[q], job'[q], r)
    BY DEF RevocationsPend
  <2>1. Pending(pc[q], job[q], r)
    BY DEF IInv, RevocationsPend
  <2>2. CASE q = p
    BY <2>2 DEF Pending
  <2>3. CASE q # p
    BY <2>1, <2>3, AsideKeeps DEF IInv
  <2>4. QED
    BY <2>2, <2>3
<1>7. QED
  BY <1>1, <1>3, <1>4, <1>5, <1>6 DEF Rest

-----------------------------------------------------------------------------
(* Actions *)

\* What IInv says of the process that takes a step.
LEMMA Own ==
  ASSUME IInv, NEW p \in Proc
  PROVE  /\ job[p] \in Job /\ Shape(pc[p], job[p]) /\ MayReturn(pc[p], job[p], allowed[p])
         /\ \A r \in Root : hash[r] \in Content /\ hash[r] \in doomed[p][r]
                              => Pending(pc[p], job[p], r)
  BY DEF IInv, TypeOK, JobShape, LoadsAllowed, RevocationsPend

\* The other parts of TypeOK, where only pc and job change.
LEMMA TypeStays ==
  ASSUME IInv, Typed', UNCHANGED <<disk, stores, granted, doomed, allowed, rootOnly>>,
         calm' \in [Proc -> BOOLEAN], faults' \in Nat
  PROVE  TypeOK'
  BY DEF IInv, TypeOK, Typed, disk, stores

LEMMA CanonicalizeKeeps ==
  ASSUME IInv, NEW p \in Proc, Canonicalize(p)
  PROVE  IInv'
<1>1. UNCHANGED <<disk, stores, faults, history>> /\ pc[p] = "canonicalize"
  BY DEF Canonicalize
<1>2. Typed' /\ Rest'
  <2>1. CASE GoTo(p, "exists") /\ UNCHANGED job
    <3>1. /\ Shape("exists", job[p]) /\ MayReturn("exists", job[p], allowed[p])
          /\ \A r \in Root : /\ Grants("exists", job[p], r) <=> Grants(pc[p], job[p], r)
                             /\ Pending("exists", job[p], r) <=> Pending(pc[p], job[p], r)
      BY <1>1, Own DEF Shape, MayReturn, Grants, Pending
    <3>2. QED
      BY <1>1, <2>1, <3>1, Moves DEF STEPS, stores, history
  <2>2. CASE RecordFailed(p)
    BY <1>1, <2>2, RecordFailedKeeps DEF stores, history
  <2>3. QED
    BY <2>1, <2>2 DEF Canonicalize
<1>3. TypeOK'
  BY <1>1, <1>2, TypeStays DEF IInv, TypeOK, history
<1>4. QED
  BY <1>2, <1>3 DEF IInv, Rest

\* The root is trusted: the grant is over.
LEMMA RecordedKeeps ==
  ASSUME IInv, NEW p \in Proc, pc[p] \in {"exists", "link"}, Recorded(p),
         UNCHANGED <<hash, doomed, allowed>>
  PROVE  /\ Typed' /\ Rest'
         /\ granted' \in [Root -> SUBSET Content] /\ rootOnly' \subseteq Root
<1>1. CASE job[p].op = "load" /\ GoTo(p, "contains") /\ UNCHANGED <<job, granted, rootOnly>>
  BY <1>1, TrackedKeeps DEF IInv, TypeOK
<1>2. CASE /\ job[p].op = "trust" /\ job[p].store = "tracked"
           /\ GoTo(p, "read") /\ UNCHANGED <<job, granted, rootOnly>>
  BY <1>2, TrackedKeeps DEF IInv, TypeOK
<1>3. CASE /\ job[p].op = "trust" /\ job[p].store = "trusted" /\ Finish(p, "ok") /\ Revoke(p)
           /\ rootOnly' = CASE job[p].named -> rootOnly \ {job[p].at}
                            [] ~job[p].named /\ job[p].at \in entries["trusted"] -> rootOnly
                            [] OTHER -> rootOnly \cup {job[p].at}
  <2> DEFINE k == [job[p] EXCEPT !.outcome = "ok"]
  <2>1. k \in Job /\ k.op = "trust"
    BY <1>3, Own, JobOutcome DEF OUTCOMES
  <2>2. pc' = [pc EXCEPT ![p] = "done"] /\ job' = [job EXCEPT ![p] = k]
    BY <1>3 DEF Finish, GoTo, Learn
  <2> HIDE DEF k
  <2>3. /\ Typed' /\ pc'[p] = "done" /\ job'[p] = k
        /\ \A q \in Proc \ {p} : Aside(q)
    BY <2>1, <2>2 DEF IInv, TypeOK, Typed, Aside, STEPS
  <2>4. \A r \in Root : ~Pending(pc[p], job[p], r)
    BY <1>3 DEF Pending
  <2>5. Rest'
    BY <1>3, <2>1, <2>3, <2>4, SuccessKeeps
  <2>6. granted' \in [Root -> SUBSET Content]
    BY <1>3 DEF Revoke, IInv, TypeOK
  <2>7. job[p].at \in Root /\ rootOnly \subseteq Root
    BY Own DEF Shape, IInv, TypeOK
  <2>8. rootOnly' \subseteq Root
    BY <1>3, <2>7
  <2>9. QED
    BY <2>3, <2>5, <2>6, <2>8
<1>4. QED
  BY <1>1, <1>2, <1>3 DEF Recorded

LEMMA ExistsKeeps ==
  ASSUME IInv, NEW p \in Proc, Exists(p)
  PROVE  IInv'
<1>1. /\ UNCHANGED <<disk, stores, faults, doomed, allowed, calm>> /\ pc[p] = "exists"
      /\ UNCHANGED hash
  BY DEF Exists, stores
<1>2. /\ Typed' /\ Rest'
      /\ granted' \in [Root -> SUBSET Content] /\ rootOnly' \subseteq Root
  <2>1. CASE Recorded(p)
    BY <1>1, <2>1, RecordedKeeps
  <2>2. CASE GoTo(p, "link") /\ UNCHANGED <<job, granted, rootOnly>>
    <3>1. /\ Shape("link", job[p]) /\ MayReturn("link", job[p], allowed[p])
          /\ \A r \in Root : /\ Grants("link", job[p], r) <=> Grants(pc[p], job[p], r)
                             /\ Pending("link", job[p], r) <=> Pending(pc[p], job[p], r)
      BY <1>1, Own DEF Shape, MayReturn, Grants, Pending
    <3>2. QED
      BY <1>1, <2>2, <3>1, Moves DEF STEPS, IInv, TypeOK
  <2>3. QED
    BY <2>1, <2>2 DEF Exists
<1>3. TypeOK'
  BY <1>1, <1>2 DEF IInv, TypeOK, Typed, disk, stores
<1>4. QED
  BY <1>2, <1>3 DEF IInv, Rest

LEMMA LinkKeeps ==
  ASSUME IInv, NEW p \in Proc, Link(p)
  PROVE  IInv'
<1>1. UNCHANGED <<disk, hash, faults, doomed, allowed>> /\ pc[p] = "link"
  BY DEF Link, history
<1>2. /\ Typed' /\ Rest'
      /\ granted' \in [Root -> SUBSET Content] /\ rootOnly' \subseteq Root
      /\ calm' \in [Proc -> BOOLEAN] /\ entries' \in [STORES -> SUBSET Root]
  <2>1. CASE RecordFailed(p) /\ UNCHANGED <<entries, history>>
    BY <1>1, <2>1, RecordFailedKeeps DEF history, IInv, TypeOK
  <2>2. CASE /\ entries' = [entries EXCEPT ![job[p].store] = @ \cup {job[p].at}]
             /\ Recorded(p) /\ Interfere(p)
    <3>1. job[p].at \in Root /\ job[p].store \in STORES
      BY <1>1, Own DEF Shape, Job
    <3>2. entries' \in [STORES -> SUBSET Root] /\ calm' \in [Proc -> BOOLEAN]
      BY <2>2, <3>1 DEF Interfere, IInv, TypeOK
    <3>3. QED
      BY <1>1, <2>2, <3>2, RecordedKeeps
  <2>3. QED
    BY <2>1, <2>2 DEF Link
<1>3. TypeOK'
  BY <1>1, <1>2 DEF IInv, TypeOK, Typed, disk
<1>4. QED
  BY <1>2, <1>3 DEF IInv, Rest

LEMMA ContainsKeeps ==
  ASSUME IInv, NEW p \in Proc, Contains(p)
  PROVE  IInv'
<1>1. UNCHANGED <<disk, stores, faults, history>> /\ pc[p] = "contains"
  BY DEF Contains
<1>2. Typed' /\ Rest'
  <2>1. CASE Finish(p, "failed") \/ Finish(p, "untrusted")
    BY <1>1, <2>1, FinishKeeps DEF stores, history, OUTCOMES
  <2>2. CASE GoTo(p, "baseline") /\ UNCHANGED job
    <3>1. /\ Shape("baseline", job[p]) /\ MayReturn("baseline", job[p], allowed[p])
          /\ \A r \in Root : ~Grants("baseline", job[p], r) /\ ~Pending(pc[p], job[p], r)
      BY <1>1, Own DEF Shape, MayReturn, Grants, Pending
    <3>2. QED
      BY <1>1, <2>2, <3>1, Moves DEF STEPS, stores, history
  <2>3. QED
    BY <2>1, <2>2 DEF Contains
<1>3. TypeOK'
  BY <1>1, <1>2, TypeStays DEF IInv, TypeOK, history
<1>4. QED
  BY <1>2, <1>3 DEF IInv, Rest

\* The digest it reads is of a granted content, so it may be returned.
LEMMA BaselineKeeps ==
  ASSUME IInv, NEW p \in Proc, Baseline(p)
  PROVE  IInv'
<1>1. UNCHANGED <<disk, stores, faults, history>> /\ pc[p] = "baseline"
  BY DEF Baseline
<1>2. Typed' /\ Rest'
  <2>1. CASE Finish(p, "failed") \/ Finish(p, "missing")
    BY <1>1, <2>1, FinishKeeps DEF stores, history, OUTCOMES
  <2>2. CASE /\ GoTo(p, "compare")
             /\ Learn(p, [job[p] EXCEPT !.held = hash[job[p].at]])
    <3> DEFINE k == [job[p] EXCEPT !.held = hash[job[p].at]]
    <3>1. /\ job[p].op = "load" /\ job[p].at \in Root /\ granted[job[p].at] \subseteq allowed[p]
      BY <1>1, Own DEF Shape, MayReturn
    <3>2. hash[job[p].at] \in Digest
      BY <3>1 DEF IInv, TypeOK
    <3>3. k \in Job /\ k.op = "load" /\ k.at = job[p].at /\ k.held = hash[job[p].at]
      BY <3>1, <3>2, Own, JobHeld
    <3>4. k.held \in Content => k.held \in allowed[p]
      BY <3>1, <3>3 DEF IInv, HashGranted
    <3>5. Learn(p, k)
      BY <2>2
    <3> HIDE DEF k
    <3>6. /\ Shape("compare", k) /\ MayReturn("compare", k, allowed[p])
          /\ \A r \in Root : ~Grants("compare", k, r) /\ ~Pending(pc[p], job[p], r)
      BY <1>1, <3>1, <3>3, <3>4 DEF Shape, MayReturn, Grants, Pending
    <3>7. QED
      BY <1>1, <2>2, <3>3, <3>5, <3>6, Goes DEF STEPS, stores, history
  <2>3. QED
    BY <2>1, <2>2 DEF Baseline
<1>3. TypeOK'
  BY <1>1, <1>2, TypeStays DEF IInv, TypeOK, history
<1>4. QED
  BY <1>2, <1>3 DEF IInv, Rest

LEMMA CompareKeeps ==
  ASSUME IInv, NEW p \in Proc, Compare(p)
  PROVE  IInv'
<1>1. UNCHANGED <<disk, stores, faults, history>> /\ pc[p] = "compare"
  BY DEF Compare
<1>2. Typed' /\ Rest'
  <2>1. CASE Finish(p, "failed") \/ Finish(p, "stale")
    BY <1>1, <2>1, FinishKeeps DEF stores, history, OUTCOMES
  <2>2. CASE /\ config[job[p].at] \in Content /\ config[job[p].at] = job[p].held
             /\ GoTo(p, "done")
             /\ Learn(p, [job[p] EXCEPT !.held = config[job[p].at], !.outcome = "ok"])
    <3> DEFINE k == [job[p] EXCEPT !.held = config[job[p].at], !.outcome = "ok"]
    <3>1. /\ job[p].op = "load" /\ job[p].held \in allowed[p]
      BY <1>1, <2>2, Own DEF Shape, MayReturn
    <3>2. job[p] \in Job /\ config[job[p].at] \in Digest /\ "ok" \in OUTCOMES
      BY <2>2, Own DEF OUTCOMES
    <3>3. k \in Job /\ k.op = job[p].op /\ k.held = config[job[p].at]
      BY <3>2 DEF Job
    <3>4. Learn(p, k)
      BY <2>2
    <3> HIDE DEF k
    <3>5. /\ Shape("done", k) /\ MayReturn("done", k, allowed[p])
          /\ \A r \in Root : ~Grants("done", k, r) /\ Pending("done", k, r)
      BY <2>2, <3>1, <3>3 DEF Shape, MayReturn, Grants, Pending
    <3>6. QED
      BY <1>1, <2>2, <3>3, <3>4, <3>5, Goes DEF STEPS, stores, history
  <2>3. QED
    BY <2>1, <2>2 DEF Compare
<1>3. TypeOK'
  BY <1>1, <1>2, TypeStays DEF IInv, TypeOK, history
<1>4. QED
  BY <1>2, <1>3 DEF IInv, Rest

\* The content is granted from here on, and no command under way revokes it.
LEMMA ReadKeeps ==
  ASSUME IInv, NEW p \in Proc, Read(p)
  PROVE  IInv'
<1> DEFINE c == config[job[p].at]
           k == [job[p] EXCEPT !.held = c]
<1>1. UNCHANGED <<disk, stores, faults>> /\ pc[p] = "read"
  BY DEF Read
<1>2. CASE c = NoFile
  <2>1. Finish(p, "failed") /\ UNCHANGED history
    BY <1>2 DEF Read
  <2>2. Typed' /\ Rest'
    BY <1>1, <2>1, FinishKeeps DEF stores, history, OUTCOMES
  <2>3. TypeOK'
    BY <1>1, <2>1, <2>2, TypeStays DEF IInv, TypeOK, history
  <2>4. QED
    BY <2>2, <2>3 DEF IInv, Rest
<1>3. CASE c # NoFile
  <2>1. job[p].op = "trust" /\ job[p].named /\ job[p].at \in Root /\ job[p] \in Job
    BY <1>1, Own DEF Shape
  <2>2. c \in Content
    BY <1>3, <2>1 DEF IInv, TypeOK
  <2>3. /\ k \in Job /\ k.op = "trust" /\ k.named = job[p].named /\ k.at = job[p].at
        /\ k.held = c /\ k.store = job[p].store
    BY ZenonT(90), <2>1, <2>2, JobHeld
  <2>4. /\ pc' = [pc EXCEPT ![p] = "open"] /\ job' = [job EXCEPT ![p] = k]
        /\ granted' = [granted EXCEPT ![job[p].at] = @ \cup {c}]
        /\ doomed' = [q \in Proc |-> [doomed[q] EXCEPT ![job[p].at] = @ \ {c}]]
        /\ allowed' = [q \in Proc |-> IF job[q].at = job[p].at THEN allowed[q] \cup {c}
                                                              ELSE allowed[q]]
        /\ UNCHANGED <<calm, rootOnly>>
    BY <1>3 DEF Read, GoTo, Learn
  <2> HIDE DEF k
  <2> HIDE DEF c
  <2>5. /\ Typed' /\ pc'[p] = "open" /\ job'[p] = k
        /\ \A q \in Proc \ {p} : pc'[q] = pc[q] /\ job'[q] = job[q]
    BY <2>3, <2>4 DEF IInv, TypeOK, Typed, STEPS
  <2>6. TypeOK'
    BY <1>1, <2>1, <2>2, <2>4, <2>5 DEF IInv, TypeOK, Typed, disk, stores
  <2>7. JobShape'
    <3>1. Shape("open", k)
      BY <2>1, <2>2, <2>3 DEF Shape
    <3>2. QED
      BY <2>5, <3>1 DEF IInv, JobShape
  <2>8. \A r \in Root : granted[r] \subseteq granted'[r]
    BY <2>4 DEF IInv, TypeOK
  <2>9. \A q \in Proc, r \in Root : doomed'[q][r] \subseteq doomed[q][r]
    BY <2>4 DEF IInv, TypeOK
  <2>10. c \in granted'[job[p].at] /\ \A q \in Proc : c \notin doomed'[q][job[p].at]
    BY <2>1, <2>4 DEF IInv, TypeOK
  <2>11. HashGranted'
    BY <1>1, <2>8 DEF IInv, HashGranted, stores
  <2>12. GrantsStand'
    <3> SUFFICES ASSUME NEW r \in Root, NEW q \in Proc, Grants(pc'[q], job'[q], r)
                 PROVE  /\ job'[q].held \in granted'[r]
                        /\ \A o \in Proc : job'[q].held \notin doomed'[o][r]
      BY DEF GrantsStand, Granting
    <3>1. CASE q = p
      BY <2>3, <2>5, <2>10, <3>1 DEF Grants
    <3>2. CASE q # p
      BY <2>5, <2>8, <2>9, <3>2 DEF IInv, GrantsStand, Granting
    <3>3. QED
      BY <3>1, <3>2
  <2>13. LoadsAllowed'
    <3> SUFFICES ASSUME NEW q \in Proc PROVE MayReturn(pc[q], job[q], allowed[q])'
      BY DEF LoadsAllowed
    <3>1. CASE q = p
      BY <2>3, <2>5, <3>1 DEF MayReturn
    <3>2. CASE q # p
      <4>1. MayReturn(pc[q], job[q], allowed[q]) /\ Shape(pc[q], job[q])
        BY DEF IInv, LoadsAllowed, JobShape
      <4>2. pc[q] \in {"canonicalize", "exists", "link", "contains", "baseline", "compare"}
              => job[q].at \in Root
        BY <4>1 DEF Shape
      <4>3. allowed[q] \subseteq allowed'[q]
        BY <2>4
      <4>4. job[q].at \in Root /\ granted[job[q].at] \subseteq allowed[q]
              => granted'[job[q].at] \subseteq allowed'[q]
        BY <2>1, <2>4 DEF IInv, TypeOK
      <4>5. QED
        BY <2>5, <3>2, <4>1, <4>2, <4>3, <4>4 DEF MayReturn
    <3>3. QED
      BY <3>1, <3>2
  <2>14. RevocationsPend'
    <3> SUFFICES ASSUME NEW q \in Proc, NEW r \in Root, hash[r] \in Content,
                        hash[r] \in doomed'[q][r]
                 PROVE  Pending(pc'[q], job'[q], r)
      BY <1>1 DEF RevocationsPend, stores
    <3>1. Pending(pc[q], job[q], r)
      BY <2>9 DEF IInv, RevocationsPend
    <3>2. CASE q = p
      BY <1>1, <2>1, <2>3, <2>5, <3>1, <3>2 DEF Pending
    <3>3. CASE q # p
      BY <2>5, <3>1, <3>3
    <3>4. QED
      BY <3>2, <3>3
  <2>15. QED
    BY <2>6, <2>7, <2>11, <2>12, <2>13, <2>14 DEF IInv
<1>4. QED
  BY <1>2, <1>3

\* A step of p that puts a digest of its own, or none, in the companion of r.
LEMMA Overwrites ==
  ASSUME IInv, NEW p \in Proc, NEW r \in Root, NEW h \in Digest, Typed',
         \A q \in Proc \ {p} : Aside(q),
         hash' = [hash EXCEPT ![r] = h] \/ hash' = hash,
         h \in Content => h = job[p].held /\ Grants(pc[p], job[p], r),
         Shape(pc'[p], job'[p]),
         \A s \in Root : Grants(pc'[p], job'[p], s)
                           => Grants(pc[p], job[p], s) /\ job'[p].held = job[p].held,
         MayReturn(pc'[p], job'[p], allowed[p]),
         \A s \in Root : Pending(pc[p], job[p], s)
                           => Pending(pc'[p], job'[p], s) \/ (s = r /\ hash'[r] \notin Content),
         UNCHANGED <<granted, doomed, allowed>>
  PROVE  Rest'
<1>1. JobShape'
  BY AsideKeeps DEF IInv, JobShape
<1>2. \A s \in Root : \/ hash'[s] = hash[s]
                      \/ s = r /\ hash'[s] = h
  BY DEF IInv, TypeOK
<1>3. HashGranted'
  BY <1>2 DEF IInv, HashGranted, GrantsStand, Granting
<1>4. GrantsStand'
  BY AsideKeeps DEF IInv, GrantsStand, Granting
<1>5. LoadsAllowed'
  <2> SUFFICES ASSUME NEW q \in Proc PROVE MayReturn(pc[q], job[q], allowed[q])'
    BY DEF LoadsAllowed
  <2>1. CASE q = p
    BY <2>1 DEF MayReturn
  <2>2. CASE q # p
    <3>1. /\ pc'[q] = pc[q] /\ job'[q].op = job[q].op /\ job'[q].at = job[q].at
          /\ job'[q].held = job[q].held /\ job'[q].outcome = job[q].outcome
      BY <2>2, AsideKeeps DEF IInv, Aside
    <3>2. MayReturn(pc[q], job[q], allowed[q])
      BY DEF IInv, LoadsAllowed
    <3>3. QED
      BY <3>1, <3>2 DEF MayReturn
  <2>3. QED
    BY <2>1, <2>2
<1>6. RevocationsPend'
  <2> SUFFICES ASSUME NEW q \in Proc, NEW s \in Root, hash'[s] \in Content,
                      hash'[s] \in doomed[q][s]
               PROVE  Pending(pc'[q], job'[q], s)
    BY DEF RevocationsPend
  <2>1. hash'[s] = hash[s]
    BY <1>2 DEF IInv, GrantsStand, Granting
  <2>2. Pending(pc[q], job[q], s)
    BY <2>1 DEF IInv, RevocationsPend
  <2>3. CASE q = p
    BY <2>2, <2>3
  <2>4. CASE q # p
    BY <2>2, <2>4, AsideKeeps DEF IInv
  <2>5. QED
    BY <2>3, <2>4
<1>7. QED
  BY <1>1, <1>3, <1>4, <1>5, <1>6 DEF Rest

LEMMA OpenKeeps ==
  ASSUME IInv, NEW p \in Proc, Open(p)
  PROVE  IInv'
<1>1. UNCHANGED <<disk, entries, faults, granted, doomed, allowed, rootOnly>> /\ pc[p] = "open"
  BY DEF Open
<1>2. /\ Typed' /\ Rest' /\ hash' \in [Root -> Digest] /\ calm' \in [Proc -> BOOLEAN]
  <2>1. CASE Finish(p, "failed") /\ UNCHANGED <<hash, calm>>
    BY <1>1, <2>1, FinishKeeps DEF OUTCOMES, IInv, TypeOK
  <2>2. CASE /\ hash' = [hash EXCEPT ![job[p].at] = Torn] /\ Interfere(p)
             /\ GoTo(p, "write") /\ Learn(p, [job[p] EXCEPT !.linked = TRUE])
    <3> DEFINE k == [job[p] EXCEPT !.linked = TRUE]
    <3>1. /\ job[p].op = "trust" /\ job[p].named /\ job[p].at \in Root
          /\ job[p].held \in Content /\ job[p] \in Job
      BY <1>1, Own DEF Shape
    <3>2. /\ k \in Job /\ k.op = "trust" /\ k.named = job[p].named /\ k.at = job[p].at
          /\ k.held = job[p].held
      BY <3>1, JobLinked
    <3>3. pc' = [pc EXCEPT ![p] = "write"] /\ job' = [job EXCEPT ![p] = k]
      BY <2>2 DEF GoTo, Learn
    <3> HIDE DEF k
    <3>4. /\ Typed' /\ pc'[p] = "write" /\ job'[p] = k /\ \A q \in Proc \ {p} : Aside(q)
      BY <3>2, <3>3 DEF IInv, TypeOK, Typed, Aside, STEPS
    <3>5. /\ Shape("write", k) /\ MayReturn("write", k, allowed[p])
          /\ \A s \in Root : /\ Grants("write", k, s) => Grants(pc[p], job[p], s)
                             /\ Pending(pc[p], job[p], s) => s = job[p].at
      BY <1>1, <3>1, <3>2 DEF Shape, MayReturn, Grants, Pending
    <3>6. hash' \in [Root -> Digest] /\ hash'[job[p].at] = Torn /\ Torn \notin Content
      BY <2>2, <3>1, ContentAssumption DEF IInv, TypeOK
    <3>7. Rest'
      <4>1. \A s \in Root : /\ Grants(pc'[p], job'[p], s)
                                 => Grants(pc[p], job[p], s) /\ job'[p].held = job[p].held
                            /\ Pending(pc[p], job[p], s)
                                 => s = job[p].at /\ hash'[job[p].at] \notin Content
        BY <3>2, <3>4, <3>5, <3>6
      <4>2. Shape(pc'[p], job'[p]) /\ MayReturn(pc'[p], job'[p], allowed[p])
        BY <3>4, <3>5
      <4> DEFINE h == Torn
      <4>3. /\ hash' = [hash EXCEPT ![job[p].at] = h] /\ h \notin Content /\ h \in Digest
            /\ UNCHANGED <<granted, doomed, allowed>>
        BY <1>1, <2>2, <3>6
      <4> DEFINE r == job[p].at
      <4>4. r \in Root
        BY <3>1
      <4>5. /\ \A s \in Root : Grants(pc'[p], job'[p], s)
                               => Grants(pc[p], job[p], s) /\ job'[p].held = job[p].held
            /\ \A s \in Root : Pending(pc[p], job[p], s)
                               => Pending(pc'[p], job'[p], s) \/ (s = r /\ hash'[r] \notin Content)
        BY <4>1
      <4>6. hash' = [hash EXCEPT ![r] = h]
        BY <4>3
      <4>7. Typed' /\ \A q \in Proc \ {p} : Aside(q)
        BY <3>4
      <4> HIDE DEF h, r
      <4>8. QED
        BY <4>2, <4>3, <4>4, <4>5, <4>6, <4>7, Overwrites
    <3>8. calm' \in [Proc -> BOOLEAN]
      BY <2>2 DEF Interfere, IInv, TypeOK
    <3>9. QED
      BY <3>4, <3>6, <3>7, <3>8
  <2>3. QED
    BY <2>1, <2>2 DEF Open
<1>3. TypeOK'
  BY <1>1, <1>2 DEF IInv, TypeOK, Typed, disk
<1>4. QED
  BY <1>2, <1>3 DEF IInv, Rest

LEMMA WriteKeeps ==
  ASSUME IInv, NEW p \in Proc, Write(p)
  PROVE  IInv'
<1> DEFINE k == [job[p] EXCEPT !.store = "trusted", !.linked = FALSE]
<1>1. UNCHANGED <<disk, entries, faults, granted, doomed, allowed, rootOnly>> /\ pc[p] = "write"
  BY DEF Write
<1>2. /\ job[p].op = "trust" /\ job[p].named /\ job[p].at \in Root
      /\ job[p].held \in Content /\ job[p] \in Job
  BY <1>1, Own DEF Shape
<1>3. "trusted" \in STORES /\ FALSE \in BOOLEAN
  BY DEF STORES
<1>4. /\ k \in Job /\ k.op = "trust" /\ k.named = job[p].named /\ k.at = job[p].at
      /\ k.held = job[p].held /\ k.store = "trusted"
  <2> DEFINE j == job[p]
  <2>1. j \in Job
    BY <1>2
  <2>2. k = [j EXCEPT !.store = "trusted", !.linked = FALSE]
    OBVIOUS
  <2> HIDE DEF j, k
  <2>3. k \in Job /\ k.op = j.op /\ k.named = j.named /\ k.at = j.at /\ k.held = j.held /\ k.store = "trusted"
    BY ONLY ZenonT(90), <1>3, <2>1, <2>2, JobStore
  <2> QED
    BY <1>2, <2>3 DEF j
<1>5. /\ pc' = [pc EXCEPT ![p] = "canonicalize"] /\ job' = [job EXCEPT ![p] = k]
      /\ hash' = (IF job[p].linked THEN [hash EXCEPT ![job[p].at] = job[p].held] ELSE hash)
      /\ Interfere(p)
  BY DEF Write, GoTo, Learn
<1> HIDE DEF k
<1>6. /\ Typed' /\ pc'[p] = "canonicalize" /\ job'[p] = k /\ \A q \in Proc \ {p} : Aside(q)
  BY <1>4, <1>5 DEF IInv, TypeOK, Typed, Aside, STEPS
<1>7. /\ Shape("canonicalize", k) /\ MayReturn("canonicalize", k, allowed[p])
      /\ \A s \in Root : /\ Grants("canonicalize", k, s) => Grants(pc[p], job[p], s)
                         /\ ~Pending(pc[p], job[p], s)
      /\ Grants(pc[p], job[p], job[p].at)
  BY <1>1, <1>2, <1>4 DEF Shape, MayReturn, Grants, Pending
<1>8. job[p].held \in Digest
  BY <1>2
<1>9. hash' = [hash EXCEPT ![job[p].at] = job[p].held] \/ hash' = hash
  BY <1>5
<1>10. Rest'
  BY <1>1, <1>2, <1>4, <1>6, <1>7, <1>8, <1>9, Overwrites
<1>11. hash' \in [Root -> Digest] /\ calm' \in [Proc -> BOOLEAN]
  BY <1>5, <1>8 DEF Interfere, IInv, TypeOK
<1>12. TypeOK'
  BY <1>1, <1>6, <1>11 DEF IInv, TypeOK, Typed, disk
<1>13. QED
  BY <1>10, <1>12 DEF IInv, Rest

LEMMA RemoveKeeps ==
  ASSUME IInv, NEW p \in Proc, Remove(p)
  PROVE  IInv'
<1>1. UNCHANGED <<disk, hash, faults, granted, doomed, allowed, rootOnly>> /\ pc[p] = "remove"
  BY DEF Remove
<1>2. Typed' /\ Rest'
  <2>1. CASE Finish(p, "failed")
    BY <1>1, <2>1, FinishKeeps DEF OUTCOMES
  <2>2. CASE GoTo(p, "companion") /\ UNCHANGED job
    <3>1. /\ Shape("companion", job[p]) /\ MayReturn("companion", job[p], allowed[p])
          /\ \A r \in Root : /\ ~Grants("companion", job[p], r)
                             /\ Pending(pc[p], job[p], r) => Pending("companion", job[p], r)
      BY <1>1, Own DEF Shape, MayReturn, Grants, Pending
    <3>2. QED
      BY <1>1, <2>2, <3>1, Moves DEF STEPS
  <2>3. QED
    BY <2>1, <2>2 DEF Remove
<1>3. entries' \in [STORES -> SUBSET Root] /\ calm' \in [Proc -> BOOLEAN]
  <2>1. entries \in [STORES -> SUBSET Root] /\ calm \in [Proc -> BOOLEAN]
    BY DEF IInv, TypeOK
  <2>2. \/ UNCHANGED <<entries, calm>>
        \/ /\ entries' = [entries EXCEPT !["trusted"] = @ \ {job[p].at}]
           /\ Interfere(p)
    BY DEF Remove
  <2>3. CASE UNCHANGED <<entries, calm>>
    BY <2>1, <2>3
  <2>4. CASE /\ entries' = [entries EXCEPT !["trusted"] = @ \ {job[p].at}]
             /\ Interfere(p)
    <3>1. calm' \in [Proc -> BOOLEAN]
      BY <2>4 DEF Interfere
    <3>2. entries' \in [STORES -> SUBSET Root]
      BY <2>1, <2>4
    <3>3. QED
      BY <3>1, <3>2
  <2>5. QED
    BY <2>2, <2>3, <2>4
<1>4. TypeOK'
  BY <1>1, <1>2, <1>3 DEF IInv, TypeOK, Typed, disk
<1>5. QED
  BY <1>2, <1>4 DEF IInv, Rest

\* The companion goes, and with it the grants that were over.
LEMMA RemoveCompanionKeeps ==
  ASSUME IInv, NEW p \in Proc, RemoveCompanion(p)
  PROVE  IInv'
<1> DEFINE k == [job[p] EXCEPT !.outcome = "ok"]
<1>1. UNCHANGED <<disk, entries, faults, doomed, allowed, rootOnly>> /\ pc[p] = "companion"
  BY DEF RemoveCompanion
<1>2. job[p].op = "untrust" /\ job[p].at \in Root /\ job[p] \in Job
  BY <1>1, Own DEF Shape
<1>3. k \in Job /\ k.op = "untrust"
  BY <1>2, JobOutcome DEF OUTCOMES
<1>4. /\ pc' = [pc EXCEPT ![p] = "done"] /\ Revoke(p) /\ Interfere(p)
      /\ hash' = [hash EXCEPT ![job[p].at] = NoHash]
      /\ job' = Unlinked(job[p].at, [job EXCEPT ![p] = k])
  BY DEF RemoveCompanion, GoTo
<1> HIDE DEF k
<1>5. /\ job'[p] = k
      /\ \A q \in Proc \ {p} : job'[q] \in {job[q], [job[q] EXCEPT !.linked = FALSE]}
  BY <1>1, <1>4 DEF Unlinked, IInv, TypeOK
<1>6. pc'[p] = "done" /\ pc' \in [Proc -> STEPS] /\ \A q \in Proc \ {p} : Aside(q)
  BY <1>4, <1>5 DEF IInv, TypeOK, STEPS, Aside
<1>7. Typed'
  <2>1. \A q \in Proc : job'[q] \in Job
    BY <1>3, <1>5, <1>6, AsideKeeps DEF IInv
  <2>2. job' \in [Proc -> Job]
    BY <1>4, <2>1 DEF Unlinked
  <2>3. QED
    BY <1>6, <2>2 DEF Typed
<1>8. \A r \in Root : hash'[r] \in Content => hash'[r] = hash[r] /\ ~Pending(pc[p], job[p], r)
  BY <1>1, <1>2, <1>4, ContentAssumption DEF Pending, IInv, TypeOK
<1>9. Rest'
  BY <1>1, <1>3, <1>4, <1>5, <1>6, <1>7, <1>8, SuccessKeeps
<1>10. /\ hash' \in [Root -> Digest] /\ calm' \in [Proc -> BOOLEAN]
       /\ granted' \in [Root -> SUBSET Content]
  BY <1>4 DEF Interfere, Revoke, IInv, TypeOK
<1>11. TypeOK'
  BY <1>1, <1>7, <1>10 DEF IInv, TypeOK, Typed, disk
<1>12. QED
  BY <1>9, <1>11 DEF IInv, Rest

LEMMA SweepKeeps ==
  ASSUME IInv, NEW p \in Proc, Sweep(p)
  PROVE  IInv'
<1>1. UNCHANGED <<disk, stores, faults, history>> /\ pc[p] = "sweep"
  BY DEF Sweep
<1>2. job[p] \in Job /\ job[p].op = "clean" /\ job[p].todo \subseteq Root
      /\ job[p].removed \subseteq Root
  BY <1>1, Own DEF Shape, Job
<1>3. Typed' /\ Rest'
  <2>1. ASSUME NEW r \in job[p].todo, NEW s \in {"sweep", "unlink"}, GoTo(p, s),
               Learn(p, [job[p] EXCEPT !.todo = @ \ {r}, !.at = r])
        PROVE  Typed' /\ Rest'
    <3> DEFINE t == job[p].todo \ {r}
               k == [job[p] EXCEPT !.todo = t, !.at = r]
    <3>1. Learn(p, k)
      BY <2>1
    <3>2. job[p] \in Job /\ t \in SUBSET Root /\ r \in Root
      BY <1>2, <2>1
    <3> HIDE DEF t
    <3>3. k \in Job /\ k.op = job[p].op /\ k.at = r /\ k.store = job[p].store
          /\ k.removed = job[p].removed
      BY <3>2 DEF Job
    <3> HIDE DEF k
    <3>4. /\ Shape(s, k) /\ MayReturn(s, k, allowed[p])
          /\ \A x \in Root : /\ ~Grants(s, k, x)
                             /\ Pending(pc[p], job[p], x) => Pending(s, k, x)
      BY <1>1, <1>2, <3>2, <3>3 DEF Shape, MayReturn, Grants, Pending
    <3>5. QED
      BY <1>1, <2>1, <3>1, <3>3, <3>4, Goes DEF STEPS, stores, history
  <2>2. CASE /\ job[p].todo = {} /\ GoTo(p, "companions")
             /\ Learn(p, [job[p] EXCEPT !.todo = IF job[p].store = "trusted"
                                                  THEN job[p].removed ELSE {}])
    <3> DEFINE t == IF job[p].store = "trusted" THEN job[p].removed ELSE {}
               k == [job[p] EXCEPT !.todo = t]
    <3>1. Learn(p, k)
      BY <2>2
    <3>2. t \in SUBSET Root /\ (job[p].store = "trusted" => t = job[p].removed)
      BY <1>2
    <3> HIDE DEF t
    <3>3. k \in Job /\ k.op = "clean" /\ k.store = job[p].store /\ k.todo = t
          /\ k.removed = job[p].removed
      BY <1>2, <3>2, JobTodo
    <3> HIDE DEF k
    <3>4. /\ Shape("companions", k) /\ MayReturn("companions", k, allowed[p])
          /\ \A x \in Root : /\ ~Grants("companions", k, x)
                             /\ Pending(pc[p], job[p], x) => Pending("companions", k, x)
      BY <1>1, <1>2, <3>2, <3>3 DEF Shape, MayReturn, Grants, Pending
    <3>5. QED
      BY <1>1, <2>2, <3>1, <3>3, <3>4, Goes DEF STEPS, stores, history
  <2>3. ASSUME UNCHANGED pc PROVE GoTo(p, "sweep")
    BY <1>1, <2>3 DEF GoTo, IInv, TypeOK
  <2>4. QED
    BY <2>1, <2>2, <2>3 DEF Sweep
<1>4. TypeOK'
  BY <1>1, <1>3, TypeStays DEF IInv, TypeOK, history
<1>5. QED
  BY <1>3, <1>4 DEF IInv, Rest

\* The grants that are over when the entry goes are void once its companion has
\* gone too.
LEMMA UnlinkKeeps ==
  ASSUME IInv, NEW p \in Proc, Unlink(p)
  PROVE  IInv'
<1>1. UNCHANGED <<disk, hash, faults, granted, allowed, rootOnly>> /\ pc[p] = "unlink"
  BY DEF Unlink
<1>2. job[p].op = "clean" /\ job[p].at \in Root /\ job[p] \in Job /\ job[p].removed \subseteq Root
  BY <1>1, Own DEF Shape, Job
<1>3. CASE Finish(p, "failed") /\ UNCHANGED <<entries, doomed, calm>>
  <2>1. Typed' /\ Rest'
    BY <1>1, <1>3, FinishKeeps DEF OUTCOMES
  <2>2. TypeOK'
    BY <1>1, <1>3, <2>1 DEF IInv, TypeOK, Typed, disk
  <2>3. QED
    BY <2>1, <2>2 DEF IInv, Rest
<1>4. CASE /\ entries' = [entries EXCEPT ![job[p].store] = @ \ {job[p].at}]
           /\ GoTo(p, "sweep") /\ Learn(p, [job[p] EXCEPT !.removed = @ \cup {job[p].at}])
           /\ doomed' = [doomed EXCEPT ![p][job[p].at] =
                           IF job[p].store = "trusted" THEN Settled(job[p].at) ELSE {}]
           /\ Interfere(p)
  <2> DEFINE x == job[p].removed \cup {job[p].at}
             k == [job[p] EXCEPT !.removed = x]
             d == IF job[p].store = "trusted" THEN Settled(job[p].at) ELSE {}
  <2>1. x \in SUBSET Root /\ (\A r \in Root : r \in x <=> r \in job[p].removed \/ r = job[p].at)
    BY <1>2
  <2>2. pc' = [pc EXCEPT ![p] = "sweep"] /\ job' = [job EXCEPT ![p] = k]
        /\ doomed' = [doomed EXCEPT ![p][job[p].at] = d]
    BY <1>4 DEF GoTo, Learn
  <2>3. /\ d \subseteq granted[job[p].at] /\ (job[p].store # "trusted" => d = {})
        /\ \A q \in Granting(job[p].at) : job[q].held \notin d
    BY DEF Settled
  <2> HIDE DEF x
  <2> HIDE DEF d
  <2>4. /\ k \in Job /\ k.op = "clean" /\ k.store = job[p].store /\ k.removed = x
    BY <1>2, <2>1, JobRemoved
  <2> HIDE DEF k
  <2>5. /\ Typed' /\ pc'[p] = "sweep" /\ job'[p] = k
        /\ \A q \in Proc \ {p} : pc'[q] = pc[q] /\ job'[q] = job[q]
    BY <2>2, <2>4 DEF IInv, TypeOK, Typed, STEPS
  <2>6. /\ doomed' \in [Proc -> [Root -> SUBSET Content]]
        /\ \A q \in Proc, r \in Root : \/ doomed'[q][r] = doomed[q][r]
                                       \/ q = p /\ r = job[p].at /\ doomed'[q][r] = d
    BY <1>2, <2>2, <2>3 DEF IInv, TypeOK
  <2>7. TypeOK'
    BY <1>1, <1>2, <1>4, <2>5, <2>6 DEF IInv, TypeOK, Typed, Interfere, disk, Job
  <2>8. JobShape'
    <3>1. Shape("sweep", k)
      BY <2>4 DEF Shape
    <3>2. QED
      BY <2>5, <3>1 DEF IInv, JobShape
  <2>9. HashGranted'
    BY <1>1 DEF IInv, HashGranted
  <2>10. GrantsStand'
    <3> SUFFICES ASSUME NEW r \in Root, NEW q \in Proc, Grants(pc'[q], job'[q], r)
                 PROVE  /\ job'[q].held \in granted[r]
                        /\ \A o \in Proc : job'[q].held \notin doomed'[o][r]
      BY <1>1 DEF GrantsStand, Granting
    <3>1. q # p
      BY <2>4, <2>5 DEF Grants
    <3>2. /\ job'[q] = job[q] /\ q \in Granting(r) /\ job[q].held \in granted[r]
          /\ \A o \in Proc : job[q].held \notin doomed[o][r]
      BY <2>5, <3>1 DEF IInv, GrantsStand, Granting
    <3>3. QED
      BY <2>3, <2>6, <3>2
  <2>11. LoadsAllowed'
    BY <1>1, <2>4, <2>5 DEF IInv, LoadsAllowed, MayReturn
  <2>12. RevocationsPend'
    <3> SUFFICES ASSUME NEW q \in Proc, NEW r \in Root, hash[r] \in Content,
                        hash[r] \in doomed'[q][r]
                 PROVE  Pending(pc'[q], job'[q], r)
      BY <1>1 DEF RevocationsPend
    <3>1. CASE doomed'[q][r] = doomed[q][r]
      <4>1. Pending(pc[q], job[q], r)
        BY <3>1 DEF IInv, RevocationsPend
      <4>2. CASE q = p
        BY <1>1, <1>2, <2>1, <2>4, <2>5, <4>1, <4>2 DEF Pending
      <4>3. CASE q # p
        BY <2>5, <4>1, <4>3
      <4>4. QED
        BY <4>2, <4>3
    <3>2. CASE q = p /\ r = job[p].at /\ doomed'[q][r] = d
      <4>1. job[p].store = "trusted" /\ r \in x
        BY <2>1, <2>3, <3>2
      <4>2. QED
        BY <2>4, <2>5, <3>2, <4>1 DEF Pending
    <3>3. QED
      BY <2>6, <3>1, <3>2
  <2>13. QED
    BY <2>7, <2>8, <2>9, <2>10, <2>11, <2>12 DEF IInv
<1>5. QED
  BY <1>3, <1>4 DEF Unlink

LEMMA CompanionsKeeps ==
  ASSUME IInv, NEW p \in Proc, Companions(p)
  PROVE  IInv'
<1>1. UNCHANGED <<disk, entries, faults, doomed, allowed, rootOnly>> /\ pc[p] = "companions"
  BY DEF Companions
<1>2. job[p].op = "clean" /\ job[p] \in Job /\ job[p].todo \subseteq Root
  BY <1>1, Own DEF Shape, Job
<1>3. ASSUME NEW r \in job[p].todo,
             hash' = [hash EXCEPT ![r] = NoHash],
             job' = Unlinked(r, [job EXCEPT ![p] = [job[p] EXCEPT !.todo = @ \ {r}]]),
             Interfere(p), UNCHANGED <<pc, granted>>
      PROVE  IInv'
  <2> DEFINE t == job[p].todo \ {r}
             k == [job[p] EXCEPT !.todo = t]
             h == NoHash
  <2>1. r \in Root /\ t \in SUBSET Root /\ (\A s \in Root : s \in t <=> s \in job[p].todo /\ s # r)
    BY <1>2, <1>3
  <2>2. job' = Unlinked(r, [job EXCEPT ![p] = k])
    BY <1>3
  <2> HIDE DEF t
  <2>3. /\ k \in Job /\ k.op = "clean" /\ k.todo = t /\ k.store = job[p].store
        /\ k.removed = job[p].removed
    BY <1>2, <2>1, JobTodo
  <2> HIDE DEF k
  <2>4. /\ job'[p] = k
        /\ \A q \in Proc \ {p} : job'[q] \in {job[q], [job[q] EXCEPT !.linked = FALSE]}
    BY <1>1, <2>2 DEF Unlinked, IInv, TypeOK
  <2>5. \A q \in Proc \ {p} : Aside(q)
    BY <1>3, <2>4 DEF Aside
  <2>6. Typed'
    <3>1. \A q \in Proc : job'[q] \in Job
      BY <2>3, <2>4, <2>5, AsideKeeps DEF IInv
    <3>2. job' \in [Proc -> Job]
      BY <2>2, <3>1 DEF Unlinked
    <3>3. QED
      BY <1>3, <3>2 DEF Typed, IInv, TypeOK
  <2>7. pc'[p] = "companions"
    BY <1>1, <1>3
  <2>8. /\ hash' = [hash EXCEPT ![r] = h] /\ h \notin Content /\ h \in Digest /\ hash'[r] \notin Content
        /\ UNCHANGED <<granted, doomed, allowed>>
    BY <1>1, <1>3, <2>1, ContentAssumption DEF IInv, TypeOK
  <2> HIDE DEF h
  <2>9. /\ Shape(pc'[p], job'[p]) /\ MayReturn(pc'[p], job'[p], allowed[p])
        /\ \A s \in Root : /\ ~Grants(pc'[p], job'[p], s)
                           /\ Pending(pc[p], job[p], s)
                                => Pending(pc'[p], job'[p], s) \/ (s = r /\ hash'[r] \notin Content)
    BY <1>1, <1>2, <2>1, <2>3, <2>4, <2>7, <2>8 DEF Shape, MayReturn, Grants, Pending
  <2>10. Rest'
    BY <2>1, <2>5, <2>6, <2>8, <2>9, Overwrites
  <2>11. hash' \in [Root -> Digest] /\ calm' \in [Proc -> BOOLEAN]
    BY <1>3 DEF Interfere, IInv, TypeOK
  <2>12. TypeOK'
    BY <1>1, <1>3, <2>6, <2>11 DEF IInv, TypeOK, Typed, disk
  <2>13. QED
    BY <2>10, <2>12 DEF IInv, Rest
<1>4. CASE /\ job[p].todo = {} /\ Finish(p, "ok") /\ Revoke(p) /\ UNCHANGED <<hash, calm>>
  <2> DEFINE k == [job[p] EXCEPT !.outcome = "ok"]
  <2>1. k \in Job /\ k.op = "clean"
    BY <1>2, JobOutcome DEF OUTCOMES
  <2>2. pc' = [pc EXCEPT ![p] = "done"] /\ job' = [job EXCEPT ![p] = k]
    BY <1>4 DEF Finish, GoTo, Learn
  <2> HIDE DEF k
  <2>3. /\ Typed' /\ pc'[p] = "done" /\ job'[p] = k
        /\ \A q \in Proc \ {p} : Aside(q)
    BY <2>1, <2>2 DEF IInv, TypeOK, Typed, Aside, STEPS
  <2>4. \A r \in Root : ~Pending(pc[p], job[p], r)
    BY <1>1, <1>2, <1>4 DEF Pending
  <2>5. Rest'
    BY <1>1, <1>4, <2>1, <2>3, <2>4, SuccessKeeps
  <2>6. TypeOK'
    BY <1>1, <1>4, <2>3 DEF Revoke, IInv, TypeOK, Typed, disk
  <2>7. QED
    BY <2>5, <2>6 DEF IInv, Rest
<1>5. QED
  BY <1>3, <1>4 DEF Companions

LEMMA ReturnKeeps ==
  ASSUME IInv, NEW p \in Proc, Return(p)
  PROVE  IInv'
<1>1. UNCHANGED <<disk, stores, faults, granted, rootOnly>> /\ pc[p] = "done"
  BY DEF Return
<1>2. NoJob \in Job /\ NoJob.op = "none"
  BY DEF NoJob, Job, OPS, STORES, OUTCOMES
<1>3. /\ pc' = [pc EXCEPT ![p] = "idle"] /\ job' = [job EXCEPT ![p] = NoJob]
      /\ doomed' = [doomed EXCEPT ![p] = [r \in Root |-> {}]]
      /\ allowed' = [allowed EXCEPT ![p] = {}] /\ calm' = [calm EXCEPT ![p] = TRUE]
  BY DEF Return, GoTo, Learn
<1>4. /\ Typed' /\ pc'[p] = "idle" /\ job'[p] = NoJob
      /\ \A q \in Proc \ {p} : pc'[q] = pc[q] /\ job'[q] = job[q]
  BY <1>2, <1>3 DEF IInv, TypeOK, Typed, STEPS
<1>5. TypeOK'
  BY <1>1, <1>3, <1>4 DEF IInv, TypeOK, Typed, disk, stores
<1>6. \A q \in Proc, r \in Root :
         (q # p /\ doomed'[q][r] = doomed[q][r]) \/ doomed'[q][r] = {}
  BY <1>3 DEF IInv, TypeOK
<1>7. Shape("idle", NoJob) /\ \A r \in Root : ~Grants("idle", NoJob, r)
  BY DEF Shape, Grants
<1>8. JobShape'
  BY <1>4, <1>7 DEF IInv, JobShape
<1>9. HashGranted'
  BY <1>1 DEF IInv, HashGranted, stores
<1>10. GrantsStand'
  BY <1>1, <1>4, <1>6, <1>7 DEF IInv, GrantsStand, Granting
<1>11. LoadsAllowed'
  BY <1>1, <1>2, <1>3, <1>4 DEF IInv, TypeOK, LoadsAllowed, MayReturn
<1>12. RevocationsPend'
  BY <1>1, <1>4, <1>6 DEF IInv, RevocationsPend, stores
<1>13. QED
  BY <1>5, <1>8, <1>9, <1>10, <1>11, <1>12 DEF IInv

LEMMA StopKeeps ==
  ASSUME IInv, NEW p \in Proc, Stop(p)
  PROVE  IInv'
<1>1. /\ UNCHANGED <<disk, stores, granted, doomed, allowed, rootOnly>>
      /\ Finish(p, "failed") /\ faults' = faults + 1 /\ calm' = [calm EXCEPT ![p] = FALSE]
  BY DEF Stop
<1>2. Typed' /\ Rest'
  BY <1>1, FinishKeeps DEF stores, OUTCOMES
<1>3. TypeOK'
  BY <1>1, <1>2, TypeStays DEF IInv, TypeOK
<1>4. QED
  BY <1>2, <1>3 DEF IInv, Rest

LEMMA WarnKeeps ==
  ASSUME IInv, NEW p \in Proc, Warn(p)
  PROVE  IInv'
<1>1. /\ UNCHANGED <<disk, stores, granted, doomed, allowed, rootOnly>>
      /\ pc[p] \in {"exists", "link"} /\ RecordFailed(p)
      /\ faults' = faults + 1 /\ calm' = [calm EXCEPT ![p] = FALSE]
  BY DEF Warn
<1>2. Typed' /\ Rest'
  BY <1>1, RecordFailedKeeps DEF stores
<1>3. TypeOK'
  BY <1>1, <1>2, TypeStays DEF IInv, TypeOK
<1>4. QED
  BY <1>2, <1>3 DEF IInv, Rest

\* A command learns its subject: what it may return or will revoke is settled.
LEMMA ResolvedKeeps ==
  ASSUME IInv, NEW p \in Proc, pc[p] \in {"idle", "walk"},
         NEW o \in {"load", "trust", "untrust"}, NEW r \in Root, NEW named \in BOOLEAN,
         o = "load" => named, Resolved(p, o, r, named), UNCHANGED <<disk, stores, faults>>
  PROVE  IInv'
<1> DEFINE s == FirstStep(o, named)
           t == FirstStore(o, named)
           k == [NoJob EXCEPT !.op = o, !.at = r, !.named = named, !.store = t]
           d == IF o = "untrust" \/ (o = "trust" /\ named) THEN Settled(r) ELSE {}
<1>1. /\ s \in STEPS /\ t \in STORES /\ s = (IF o = "untrust" THEN "remove" ELSE "canonicalize")
      /\ t = (IF o = "trust" /\ ~named THEN "trusted" ELSE "tracked")
  BY DEF FirstStep, FirstStore, STEPS, STORES
<1>2. /\ pc' = [pc EXCEPT ![p] = s] /\ job' = [job EXCEPT ![p] = k]
      /\ doomed' = [doomed EXCEPT ![p][r] = d]
      /\ allowed' = [allowed EXCEPT ![p] = granted[r]]
      /\ UNCHANGED <<granted, calm, rootOnly>>
  BY DEF Resolved, GoTo, Learn
<1>3. /\ d \subseteq granted[r] /\ (o = "load" => d = {}) /\ (o = "trust" /\ ~named => d = {})
      /\ \A q \in Granting(r) : job[q].held \notin d
  BY DEF Settled
<1> HIDE DEF s
<1> HIDE DEF d
<1> HIDE DEF t
<1>4. /\ k \in Job /\ k.op = o /\ k.at = r /\ k.named = named /\ k.store = t
      /\ k.held = NoHash
  BY <1>1 DEF NoJob, Job, OPS, OUTCOMES
<1> HIDE DEF k
<1>5. /\ Typed' /\ pc'[p] = s /\ job'[p] = k
      /\ \A q \in Proc \ {p} : pc'[q] = pc[q] /\ job'[q] = job[q]
  BY <1>1, <1>2, <1>4 DEF IInv, TypeOK, Typed
<1>6. /\ doomed' \in [Proc -> [Root -> SUBSET Content]]
      /\ \A q \in Proc, x \in Root : \/ (doomed'[q][x] = doomed[q][x] /\ (q # p \/ x # r))
                                     \/ q = p /\ x = r /\ doomed'[q][x] = d
  BY <1>2, <1>3 DEF IInv, TypeOK
<1>7. allowed' \in [Proc -> SUBSET Content]
  BY <1>2 DEF IInv, TypeOK
<1>8. TypeOK'
  BY <1>2, <1>5, <1>6, <1>7 DEF IInv, TypeOK, Typed, disk, stores
<1>9. NoHash \notin Content
  BY ContentAssumption
<1>10. /\ Shape(s, k) /\ \A x \in Root : ~Grants(s, k, x)
  BY <1>1, <1>4, <1>9 DEF Shape, Grants
<1>11. JobShape'
  BY <1>5, <1>10 DEF IInv, JobShape
<1>12. HashGranted'
  BY <1>2 DEF IInv, HashGranted, stores
<1>13. GrantsStand'
  <2> SUFFICES ASSUME NEW x \in Root, NEW q \in Proc, Grants(pc'[q], job'[q], x)
               PROVE  /\ job'[q].held \in granted[x]
                      /\ \A y \in Proc : job'[q].held \notin doomed'[y][x]
    BY <1>2 DEF GrantsStand, Granting
  <2>1. q # p
    BY <1>5, <1>10
  <2>2. /\ job'[q] = job[q] /\ q \in Granting(x) /\ job[q].held \in granted[x]
        /\ \A y \in Proc : job[q].held \notin doomed[y][x]
    BY <1>5, <2>1 DEF IInv, GrantsStand, Granting
  <2>3. QED
    BY <1>3, <1>6, <2>2
<1>14. LoadsAllowed'
  <2> SUFFICES ASSUME NEW q \in Proc PROVE MayReturn(pc[q], job[q], allowed[q])'
    BY DEF LoadsAllowed
  <2>1. CASE q = p
    <3>1. allowed'[p] = granted[r]
      BY <1>2 DEF IInv, TypeOK
    <3>2. s \in {"remove", "canonicalize"}
      BY <1>1
    <3>3. QED
      BY <1>2, <1>4, <1>5, <2>1, <3>1, <3>2 DEF MayReturn
  <2>2. CASE q # p
    BY <1>2, <1>5, <2>2 DEF IInv, TypeOK, LoadsAllowed, MayReturn
  <2>3. QED
    BY <2>1, <2>2
<1>15. RevocationsPend'
  <2> SUFFICES ASSUME NEW q \in Proc, NEW x \in Root, hash[x] \in Content,
                      hash[x] \in doomed'[q][x]
               PROVE  Pending(pc'[q], job'[q], x)
    BY DEF RevocationsPend, stores
  <2>1. CASE doomed'[q][x] = doomed[q][x] /\ (q # p \/ x # r)
    <3>1. Pending(pc[q], job[q], x)
      BY <2>1 DEF IInv, RevocationsPend
    <3>2. q # p
      BY <3>1 DEF Pending
    <3>3. QED
      BY <1>5, <3>1, <3>2
  <2>2. CASE q = p /\ x = r /\ doomed'[q][x] = d
    <3>1. o = "untrust" \/ (o = "trust" /\ named)
      BY <1>3, <2>2
    <3>2. QED
      BY <1>1, <1>4, <1>5, <2>2, <3>1 DEF Pending
  <2>3. QED
    BY <1>6, <2>1, <2>2
<1>16. QED
  BY <1>8, <1>11, <1>12, <1>13, <1>14, <1>15 DEF IInv

LEMMA BeginKeeps ==
  ASSUME IInv, NEW p \in Proc, Begin(p)
  PROVE  IInv'
<1>1. UNCHANGED <<disk, stores, faults>> /\ pc[p] = "idle"
  BY DEF Begin
<1>2. ASSUME NEW k \in Job, NEW s \in {"walk", "sweep"}, GoTo(p, s), Learn(p, k), UNCHANGED history,
             s = "walk" => k.op \in {"load", "trust", "untrust"} /\ k.start \in Root,
             s = "sweep" => k.op = "clean"
      PROVE  IInv'
  <2>1. /\ Shape(s, k) /\ MayReturn(s, k, allowed[p])
        /\ \A r \in Root : ~Grants(s, k, r) /\ ~Pending(pc[p], job[p], r)
    BY <1>1, <1>2 DEF Shape, MayReturn, Grants, Pending
  <2>2. Typed' /\ Rest'
    BY <1>1, <1>2, <2>1, Goes DEF STEPS, stores, history
  <2>3. TypeOK'
    BY <1>1, <1>2, <2>2, TypeStays DEF IInv, TypeOK, history
  <2>4. QED
    BY <2>2, <2>3 DEF IInv, Rest
<1>3. ASSUME NEW o \in {"load", "trust", "untrust"}, NEW r \in Root, GoTo(p, "walk"),
             Learn(p, [NoJob EXCEPT !.op = o, !.start = r, !.at = r]), UNCHANGED history
      PROVE  IInv'
  <2> DEFINE k == [NoJob EXCEPT !.op = o, !.start = r, !.at = r]
  <2>1. k \in Job /\ k.op = o /\ k.start = r
    BY DEF NoJob, Job, OPS, OUTCOMES, STORES
  <2>2. Learn(p, k)
    BY <1>3
  <2> HIDE DEF k
  <2>3. QED
    BY <1>2, <1>3, <2>1, <2>2
<1>4. ASSUME NEW s \in STORES, GoTo(p, "sweep"),
             Learn(p, [NoJob EXCEPT !.op = "clean", !.store = s, !.todo = entries[s]]),
             UNCHANGED history
      PROVE  IInv'
  <2> DEFINE k == [NoJob EXCEPT !.op = "clean", !.store = s, !.todo = entries[s]]
  <2>1. entries[s] \in SUBSET Root
    BY DEF IInv, TypeOK
  <2>2. k \in Job /\ k.op = "clean"
    BY <2>1 DEF NoJob, Job, OPS, OUTCOMES, STORES
  <2>3. Learn(p, k)
    BY <1>4
  <2> HIDE DEF k
  <2>4. QED
    BY <1>2, <1>4, <2>2, <2>3
<1>5. ASSUME NEW o \in {"trust", "untrust"}, NEW r \in Root, Resolved(p, o, r, TRUE)
      PROVE  IInv'
  BY <1>1, <1>5, ResolvedKeeps
<1>6. QED
  BY <1>3, <1>4, <1>5 DEF Begin

LEMMA WalkKeeps ==
  ASSUME IInv, NEW p \in Proc, Walk(p)
  PROVE  IInv'
<1>1. UNCHANGED <<disk, stores, faults>> /\ pc[p] = "walk"
  BY DEF Walk
<1>2. /\ job[p].op \in {"load", "trust", "untrust"} /\ job[p].start \in Root /\ job[p] \in Job
      /\ job[p].at \in Root \cup {NoRoot}
  BY <1>1, Own DEF Shape, Job
<1>3. CASE job[p].at # NoRoot /\ Resolved(p, job[p].op, job[p].at, TRUE)
  BY <1>1, <1>2, <1>3, ResolvedKeeps
<1>4. CASE /\ job[p].at # NoRoot /\ GoTo(p, "walk")
           /\ Learn(p, [job[p] EXCEPT !.at = Above[job[p].at]]) /\ UNCHANGED history
  <2> DEFINE a == Above[job[p].at]
             k == [job[p] EXCEPT !.at = a]
  <2>1. a \in Root \cup {NoRoot}
    BY <1>2, <1>4, AboveAssumption
  <2> HIDE DEF a
  <2>2. k \in Job /\ k.op = job[p].op /\ k.start = job[p].start
    BY <1>2, <2>1, JobAt
  <2>3. Learn(p, k)
    BY <1>4 DEF a
  <2> HIDE DEF k
  <2>4. /\ Shape("walk", k) /\ MayReturn("walk", k, allowed[p])
        /\ \A r \in Root : ~Grants("walk", k, r) /\ ~Pending(pc[p], job[p], r)
    BY <1>1, <1>2, <2>2 DEF Shape, MayReturn, Grants, Pending
  <2>5. Typed' /\ Rest'
    BY <1>1, <1>4, <2>2, <2>3, <2>4, Goes DEF STEPS, stores, history
  <2>6. TypeOK'
    BY <1>1, <1>4, <2>5, TypeStays DEF IInv, TypeOK, history
  <2>7. QED
    BY <2>5, <2>6 DEF IInv, Rest
<1>5. CASE Finish(p, "failed") /\ UNCHANGED history
  <2>1. Typed' /\ Rest'
    BY <1>1, <1>5, FinishKeeps DEF stores, history, OUTCOMES
  <2>2. TypeOK'
    BY <1>1, <1>5, <2>1, TypeStays DEF IInv, TypeOK, history
  <2>3. QED
    BY <2>1, <2>2 DEF IInv, Rest
<1>6. CASE job[p].op # "load" /\ Resolved(p, job[p].op, job[p].start, FALSE)
  BY <1>1, <1>2, <1>6, ResolvedKeeps
<1>7. QED
  BY <1>3, <1>4, <1>5, <1>6 DEF Walk

LEMMA EditKeeps ==
  ASSUME IInv, Edit
  PROVE  IInv'
<1>1. UNCHANGED <<stores, pc, job, faults, granted, doomed, allowed, rootOnly>>
  BY DEF Edit
<1>2. /\ dir' \subseteq Root /\ config' \in [Root -> Content \cup {NoFile}] /\ edits' \in Nat
      /\ calm' \in [Proc -> BOOLEAN]
  BY DEF Edit, IInv, TypeOK
<1>3. TypeOK'
  BY <1>1, <1>2 DEF IInv, TypeOK, stores
<1>4. Rest'
  BY <1>1 DEF IInv, Rest, stores, JobShape, HashGranted, GrantsStand, Granting, LoadsAllowed,
              MayReturn, RevocationsPend
<1>5. QED
  BY <1>3, <1>4 DEF IInv, Rest

-----------------------------------------------------------------------------
(* Theorems *)

LEMMA InitIInv == Init => IInv
<1> SUFFICES ASSUME Init PROVE IInv
  OBVIOUS
<1>1. NoJob \in Job /\ NoJob.op = "none"
  BY DEF NoJob, Job, OPS, STORES, OUTCOMES
<1>2. TypeOK
  BY <1>1, BoundsAssumption DEF Init, TypeOK, STEPS
<1>3. \A p \in Proc : pc[p] = "idle" /\ job[p] = NoJob
  BY DEF Init
<1>4. JobShape /\ LoadsAllowed
  BY <1>1, <1>3 DEF JobShape, Shape, LoadsAllowed, MayReturn
<1>5. HashGranted /\ RevocationsPend
  BY ContentAssumption DEF Init, HashGranted, RevocationsPend
<1>6. GrantsStand
  BY <1>3 DEF GrantsStand, Granting, Grants
<1>7. QED
  BY <1>2, <1>4, <1>5, <1>6 DEF IInv

LEMMA NextIInv == IInv /\ [Next]_vars => IInv'
<1> SUFFICES ASSUME IInv, [Next]_vars PROVE IInv'
  OBVIOUS
<1>1. CASE Edit
  BY <1>1, EditKeeps
<1>2. ASSUME NEW p \in Proc, Step(p) PROVE IInv'
  BY <1>2, BeginKeeps, WalkKeeps, CanonicalizeKeeps, ExistsKeeps, LinkKeeps, ContainsKeeps,
     BaselineKeeps, CompareKeeps, ReadKeeps, OpenKeeps, WriteKeeps, RemoveKeeps,
     RemoveCompanionKeeps, SweepKeeps, UnlinkKeeps, CompanionsKeeps, ReturnKeeps, StopKeeps,
     WarnKeeps DEF Step
<1>3. CASE UNCHANGED vars
  BY <1>3 DEF vars, disk, stores, IInv, TypeOK, JobShape, HashGranted, GrantsStand, Granting,
              LoadsAllowed, MayReturn, RevocationsPend
<1>4. QED
  BY <1>1, <1>2, <1>3 DEF Next

\* The inductive invariant: types, what each step of a command has behind it,
\* digests of granted contents only, and revocations still to be carried out.
THEOREM TrustInductive == Spec => []IInv
<1>1. QED
  BY InitIInv, NextIInv, PTL DEF Spec

\* Every variable keeps its type.
THEOREM TrustTypeCorrect == Spec => []TypeOK
<1>1. IInv => TypeOK
  BY DEF IInv
<1>2. QED
  BY <1>1, TrustInductive, PTL

\* However commands interleave and fail, a load returns only a content that was
\* granted for its root and not revoked before it began.
THEOREM LoadsAreAuthorised == Spec => []LoadAuthorised
<1>1. IInv => LoadAuthorised
  BY DEF IInv, LoadsAllowed, MayReturn, LoadAuthorised
<1>2. QED
  BY <1>1, TrustInductive, PTL

-----------------------------------------------------------------------------
(* One process at a time: entries and their baselines *)

\* What a command at step s has behind it: the companion it is writing is there,
\* so is that of the config it is about to enter, and what it is to leave without
\* a companion has no entry.
Backs(s, j, trusted, digests) ==
  /\ s = "write" => digests[j.at] # NoHash
  /\ s \in {"canonicalize", "exists", "link"} /\ j.op = "trust" /\ j.named /\ j.store = "trusted"
       => digests[j.at] # NoHash
  /\ s = "companion" => j.at \notin trusted
  /\ s \in {"sweep", "unlink"} /\ j.store = "trusted" => j.removed \cap trusted = {}
  /\ s = "companions" => j.todo \cap trusted = {}

\* Steps at which it has nothing.
Clear == STEPS \ {"write", "canonicalize", "exists", "link", "companion", "sweep", "unlink",
                  "companions"}

Backed == \A p \in Proc : Backs(pc[p], job[p], entries["trusted"], hash)

AloneInv == BaselineBeforeEntry /\ Backed

Alone == \A p, q \in Proc : p = q

LEMMA NowAt ==
  ASSUME TypeOK, Alone, NEW p \in Proc, NEW s, NEW j, GoTo(p, s), Learn(p, j),
         Backs(s, j, entries'["trusted"], hash')
  PROVE  Backed'
<1>1. pc'[p] = s /\ job'[p] = j /\ \A q \in Proc : q = p
  BY DEF TypeOK, GoTo, Learn, Alone
<1> QED
  BY <1>1 DEF Backed

\* A command that is over, or at a step that needs nothing behind it.
LEMMA ClearKeeps ==
  ASSUME TypeOK, Alone, NEW p \in Proc, NEW s \in Clear, GoTo(p, s)
  PROVE  Backed'
<1>1. pc'[p] = s /\ \A q \in Proc : q = p
  BY DEF TypeOK, GoTo, Alone
<1> QED
  BY <1>1 DEF Backed, Backs, Clear

LEMMA OverKeeps ==
  ASSUME TypeOK, Alone, NEW p \in Proc, NEW out, Finish(p, out)
  PROVE  Backed'
BY ClearKeeps DEF Finish, Clear, STEPS

\* A step that touches neither the stores nor the history of the entries.
LEMMA Untouched ==
  ASSUME AloneInv, UNCHANGED <<stores, rootOnly>>
  PROVE  BaselineBeforeEntry' /\ UNCHANGED <<entries, hash>>
BY DEF AloneInv, BaselineBeforeEntry, stores

LEMMA ResolvedAlone ==
  ASSUME TypeOK, AloneInv, Alone, NEW p \in Proc,
         NEW o \in {"load", "trust", "untrust"}, NEW r \in Root, NEW named \in BOOLEAN,
         o = "load" => named, Resolved(p, o, r, named), UNCHANGED stores
  PROVE  AloneInv'
<1> DEFINE s == FirstStep(o, named)
           k == [NoJob EXCEPT !.op = o, !.at = r, !.named = named, !.store = FirstStore(o, named)]
<1>1. k.op = o /\ k.named = named /\ k.store = FirstStore(o, named)
  BY DEF NoJob
<1>2. Backs(s, k, entries["trusted"], hash)
  BY <1>1 DEF Backs, FirstStep, FirstStore
<1>3. GoTo(p, s) /\ Learn(p, k) /\ UNCHANGED rootOnly
  BY DEF Resolved
<1> HIDE DEF s, k
<1> QED
  BY <1>2, <1>3, NowAt, Untouched DEF AloneInv

LEMMA BeginAlone ==
  ASSUME TypeOK, AloneInv, Alone, NEW p \in Proc, Begin(p)
  PROVE  AloneInv'
<1>1. UNCHANGED stores
  BY DEF Begin
<1>2. ASSUME NEW t \in STORES, GoTo(p, "sweep"), UNCHANGED history,
             Learn(p, [NoJob EXCEPT !.op = "clean", !.store = t, !.todo = entries[t]])
      PROVE  AloneInv'
  <2> DEFINE k == [NoJob EXCEPT !.op = "clean", !.store = t, !.todo = entries[t]]
  <2>1. k.removed = {}
    BY DEF NoJob
  <2>2. Backs("sweep", k, entries["trusted"], hash)
    BY <2>1 DEF Backs
  <2>3. Learn(p, k)
    BY <1>2
  <2> HIDE DEF k
  <2> QED
    BY <1>1, <1>2, <2>2, <2>3, NowAt, Untouched DEF AloneInv, history
<1>3. ASSUME GoTo(p, "walk"), UNCHANGED history
      PROVE  AloneInv'
  BY <1>1, <1>3, ClearKeeps, Untouched DEF AloneInv, history, Clear, STEPS
<1>4. ASSUME NEW o \in {"trust", "untrust"}, NEW r \in Root, Resolved(p, o, r, TRUE)
      PROVE  AloneInv'
  BY <1>1, <1>4, ResolvedAlone
<1> QED
  BY <1>2, <1>3, <1>4 DEF Begin

LEMMA WalkAlone ==
  ASSUME IInv, AloneInv, Alone, NEW p \in Proc, Walk(p)
  PROVE  AloneInv'
<1>1. UNCHANGED stores /\ pc[p] = "walk" /\ TypeOK
  BY DEF Walk, IInv
<1>2. job[p] \in Job /\ job[p].op \in {"load", "trust", "untrust"} /\ job[p].start \in Root
      /\ job[p].at \in Root \cup {NoRoot}
  BY <1>1, Own DEF Shape, Job
<1>3. ASSUME GoTo(p, "walk"), UNCHANGED history
      PROVE  AloneInv'
  BY <1>1, <1>3, ClearKeeps, Untouched DEF AloneInv, history, Clear, STEPS
<1>4. ASSUME Finish(p, "failed"), UNCHANGED history
      PROVE  AloneInv'
  BY <1>1, <1>4, OverKeeps, Untouched DEF AloneInv, history
<1>5. ASSUME NEW r \in Root, NEW named \in BOOLEAN, job[p].op = "load" => named,
             Resolved(p, job[p].op, r, named)
      PROVE  AloneInv'
  BY <1>1, <1>2, <1>5, ResolvedAlone
<1> QED
  BY <1>2, <1>3, <1>4, <1>5 DEF Walk

LEMMA SweepAlone ==
  ASSUME IInv, AloneInv, Alone, NEW p \in Proc, Sweep(p)
  PROVE  AloneInv'
<1>1. UNCHANGED <<stores, history>> /\ pc[p] = "sweep" /\ TypeOK
  BY DEF Sweep, IInv
<1>2. job[p] \in Job /\ Backs("sweep", job[p], entries["trusted"], hash)
  BY <1>1, Own DEF AloneInv, Backed
<1>3. BaselineBeforeEntry' /\ UNCHANGED <<entries, hash>>
  BY <1>1, Untouched DEF history
<1>4. ASSUME NEW r \in job[p].todo, NEW s \in {"sweep", "unlink"}, GoTo(p, s),
             Learn(p, [job[p] EXCEPT !.todo = @ \ {r}, !.at = r])
      PROVE  Backed'
  <2> DEFINE t == job[p].todo \ {r}
             k == [job[p] EXCEPT !.todo = t, !.at = r]
  <2>1. Learn(p, k)
    BY <1>4
  <2>2. k.store = job[p].store /\ k.removed = job[p].removed
    BY <1>2 DEF Job
  <2> HIDE DEF k
  <2>3. Backs(s, k, entries["trusted"], hash)
    BY <1>2, <2>2 DEF Backs
  <2> QED
    BY <1>1, <1>3, <1>4, <2>1, <2>3, NowAt
<1>5. ASSUME GoTo(p, "companions"),
             Learn(p, [job[p] EXCEPT !.todo = IF job[p].store = "trusted"
                                                THEN job[p].removed ELSE {}])
      PROVE  Backed'
  <2> DEFINE t == IF job[p].store = "trusted" THEN job[p].removed ELSE {}
             k == [job[p] EXCEPT !.todo = t]
  <2>1. Learn(p, k)
    BY <1>5
  <2>2. k.todo = t /\ t \cap entries["trusted"] = {}
    BY <1>2 DEF Job, Backs
  <2> HIDE DEF k, t
  <2>3. Backs("companions", k, entries["trusted"], hash)
    BY <2>2 DEF Backs
  <2> QED
    BY <1>1, <1>3, <1>5, <2>1, <2>3, NowAt
<1>6. ASSUME UNCHANGED pc PROVE GoTo(p, "sweep")
  BY <1>1, <1>6 DEF GoTo, TypeOK
<1>7. Backed'
  BY <1>4, <1>5, <1>6 DEF Sweep
<1> QED
  BY <1>3, <1>7 DEF AloneInv

LEMMA RecordFailedAlone ==
  ASSUME TypeOK, AloneInv, Alone, NEW p \in Proc, RecordFailed(p), UNCHANGED <<stores, rootOnly>>
  PROVE  AloneInv'
<1>1. Backed'
  BY ClearKeeps, OverKeeps DEF RecordFailed, Clear, STEPS
<1> QED
  BY <1>1, Untouched DEF AloneInv

LEMMA CanonicalizeAlone ==
  ASSUME TypeOK, AloneInv, Alone, NEW p \in Proc, Canonicalize(p)
  PROVE  AloneInv'
<1>1. UNCHANGED <<stores, rootOnly>> /\ pc[p] = "canonicalize"
  BY DEF Canonicalize, history
<1>2. CASE GoTo(p, "exists") /\ UNCHANGED job
  <2>1. Backs("exists", job[p], entries["trusted"], hash)
    BY <1>1 DEF AloneInv, Backed, Backs
  <2>2. Learn(p, job[p])
    BY <1>2 DEF Learn, TypeOK
  <2> QED
    BY <1>1, <1>2, <2>1, <2>2, NowAt, Untouched DEF AloneInv
<1> QED
  BY <1>1, <1>2, RecordFailedAlone DEF Canonicalize

\* The other steps that only read, and the ends of a command.
LEMMA ReadersAlone ==
  ASSUME TypeOK, AloneInv, Alone, NEW p \in Proc,
         \/ Contains(p) \/ Baseline(p) \/ Compare(p) \/ Read(p) \/ Return(p) \/ Stop(p)
  PROVE  AloneInv'
<1>1. UNCHANGED <<stores, rootOnly>>
  BY DEF Contains, Baseline, Compare, Read, Return, Stop, history
<1>2. \/ \E s \in Clear : GoTo(p, s)
      \/ \E out : Finish(p, out)
  BY DEF Contains, Baseline, Compare, Read, Stop, Return, Clear, STEPS
<1>3. Backed'
  BY <1>2, ClearKeeps, OverKeeps
<1> QED
  BY <1>1, <1>3, Untouched DEF AloneInv

LEMMA WarnAlone ==
  ASSUME TypeOK, AloneInv, Alone, NEW p \in Proc, Warn(p)
  PROVE  AloneInv'
BY RecordFailedAlone DEF Warn

\* An entry that is there or has just been made: for a grant of a config its
\* companion is there, for a root alone the history notes it.
LEMMA RecordedAlone ==
  ASSUME IInv, AloneInv, Alone, NEW p \in Proc, pc[p] \in {"exists", "link"}, Recorded(p),
         entries' = [entries EXCEPT ![job[p].store] = @ \cup {job[p].at}], UNCHANGED hash
  PROVE  AloneInv'
<1>1. TypeOK /\ Backs(pc[p], job[p], entries["trusted"], hash) /\ Shape(pc[p], job[p])
      /\ BaselineBeforeEntry /\ job[p] \in Job
  BY Own DEF IInv, AloneInv, Backed
<1>2. Backed'
  <2>1. GoTo(p, "contains") \/ GoTo(p, "read") \/ Finish(p, "ok")
    BY DEF Recorded
  <2> QED
    BY <1>1, <2>1, ClearKeeps, OverKeeps DEF Clear, STEPS
<1>3. CASE job[p].store = "tracked"
  <2>1. UNCHANGED rootOnly /\ entries'["trusted"] = entries["trusted"]
    BY <1>1, <1>3 DEF Recorded, TypeOK, STORES
  <2> QED
    BY <1>1, <1>2, <2>1 DEF AloneInv, BaselineBeforeEntry
<1>4. CASE job[p].store = "trusted"
  <2>1. job[p].op = "trust" /\ (job[p].named => hash[job[p].at] # NoHash)
    BY <1>1, <1>4 DEF Shape, Backs
  <2>2. entries'["trusted"] = entries["trusted"] \cup {job[p].at}
    BY <1>1, <1>4 DEF TypeOK, STORES
  <2>3. rootOnly' = CASE job[p].named -> rootOnly \ {job[p].at}
                     [] ~job[p].named /\ job[p].at \in entries["trusted"] -> rootOnly
                     [] OTHER -> rootOnly \cup {job[p].at}
    BY <1>4, <2>1 DEF Recorded
  <2>4. CASE job[p].named
    <3>1. rootOnly' = rootOnly \ {job[p].at}
      BY <2>3, <2>4
    <3> QED
      BY <1>1, <1>2, <2>1, <2>2, <2>4, <3>1 DEF AloneInv, BaselineBeforeEntry
  <2>5. CASE ~job[p].named /\ job[p].at \in entries["trusted"]
    <3>1. rootOnly' = rootOnly
      BY <2>3, <2>5
    <3> QED
      BY <1>1, <1>2, <2>2, <2>5, <3>1 DEF AloneInv, BaselineBeforeEntry
  <2>6. CASE ~job[p].named /\ job[p].at \notin entries["trusted"]
    <3>1. rootOnly' = rootOnly \cup {job[p].at}
      BY <2>3, <2>6
    <3> QED
      BY <1>1, <1>2, <2>2, <3>1 DEF AloneInv, BaselineBeforeEntry
  <2> QED
    BY <2>4, <2>5, <2>6
<1> QED
  BY <1>1, <1>3, <1>4 DEF Job, STORES

LEMMA ExistsAlone ==
  ASSUME IInv, AloneInv, Alone, NEW p \in Proc, Exists(p)
  PROVE  AloneInv'
<1>1. pc[p] = "exists" /\ UNCHANGED stores /\ TypeOK /\ job[p] \in Job
  BY Own DEF Exists, IInv
<1>2. CASE job[p].at \in entries[job[p].store] /\ Recorded(p)
  <2>1. entries' = [entries EXCEPT ![job[p].store] = @ \cup {job[p].at}]
    BY <1>1, <1>2 DEF TypeOK, stores, Job
  <2> QED
    BY <1>1, <1>2, <2>1, RecordedAlone DEF stores
<1>3. CASE GoTo(p, "link") /\ UNCHANGED <<job, rootOnly>>
  <2>1. Backs("link", job[p], entries["trusted"], hash)
    BY <1>1 DEF AloneInv, Backed, Backs
  <2>2. Learn(p, job[p])
    BY <1>1, <1>3 DEF Learn, TypeOK
  <2> QED
    BY <1>1, <1>3, <2>1, <2>2, NowAt, Untouched DEF AloneInv
<1> QED
  BY <1>1, <1>2, <1>3 DEF Exists

LEMMA LinkAlone ==
  ASSUME IInv, AloneInv, Alone, NEW p \in Proc, Link(p)
  PROVE  AloneInv'
<1>1. pc[p] = "link" /\ UNCHANGED hash /\ TypeOK
  BY DEF Link, IInv
<1>2. CASE RecordFailed(p) /\ UNCHANGED <<entries, history>>
  BY <1>1, <1>2, RecordFailedAlone DEF stores, history
<1>3. CASE entries' = [entries EXCEPT ![job[p].store] = @ \cup {job[p].at}] /\ Recorded(p)
  BY <1>1, <1>3, RecordedAlone
<1> QED
  BY <1>2, <1>3 DEF Link

\* From the open on, the companion of the grant is there.
LEMMA OpenAlone ==
  ASSUME IInv, AloneInv, Alone, NEW p \in Proc, Open(p)
  PROVE  AloneInv'
<1>1. pc[p] = "open" /\ UNCHANGED <<entries, rootOnly>> /\ TypeOK /\ job[p] \in Job
      /\ job[p].at \in Root
  BY Own DEF Open, IInv, Shape
<1>2. CASE Finish(p, "failed") /\ UNCHANGED hash
  BY <1>1, <1>2, OverKeeps, Untouched DEF AloneInv, stores
<1>3. CASE /\ hash' = [hash EXCEPT ![job[p].at] = Torn] /\ GoTo(p, "write")
           /\ Learn(p, [job[p] EXCEPT !.linked = TRUE])
  <2> DEFINE k == [job[p] EXCEPT !.linked = TRUE]
  <2>1. k.at = job[p].at /\ Learn(p, k)
    BY <1>1, <1>3 DEF Job
  <2> HIDE DEF k
  <2>2. hash'[k.at] = Torn /\ Torn # NoHash
    BY <1>1, <1>3, <2>1, ContentAssumption DEF TypeOK
  <2>3. Backs("write", k, entries'["trusted"], hash')
    BY <2>2 DEF Backs
  <2>4. BaselineBeforeEntry'
    BY <1>1, <1>3, ContentAssumption DEF AloneInv, BaselineBeforeEntry, TypeOK
  <2> QED
    BY <1>1, <1>3, <2>1, <2>3, <2>4, NowAt DEF AloneInv
<1> QED
  BY <1>2, <1>3 DEF Open

LEMMA WriteAlone ==
  ASSUME IInv, AloneInv, Alone, NEW p \in Proc, Write(p)
  PROVE  AloneInv'
<1>1. /\ pc[p] = "write" /\ UNCHANGED <<entries, rootOnly>> /\ TypeOK /\ job[p] \in Job
      /\ job[p].at \in Root /\ job[p].held # NoHash /\ hash[job[p].at] # NoHash
  BY Own, ContentAssumption DEF Write, IInv, Shape, AloneInv, Backed, Backs
<1>2. /\ hash' = IF job[p].linked THEN [hash EXCEPT ![job[p].at] = job[p].held] ELSE hash
      /\ GoTo(p, "canonicalize")
      /\ Learn(p, [job[p] EXCEPT !.store = "trusted", !.linked = FALSE])
  BY DEF Write
<1>3. hash'[job[p].at] # NoHash /\ \A r \in Root \ {job[p].at} : hash'[r] = hash[r]
  BY <1>1, <1>2 DEF TypeOK
<1> DEFINE k == [job[p] EXCEPT !.store = "trusted", !.linked = FALSE]
<1>4. k.at = job[p].at /\ Learn(p, k)
  BY <1>1, <1>2 DEF Job
<1> HIDE DEF k
<1>5. Backs("canonicalize", k, entries'["trusted"], hash')
  BY <1>3, <1>4 DEF Backs
<1>6. BaselineBeforeEntry'
  BY <1>1, <1>3 DEF AloneInv, BaselineBeforeEntry, TypeOK, STORES
<1> QED
  BY <1>1, <1>2, <1>4, <1>5, <1>6, NowAt DEF AloneInv

\* A companion goes only after the entry.
LEMMA RemoveAlone ==
  ASSUME IInv, AloneInv, Alone, NEW p \in Proc, Remove(p)
  PROVE  AloneInv'
<1>1. pc[p] = "remove" /\ UNCHANGED <<hash, rootOnly>> /\ TypeOK
  BY DEF Remove, IInv
<1>2. CASE Finish(p, "failed") /\ UNCHANGED entries
  BY <1>1, <1>2, OverKeeps, Untouched DEF AloneInv, stores
<1>3. CASE /\ entries' = [entries EXCEPT !["trusted"] = @ \ {job[p].at}]
           /\ GoTo(p, "companion") /\ UNCHANGED job
  <2>1. entries'["trusted"] = entries["trusted"] \ {job[p].at}
    BY <1>1, <1>3 DEF TypeOK, STORES
  <2>2. Backs("companion", job[p], entries'["trusted"], hash')
    BY <2>1 DEF Backs
  <2>3. Learn(p, job[p])
    BY <1>1, <1>3 DEF Learn, TypeOK
  <2>4. BaselineBeforeEntry'
    BY <1>1, <2>1 DEF AloneInv, BaselineBeforeEntry
  <2> QED
    BY <1>1, <1>3, <2>2, <2>3, <2>4, NowAt DEF AloneInv
<1> QED
  BY <1>2, <1>3 DEF Remove

LEMMA RemoveCompanionAlone ==
  ASSUME IInv, AloneInv, Alone, NEW p \in Proc, RemoveCompanion(p)
  PROVE  AloneInv'
<1>1. /\ pc[p] = "companion" /\ UNCHANGED <<entries, rootOnly>> /\ TypeOK
      /\ hash' = [hash EXCEPT ![job[p].at] = NoHash] /\ GoTo(p, "done")
  BY DEF RemoveCompanion, IInv
<1>2. job[p].at \notin entries["trusted"]
  BY <1>1 DEF AloneInv, Backed, Backs
<1>3. BaselineBeforeEntry'
  BY <1>1, <1>2 DEF AloneInv, BaselineBeforeEntry, TypeOK, STORES
<1> QED
  BY <1>1, <1>3, ClearKeeps DEF AloneInv, Clear, STEPS

LEMMA UnlinkAlone ==
  ASSUME IInv, AloneInv, Alone, NEW p \in Proc, Unlink(p)
  PROVE  AloneInv'
<1>1. /\ pc[p] = "unlink" /\ UNCHANGED <<hash, rootOnly>> /\ TypeOK /\ job[p] \in Job
      /\ Backs("unlink", job[p], entries["trusted"], hash)
  BY Own DEF Unlink, IInv, AloneInv, Backed
<1>2. CASE Finish(p, "failed") /\ UNCHANGED entries
  BY <1>1, <1>2, OverKeeps, Untouched DEF AloneInv, stores
<1>3. CASE /\ entries' = [entries EXCEPT ![job[p].store] = @ \ {job[p].at}]
           /\ GoTo(p, "sweep") /\ Learn(p, [job[p] EXCEPT !.removed = @ \cup {job[p].at}])
  <2> DEFINE t == job[p].removed \cup {job[p].at}
             k == [job[p] EXCEPT !.removed = t]
  <2>1. Learn(p, k)
    BY <1>3
  <2>2. k.store = job[p].store /\ k.removed = t
    BY <1>1 DEF Job
  <2> HIDE DEF k
  <2>3. entries'["trusted"] = IF job[p].store = "trusted" THEN entries["trusted"] \ {job[p].at}
                                                          ELSE entries["trusted"]
    BY <1>1, <1>3 DEF TypeOK, STORES, Job
  <2>4. Backs("sweep", k, entries'["trusted"], hash')
    BY <1>1, <2>2, <2>3 DEF Backs
  <2>5. BaselineBeforeEntry'
    BY <1>1, <2>3 DEF AloneInv, BaselineBeforeEntry
  <2> QED
    BY <1>1, <1>3, <2>1, <2>4, <2>5, NowAt DEF AloneInv
<1> QED
  BY <1>2, <1>3 DEF Unlink

LEMMA CompanionsAlone ==
  ASSUME IInv, AloneInv, Alone, NEW p \in Proc, Companions(p)
  PROVE  AloneInv'
<1>1. /\ pc[p] = "companions" /\ UNCHANGED <<entries, rootOnly>> /\ TypeOK /\ job[p] \in Job
      /\ job[p].todo \cap entries["trusted"] = {}
  BY Own DEF Companions, IInv, AloneInv, Backed, Backs
<1>2. CASE Finish(p, "ok") /\ UNCHANGED hash
  BY <1>1, <1>2, OverKeeps, Untouched DEF AloneInv, stores
<1>3. ASSUME NEW r \in job[p].todo, hash' = [hash EXCEPT ![r] = NoHash], UNCHANGED pc,
             job' = Unlinked(r, [job EXCEPT ![p] = [job[p] EXCEPT !.todo = @ \ {r}]])
      PROVE  AloneInv'
  <2> DEFINE t == job[p].todo \ {r}
             k == [job[p] EXCEPT !.todo = t]
  <2>1. k.todo = t /\ job' = Unlinked(r, [job EXCEPT ![p] = k])
    BY <1>1, <1>3 DEF Job
  <2>2. job'[p] = k
    BY <1>1, <2>1 DEF Unlinked, TypeOK
  <2> HIDE DEF k
  <2>3. Backs("companions", k, entries'["trusted"], hash')
    BY <1>1, <2>1 DEF Backs
  <2>4. Backed'
    BY <1>1, <1>3, <2>2, <2>3 DEF Backed, Alone
  <2>5. BaselineBeforeEntry'
    BY <1>1, <1>3 DEF AloneInv, BaselineBeforeEntry, TypeOK, STORES
  <2> QED
    BY <2>4, <2>5 DEF AloneInv
<1> QED
  BY <1>2, <1>3 DEF Companions

LEMMA NextAlone ==
  ASSUME Alone, IInv, AloneInv, [Next]_vars
  PROVE  AloneInv'
<1>1. TypeOK
  BY DEF IInv
<1>2. CASE Edit \/ UNCHANGED vars
  <2>1. UNCHANGED <<stores, pc, job, rootOnly>>
    BY <1>2 DEF Edit, vars
  <2> QED
    BY <2>1 DEF AloneInv, Backed, BaselineBeforeEntry, stores
<1>3. ASSUME NEW p \in Proc, Step(p) PROVE AloneInv'
  BY <1>1, <1>3, BeginAlone, WalkAlone, CanonicalizeAlone, ExistsAlone, LinkAlone, ReadersAlone,
     OpenAlone, WriteAlone, RemoveAlone, RemoveCompanionAlone, SweepAlone, UnlinkAlone,
     CompanionsAlone, WarnAlone DEF Step
<1> QED
  BY <1>2, <1>3 DEF Next

\* Commands one after the other, however each of them fails or is killed: no root
\* is trusted without a baseline unless it had no config when it was trusted.
THEOREM EntriesHaveBaselines ==
  ASSUME Alone
  PROVE  Spec => []BaselineBeforeEntry
<1>1. Init => AloneInv
  BY DEF Init, AloneInv, BaselineBeforeEntry, Backed, Backs, STORES
<1>2. IInv /\ AloneInv /\ [Next]_vars => AloneInv'
  BY NextAlone
<1>3. AloneInv => BaselineBeforeEntry
  BY DEF AloneInv
<1> QED
  BY <1>1, <1>2, <1>3, TrustInductive, PTL DEF Spec

-----------------------------------------------------------------------------
(* A command with which nothing interferes: what it knows at each step        *)

Recording == {"canonicalize", "exists", "link"}

Sweeping == {"sweep", "unlink", "companions"}

\* What p's command, at step s with job j, has seen or made is still so.
Knows(s, j) ==
  LET r == j.at
      stale == {x \in entries[j.store] : ~Target(j.store, x)}
  IN
  /\ s = "walk" => \A x \in Ancestors(j.start) :
                     config[x] # NoFile => r # NoRoot /\ x \in Ancestors(r)
  /\ s \in Recording /\ j.op = "load" => config[r] # NoFile
  /\ s \in {"exists", "link"} => Target(j.store, r)
  /\ s = "link" => r \notin entries[j.store]
  /\ s \in {"contains", "baseline", "compare", "read", "open", "write"}
       => r \in entries["tracked"] /\ config[r] # NoFile
  /\ s \in {"baseline", "compare"} => r \in entries["trusted"]
  /\ s = "compare" => hash[r] # NoHash /\ j.held = hash[r]
  /\ s \in {"open", "write"} => j.held = config[r]
  /\ s = "write" => j.linked
  /\ s \in Recording /\ j.store = "trusted" /\ j.named
       => r \in entries["tracked"] /\ config[r] # NoFile /\ hash[r] = config[r]
  /\ s = "companion" => r \in dir \ entries["trusted"]
  /\ s \in Sweeping => \A x \in j.removed : ~Target(j.store, x)
  /\ s = "sweep" => stale \subseteq j.todo
  /\ s = "unlink" => r \in stale /\ stale \subseteq j.todo \cup {r}
  /\ s = "companions" => stale = {}
  /\ s = "done" => Achieved(j)

Calmly == \A p \in Proc : calm[p] => Knows(pc[p], job[p])

ConfigsHaveDirs == \A r \in Root : config[r] # NoFile => r \in dir

CalmInv == ConfigsHaveDirs /\ Calmly

\* Where the walk goes next: only r itself and what is above it.
LEMMA AncestorsAbove ==
  ASSUME NEW r \in Root, NEW x \in Ancestors(r), x # r
  PROVE  Above[r] \in Root /\ x \in Ancestors(Above[r])
<1>1. Above[r] \in Root
  <2>1. CASE Above[r] \notin Root
    <3>1. {r} \in SUBSET Root /\ Climbs({r})
      BY <2>1 DEF Climbs
    <3> QED
      BY <3>1 DEF Ancestors
  <2> QED
    BY <2>1
<1>2. ASSUME NEW U \in SUBSET Root, Above[r] \in U, Climbs(U)
      PROVE  x \in U
  <2>1. U \cup {r} \in SUBSET Root /\ Climbs(U \cup {r})
    BY <1>2 DEF Climbs
  <2> QED
    BY <2>1 DEF Ancestors
<1> QED
  BY <1>1, <1>2 DEF Ancestors

\* The others go on only while nothing changes that they know of.
Undisturbed(p) ==
  \A q \in Proc \ {p} :
    /\ pc'[q] = pc[q]
    /\ calm'[q] => calm[q] /\ (pc[q] = "idle" \/ (job'[q] = job[q] /\ UNCHANGED <<dir, config, stores>>))

\* What is known of the disk and the stores holds as long as they stay.
LEMMA KnowsStays ==
  ASSUME NEW q, NEW s, NEW k, pc'[q] = s, job'[q] = k,
         UNCHANGED <<dir, config, entries, hash>>, Knows(s, k)
  PROVE  (Knows(pc[q], job[q]))'
<1>2. pc'[q] = s /\ job'[q] = k /\ Knows(s, k)
  OBVIOUS
<1>3. ASSUME NEW t, NEW x
      PROVE  Target(t, x)' <=> Target(t, x)
  BY DEF Target
<1>4. Achieved(k) => Achieved(k)'
  BY <1>3 DEF Achieved
<1>5. s = "done" => (Achieved(job[q]))'
  BY ZenonT(90), <1>2, <1>4 DEF Knows, Achieved
<1> QED
  BY <1>2, <1>3, <1>5 DEF Knows

LEMMA KnowsKept ==
  ASSUME NEW q, pc'[q] = pc[q], job'[q] = job[q], UNCHANGED <<dir, config, entries, hash>>,
         Knows(pc[q], job[q])
  PROVE  (Knows(pc[q], job[q]))'
<1>1. PICK s, k : s = pc[q] /\ k = job[q]
  OBVIOUS
<1>2. pc'[q] = s /\ job'[q] = k /\ Knows(s, k)
  BY <1>1
<1> QED
  BY <1>2, KnowsStays

LEMMA CalmStep ==
  ASSUME TypeOK, CalmInv, NEW p \in Proc, ConfigsHaveDirs', Undisturbed(p),
         calm'[p] => (Knows(pc[p], job[p]))'
  PROVE  CalmInv'
<1>1. ASSUME NEW q \in Proc, q # p, calm'[q]
      PROVE  (Knows(pc[q], job[q]))'
  <2>1. pc'[q] = pc[q] /\ calm[q] /\ Knows(pc[q], job[q])
    BY <1>1 DEF Undisturbed, CalmInv, Calmly
  <2>2. CASE pc[q] = "idle"
    BY <2>1, <2>2 DEF Knows, Recording, Sweeping
  <2>3. CASE job'[q] = job[q] /\ UNCHANGED <<dir, config, stores>>
    <3>1. UNCHANGED <<dir, config, entries, hash>>
      BY <2>3 DEF stores
    <3> QED
      BY <2>1, <2>3, <3>1, KnowsKept
  <2> QED
    BY <1>1, <2>2, <2>3 DEF Undisturbed
<1> QED
  BY <1>1 DEF CalmInv, Calmly

\* A step of p that touches neither the disk nor the stores.
Silent(p, s, k) ==
  /\ GoTo(p, s) /\ Learn(p, k) /\ UNCHANGED <<disk, stores>>
  /\ \A q \in Proc : q # p => calm'[q] = calm[q]

LEMMA SilentStep ==
  ASSUME TypeOK, CalmInv, NEW p \in Proc, NEW s, NEW k, Silent(p, s, k),
         calm'[p] => Knows(s, k)
  PROVE  CalmInv'
<1>1. /\ pc'[p] = s /\ job'[p] = k
      /\ \A q \in Proc : q # p => pc'[q] = pc[q] /\ job'[q] = job[q]
  BY DEF Silent, GoTo, Learn, TypeOK
<1>2. UNCHANGED <<dir, config, entries, hash>>
  BY DEF Silent, disk, stores
<1>3. calm'[p] => (Knows(pc[p], job[p]))'
  BY <1>1, <1>2, KnowsStays
<1>4. ConfigsHaveDirs'
  BY <1>2 DEF CalmInv, ConfigsHaveDirs
<1>5. Undisturbed(p)
  BY <1>1, <1>2 DEF Undisturbed, Silent, stores
<1> QED
  BY <1>3, <1>4, <1>5, CalmStep

\* A step of p that changes the stores: it interferes with every other command.
LEMMA LoudStep ==
  ASSUME TypeOK, CalmInv, NEW p \in Proc, NEW s, GoTo(p, s), Interfere(p), UNCHANGED disk,
         calm[p] => (Knows(pc[p], job[p]))'
  PROVE  CalmInv'
<1>1. ConfigsHaveDirs'
  BY DEF CalmInv, ConfigsHaveDirs, disk
<1>2. /\ \A q \in Proc : q # p => pc'[q] = pc[q] /\ calm'[q] = (calm[q] /\ pc[q] = "idle")
      /\ calm'[p] = calm[p]
  BY DEF GoTo, Interfere, TypeOK
<1>3. Undisturbed(p)
  BY <1>2 DEF Undisturbed
<1> QED
  BY <1>1, <1>2, <1>3, CalmStep

\* What p knows before its step.
LEMMA OwnKnows ==
  ASSUME IInv, CalmInv, NEW p \in Proc
  PROVE  /\ TypeOK /\ job[p] \in Job /\ Shape(pc[p], job[p])
         /\ calm[p] => Knows(pc[p], job[p])
  BY Own DEF IInv, CalmInv, Calmly

\* A step that only looks and finishes.
LEMMA SilentFinish ==
  ASSUME IInv, CalmInv, NEW p \in Proc, NEW out \in OUTCOMES, Finish(p, out),
         UNCHANGED <<disk, stores, calm>>,
         calm[p] => Achieved([job[p] EXCEPT !.outcome = out])
  PROVE  CalmInv'
<1> DEFINE k == [job[p] EXCEPT !.outcome = out]
<1>1. Silent(p, "done", k)
  BY DEF Finish, Silent
<1>2. calm[p] => Knows("done", k)
  BY DEF Knows, Recording, Sweeping
<1> HIDE DEF k
<1> QED
  BY <1>1, <1>2, OwnKnows, SilentStep

LEMMA ResolvedCalm ==
  ASSUME IInv, CalmInv, NEW p \in Proc, NEW o \in {"load", "trust", "untrust"},
         NEW r \in Root, NEW named \in BOOLEAN, Resolved(p, o, r, named),
         UNCHANGED <<disk, stores>>, o = "load" => named /\ (calm[p] => config[r] # NoFile)
  PROVE  CalmInv'
<1> DEFINE s == FirstStep(o, named)
           k == [NoJob EXCEPT !.op = o, !.at = r, !.named = named, !.store = FirstStore(o, named)]
<1>1. k.op = o /\ k.at = r /\ k.named = named /\ k.store = FirstStore(o, named)
  BY DEF NoJob
<1>2. calm[p] => Knows(s, k)
  BY <1>1 DEF Knows, FirstStep, FirstStore, Recording, Sweeping
<1>3. Silent(p, s, k) /\ UNCHANGED calm
  BY SMTT(90) DEF Resolved, Silent
<1> HIDE DEF s, k
<1> QED
  BY <1>2, <1>3, OwnKnows, SilentStep

LEMMA BeginCalm ==
  ASSUME IInv, CalmInv, NEW p \in Proc, Begin(p)
  PROVE  CalmInv'
<1>1. UNCHANGED <<disk, stores>>
  BY DEF Begin
<1>2. ASSUME NEW t \in STORES, GoTo(p, "sweep"), UNCHANGED history,
             Learn(p, [NoJob EXCEPT !.op = "clean", !.store = t, !.todo = entries[t]])
      PROVE  CalmInv'
  <2> DEFINE k == [NoJob EXCEPT !.op = "clean", !.store = t, !.todo = entries[t]]
  <2>1. k.removed = {} /\ k.todo = entries[t] /\ k.store = t
    BY DEF NoJob
  <2>2. Silent(p, "sweep", k) /\ UNCHANGED calm
    BY <1>1, <1>2 DEF Silent, history
  <2> HIDE DEF k
  <2>3. Knows("sweep", k)
    BY <2>1 DEF Knows, Recording, Sweeping
  <2> QED
    BY <2>2, <2>3, OwnKnows, SilentStep
<1>3. ASSUME NEW o, NEW r \in Root, GoTo(p, "walk"), UNCHANGED history,
             Learn(p, [NoJob EXCEPT !.op = o, !.start = r, !.at = r])
      PROVE  CalmInv'
  <2> DEFINE k == [NoJob EXCEPT !.op = o, !.start = r, !.at = r]
  <2>1. k.start = r /\ k.at = r /\ r # NoRoot
    BY AboveAssumption DEF NoJob
  <2>2. Silent(p, "walk", k) /\ UNCHANGED calm
    BY <1>1, <1>3 DEF Silent, history
  <2> HIDE DEF k
  <2>3. Knows("walk", k)
    BY <2>1 DEF Knows, Recording, Sweeping
  <2> QED
    BY <2>2, <2>3, OwnKnows, SilentStep
<1>4. ASSUME NEW o \in {"trust", "untrust"}, NEW r \in Root, Resolved(p, o, r, TRUE)
      PROVE  CalmInv'
  BY <1>1, <1>4, ResolvedCalm
<1> QED
  BY <1>2, <1>3, <1>4 DEF Begin

\* Without a config here, the ones at or above the start are above this one.
LEMMA WalkCalm ==
  ASSUME IInv, CalmInv, NEW p \in Proc, Walk(p)
  PROVE  CalmInv'
<1> DEFINE j == job[p]
<1>1. /\ UNCHANGED <<disk, stores>> /\ pc[p] = "walk" /\ TypeOK /\ j \in Job
      /\ j.op \in {"load", "trust", "untrust"} /\ j.start \in Root /\ j.at \in Root \cup {NoRoot}
      /\ calm[p] => \A x \in Ancestors(j.start) :
                      config[x] # NoFile => j.at # NoRoot /\ x \in Ancestors(j.at)
  BY OwnKnows DEF Walk, Shape, Job, Knows
<1>2. CASE j.at # NoRoot /\ config[j.at] # NoFile /\ Resolved(p, j.op, j.at, TRUE)
  BY <1>1, <1>2, ResolvedCalm
<1>3. CASE /\ j.at # NoRoot /\ config[j.at] = NoFile
           /\ GoTo(p, "walk") /\ Learn(p, [j EXCEPT !.at = Above[j.at]]) /\ UNCHANGED history
  <2> DEFINE k == [j EXCEPT !.at = Above[j.at]]
  <2>1. k.start = j.start /\ k.at = Above[j.at]
    BY <1>1 DEF Job
  <2>2. Silent(p, "walk", k) /\ UNCHANGED calm
    BY <1>1, <1>3 DEF Silent, history
  <2> HIDE DEF k
  <2>3. ASSUME calm[p], NEW x \in Ancestors(j.start), config[x] # NoFile
        PROVE  k.at # NoRoot /\ x \in Ancestors(k.at)
    BY <1>1, <1>3, <2>1, <2>3, AncestorsAbove, AboveAssumption
  <2>4. calm[p] => Knows("walk", k)
    BY <2>1, <2>3 DEF Knows, Recording, Sweeping
  <2> QED
    BY <2>2, <2>4, OwnKnows, SilentStep
<1>4. CASE j.at = NoRoot /\ j.op = "load" /\ Finish(p, "failed") /\ UNCHANGED history
  <2> DEFINE k == [j EXCEPT !.outcome = "failed"]
  <2>1. k.op = "load" /\ k.at = NoRoot /\ k.outcome = "failed" /\ k.start = j.start
    BY <1>1, <1>4 DEF Job
  <2> HIDE DEF k
  <2>2. calm[p] => Achieved(k)
    BY <1>1, <1>4, <2>1 DEF Achieved
  <2>3. "failed" \in OUTCOMES /\ UNCHANGED calm
    BY <1>4 DEF OUTCOMES, history
  <2> QED
    BY <1>1, <1>4, <2>2, <2>3, SilentFinish DEF k
<1>5. CASE j.at = NoRoot /\ j.op # "load" /\ Resolved(p, j.op, j.start, FALSE)
  BY <1>1, <1>5, ResolvedCalm
<1> QED
  BY <1>2, <1>3, <1>4, <1>5 DEF Walk

\* A step of p that learns nothing new.
LEMMA SilentMove ==
  ASSUME IInv, CalmInv, NEW p \in Proc, NEW s, GoTo(p, s), UNCHANGED job,
         UNCHANGED <<disk, stores, calm>>, calm[p] => Knows(s, job[p])
  PROVE  CalmInv'
<1>1. Silent(p, s, job[p])
  BY DEF Silent, Learn, IInv, TypeOK
<1> QED
  BY <1>1, OwnKnows, SilentStep

\* A record that cannot fail while nothing interferes but for want of a target.
LEMMA RecordFailedCalm ==
  ASSUME IInv, CalmInv, NEW p \in Proc, pc[p] \in Recording, RecordFailed(p),
         UNCHANGED <<disk, stores, calm>>,
         \/ ~Target(job[p].store, job[p].at)
         \/ pc[p] = "link" /\ job[p].at \in entries[job[p].store]
  PROVE  CalmInv'
<1>1. PICK s, j : s = pc[p] /\ j = job[p]
  OBVIOUS
<1>2. /\ j \in Job /\ Shape(s, j) /\ s \in Recording
      /\ calm[p] => Knows(s, j)
      /\ \/ ~Target(j.store, j.at)
         \/ s = "link" /\ j.at \in entries[j.store]
  BY <1>1, OwnKnows
<1>3. j.op \in {"load", "trust"} /\ (j.op = "load" => j.store = "tracked")
  BY <1>2 DEF Shape, Recording
<1>4. j.op = "trust" /\ j.store = "tracked" => j.named
  BY <1>2 DEF Shape, Recording
<1>5. ASSUME calm[p]
      PROVE  j.op = "trust" /\ ~Target(j.store, j.at)
  <2>1. /\ j.op = "load" => config[j.at] # NoFile
        /\ s \in {"exists", "link"} => Target(j.store, j.at)
        /\ s = "link" => j.at \notin entries[j.store]
    BY <1>2, <1>5 DEF Knows
  <2> QED
    BY <1>2, <1>3, <2>1 DEF Target
<1>6. CASE job[p].op = "load" /\ GoTo(p, "contains") /\ UNCHANGED job
  BY <1>1, <1>5, <1>6, SilentMove
<1>7. CASE Finish(p, "failed")
  <2> DEFINE k == [j EXCEPT !.outcome = "failed"]
  <2>1. k.op = j.op /\ k.at = j.at /\ k.outcome = "failed" /\ k.named = j.named
    BY <1>2 DEF Job
  <2> HIDE DEF k
  <2>2. j.store \in STORES
    BY <1>2 DEF Job
  <2>3. calm[p] => ~(j.at \in dir /\ (j.named => config[j.at] # NoFile))
    BY <1>4, <1>5, <2>2 DEF Target, STORES
  <2>4. calm[p] => Achieved(k)
    BY <1>5, <2>1, <2>3 DEF Achieved
  <2>5. "failed" \in OUTCOMES
    BY DEF OUTCOMES
  <2> QED
    BY <1>1, <1>7, <2>4, <2>5, SilentFinish DEF k
<1> QED
  BY <1>6, <1>7 DEF RecordFailed

LEMMA CanonicalizeCalm ==
  ASSUME IInv, CalmInv, NEW p \in Proc, Canonicalize(p)
  PROVE  CalmInv'
<1> DEFINE j == job[p]
<1>1. /\ UNCHANGED <<disk, stores, calm>> /\ pc[p] = "canonicalize"
      /\ calm[p] => Knows("canonicalize", j)
  BY OwnKnows DEF Canonicalize, history
<1>2. CASE Target(j.store, j.at) /\ GoTo(p, "exists") /\ UNCHANGED job
  <2>1. calm[p] => Knows("exists", j)
    BY <1>1, <1>2 DEF Knows, Recording, Sweeping
  <2> QED
    BY <1>1, <1>2, <2>1, SilentMove
<1>3. CASE ~Target(j.store, j.at) /\ RecordFailed(p)
  BY <1>1, <1>3, RecordFailedCalm DEF Recording
<1> QED
  BY <1>2, <1>3 DEF Canonicalize

\* The entry is there: what follows it.
LEMMA RecordedKnows ==
  ASSUME IInv, CalmInv, NEW p \in Proc, pc[p] \in {"exists", "link"}, calm[p], Recorded(p),
         UNCHANGED <<disk, hash>>, job[p].at \in entries'[job[p].store],
         \A t \in STORES : entries[t] \subseteq entries'[t]
  PROVE  (Knows(pc[p], job[p]))'
<1> DEFINE j == job[p]
           k == [j EXCEPT !.outcome = "ok"]
<1>1. /\ TypeOK /\ j \in Job /\ Shape(pc[p], j) /\ Knows(pc[p], j) /\ ConfigsHaveDirs
      /\ UNCHANGED <<dir, config, hash>>
  BY OwnKnows DEF CalmInv, disk
<1>2. Target(j.store, j.at)
  BY <1>1 DEF Knows
<1>3. CASE j.op = "load" /\ GoTo(p, "contains") /\ UNCHANGED job
  <2>1. j.store = "tracked"
    BY <1>1, <1>3 DEF Shape
  <2>2. pc'[p] = "contains" /\ job'[p] = j
    BY <1>1, <1>3 DEF GoTo, TypeOK
  <2>3. j.at \in entries'["tracked"] /\ config[j.at] # NoFile
    BY <1>2, <2>1 DEF Target
  <2> QED
    BY <1>1, <2>2, <2>3 DEF Knows, Recording, Sweeping
<1>4. CASE j.op = "trust" /\ j.store = "tracked" /\ GoTo(p, "read") /\ UNCHANGED job
  <2>1. pc'[p] = "read" /\ job'[p] = j
    BY <1>1, <1>4 DEF GoTo, TypeOK
  <2>2. j.at \in entries'["tracked"] /\ config[j.at] # NoFile
    BY <1>2, <1>4 DEF Target
  <2> QED
    BY <1>1, <2>1, <2>2 DEF Knows, Recording, Sweeping
<1>5. CASE j.op = "trust" /\ j.store = "trusted" /\ Finish(p, "ok")
  <2>1. k.op = "trust" /\ k.at = j.at /\ k.outcome = "ok" /\ k.named = j.named
    BY <1>1, <1>5 DEF Job
  <2>2. pc'[p] = "done" /\ job'[p] = k
    BY <1>1, <1>5 DEF Finish, GoTo, Learn, TypeOK
  <2> HIDE DEF k
  <2>3. j.at \in dir /\ j.at \in entries'["trusted"]
    BY <1>2, <1>5 DEF Target
  <2>4. j.named => j.at \in entries'["tracked"] /\ config[j.at] # NoFile /\ hash[j.at] = config[j.at]
    BY <1>1, <1>5 DEF Knows, Recording, STORES
  <2>5. (Achieved(job[p]))'
    BY <1>1, <2>1, <2>2, <2>3, <2>4 DEF Achieved
  <2> QED
    BY <2>2, <2>5 DEF Knows, Recording, Sweeping
<1> QED
  BY <1>3, <1>4, <1>5 DEF Recorded

LEMMA ExistsCalm ==
  ASSUME IInv, CalmInv, NEW p \in Proc, Exists(p)
  PROVE  CalmInv'
<1> DEFINE j == job[p]
<1>1. /\ UNCHANGED <<disk, stores, calm>> /\ pc[p] = "exists" /\ TypeOK
      /\ calm[p] => Knows("exists", j)
  BY OwnKnows DEF Exists
<1>2. CASE j.at \in entries[j.store] /\ Target(j.store, j.at) /\ Recorded(p)
  <2>1. calm[p] => (Knows(pc[p], job[p]))'
    BY <1>1, <1>2, RecordedKnows DEF stores
  <2>2. \A q \in Proc \ {p} : pc'[q] = pc[q] /\ job'[q] = job[q]
    BY <1>1, <1>2 DEF Recorded, GoTo, Finish, Learn, TypeOK
  <2>3. Undisturbed(p) /\ ConfigsHaveDirs'
    BY <1>1, <2>2 DEF Undisturbed, disk, CalmInv, ConfigsHaveDirs
  <2> QED
    BY <1>1, <2>1, <2>3, CalmStep
<1>3. CASE /\ ~(j.at \in entries[j.store] /\ Target(j.store, j.at))
           /\ GoTo(p, "link") /\ UNCHANGED job
  <2>1. calm[p] => Knows("link", j)
    BY <1>1, <1>3 DEF Knows, Recording, Sweeping
  <2> QED
    BY <1>1, <1>3, <2>1, SilentMove
<1> QED
  BY <1>2, <1>3 DEF Exists

LEMMA LinkCalm ==
  ASSUME IInv, CalmInv, NEW p \in Proc, Link(p)
  PROVE  CalmInv'
<1> DEFINE j == job[p]
<1>1. /\ UNCHANGED <<disk, hash>> /\ pc[p] = "link" /\ TypeOK /\ j \in Job
      /\ calm[p] => Knows("link", j)
  BY OwnKnows DEF Link
<1>2. CASE j.at \in entries[j.store] /\ RecordFailed(p) /\ UNCHANGED <<entries, history>>
  BY <1>1, <1>2, RecordFailedCalm DEF Recording, stores, history
<1>3. CASE /\ entries' = [entries EXCEPT ![j.store] = @ \cup {j.at}]
           /\ Recorded(p) /\ Interfere(p)
  <2>1. j.store \in STORES /\ entries \in [STORES -> SUBSET Root]
    BY <1>1 DEF Job, TypeOK
  <2>2. j.at \in entries'[j.store] /\ \A t \in STORES : entries[t] \subseteq entries'[t]
    BY <1>3, <2>1
  <2>3. calm[p] => (Knows(pc[p], job[p]))'
    BY <1>1, <1>3, <2>2, RecordedKnows
  <2>4. \E s : GoTo(p, s)
    BY <1>3 DEF Recorded, Finish
  <2> QED
    BY <1>1, <1>3, <2>3, <2>4, LoudStep
<1> QED
  BY <1>2, <1>3 DEF Link

LEMMA ContainsCalm ==
  ASSUME IInv, CalmInv, NEW p \in Proc, Contains(p)
  PROVE  CalmInv'
<1> DEFINE j == job[p]
<1>1. /\ UNCHANGED <<disk, stores, calm>> /\ pc[p] = "contains" /\ TypeOK /\ j \in Job
      /\ j.op = "load" /\ j.at \in Root /\ j.at # NoRoot
      /\ calm[p] => j.at \in entries["tracked"] /\ config[j.at] # NoFile /\ j.at \in dir
  BY OwnKnows, AboveAssumption DEF Contains, history, Shape, Knows, CalmInv, ConfigsHaveDirs
<1>2. CASE j.at \notin dir /\ Finish(p, "failed")
  BY <1>1, <1>2, SilentFinish DEF OUTCOMES
<1>3. CASE j.at \in dir \ entries["trusted"] /\ Finish(p, "untrusted")
  <2> DEFINE k == [j EXCEPT !.outcome = "untrusted"]
  <2>1. k.op = "load" /\ k.at = j.at /\ k.outcome = "untrusted"
    BY <1>1 DEF Job
  <2> HIDE DEF k
  <2>2. calm[p] => Achieved(k)
    BY <1>1, <1>3, <2>1 DEF Achieved
  <2> QED
    BY <1>1, <1>3, <2>2, SilentFinish DEF k, OUTCOMES
<1>4. CASE j.at \in dir \cap entries["trusted"] /\ GoTo(p, "baseline") /\ UNCHANGED job
  <2>1. calm[p] => Knows("baseline", j)
    BY <1>1, <1>4 DEF Knows, Recording, Sweeping
  <2> QED
    BY <1>1, <1>4, <2>1, SilentMove
<1> QED
  BY <1>2, <1>3, <1>4 DEF Contains

LEMMA BaselineCalm ==
  ASSUME IInv, CalmInv, NEW p \in Proc, Baseline(p)
  PROVE  CalmInv'
<1> DEFINE j == job[p]
<1>1. /\ UNCHANGED <<disk, stores, calm>> /\ pc[p] = "baseline" /\ TypeOK /\ j \in Job
      /\ j.op = "load" /\ j.at \in Root /\ j.at # NoRoot
      /\ calm[p] => /\ j.at \in entries["tracked"] /\ j.at \in entries["trusted"]
                    /\ config[j.at] # NoFile /\ j.at \in dir
  BY OwnKnows, AboveAssumption DEF Baseline, history, Shape, Knows, CalmInv, ConfigsHaveDirs
<1>2. CASE j.at \notin dir /\ Finish(p, "failed")
  BY <1>1, <1>2, SilentFinish DEF OUTCOMES
<1>3. CASE hash[j.at] = NoHash /\ Finish(p, "missing")
  <2> DEFINE k == [j EXCEPT !.outcome = "missing"]
  <2>1. k.op = "load" /\ k.at = j.at /\ k.outcome = "missing"
    BY <1>1 DEF Job
  <2> HIDE DEF k
  <2>2. calm[p] => config[j.at] # NoHash
    BY <1>1, ContentAssumption DEF TypeOK
  <2>3. calm[p] => Achieved(k)
    BY <1>1, <1>3, <2>1, <2>2 DEF Achieved
  <2> QED
    BY <1>1, <1>3, <2>3, SilentFinish DEF k, OUTCOMES
<1>4. CASE /\ hash[j.at] # NoHash
           /\ GoTo(p, "compare") /\ Learn(p, [j EXCEPT !.held = hash[j.at]])
  <2> DEFINE k == [j EXCEPT !.held = hash[j.at]]
  <2>1. k.at = j.at /\ k.held = hash[j.at]
    BY <1>1 DEF Job
  <2>2. Silent(p, "compare", k)
    BY <1>1, <1>4 DEF Silent
  <2> HIDE DEF k
  <2>3. calm[p] => Knows("compare", k)
    BY <1>1, <1>4, <2>1 DEF Knows, Recording, Sweeping
  <2> QED
    BY <1>1, <2>2, <2>3, SilentStep
<1> QED
  BY <1>2, <1>3, <1>4 DEF Baseline

LEMMA CompareCalm ==
  ASSUME IInv, CalmInv, NEW p \in Proc, Compare(p)
  PROVE  CalmInv'
<1> DEFINE j == job[p]
<1>1. /\ UNCHANGED <<disk, stores, calm>> /\ pc[p] = "compare" /\ TypeOK /\ j \in Job
      /\ j.op = "load" /\ j.at \in Root /\ j.at # NoRoot
      /\ calm[p] => /\ j.at \in entries["tracked"] /\ j.at \in entries["trusted"]
                    /\ config[j.at] # NoFile /\ j.held = hash[j.at] /\ hash[j.at] # NoHash
  BY OwnKnows, AboveAssumption DEF Compare, history, Shape, Knows
<1>2. CASE config[j.at] = NoFile /\ Finish(p, "failed")
  BY <1>1, <1>2, SilentFinish DEF OUTCOMES
<1>3. CASE /\ config[j.at] = j.held /\ GoTo(p, "done")
           /\ Learn(p, [j EXCEPT !.held = config[j.at], !.outcome = "ok"])
  <2> DEFINE k == [j EXCEPT !.held = config[j.at], !.outcome = "ok"]
  <2>1. k.op = "load" /\ k.at = j.at /\ k.outcome = "ok" /\ k.held = config[j.at]
    BY <1>1 DEF Job
  <2>2. Silent(p, "done", k)
    BY <1>1, <1>3 DEF Silent
  <2> HIDE DEF k
  <2>3. calm[p] => Achieved(k)
    BY <1>1, <1>3, <2>1 DEF Achieved
  <2>4. calm[p] => Knows("done", k)
    BY <2>3 DEF Knows, Recording, Sweeping
  <2> QED
    BY <1>1, <2>2, <2>4, SilentStep
<1>4. CASE config[j.at] # j.held /\ Finish(p, "stale")
  <2> DEFINE k == [j EXCEPT !.outcome = "stale"]
  <2>1. k.op = "load" /\ k.at = j.at /\ k.outcome = "stale"
    BY <1>1 DEF Job
  <2> HIDE DEF k
  <2>2. calm[p] => Achieved(k)
    BY <1>1, <1>4, <2>1 DEF Achieved
  <2> QED
    BY <1>1, <1>4, <2>2, SilentFinish DEF k, OUTCOMES
<1> QED
  BY SMTT(90), <1>2, <1>3, <1>4 DEF Compare

LEMMA ReadCalm ==
  ASSUME IInv, CalmInv, NEW p \in Proc, Read(p)
  PROVE  CalmInv'
<1> DEFINE j == job[p]
<1>1. /\ UNCHANGED <<disk, stores, calm>> /\ TypeOK /\ j \in Job
      /\ calm[p] => j.at \in entries["tracked"] /\ config[j.at] # NoFile
  BY OwnKnows DEF Read, history, Knows
<1>2. CASE config[j.at] = NoFile /\ Finish(p, "failed")
  BY <1>1, <1>2, SilentFinish DEF OUTCOMES
<1>3. CASE GoTo(p, "open") /\ Learn(p, [j EXCEPT !.held = config[j.at]])
  <2> DEFINE k == [j EXCEPT !.held = config[j.at]]
  <2>1. k.at = j.at /\ k.held = config[j.at]
    BY <1>1 DEF Job
  <2>2. Silent(p, "open", k)
    BY <1>1, <1>3 DEF Silent
  <2> HIDE DEF k
  <2>3. calm[p] => Knows("open", k)
    BY <1>1, <2>1 DEF Knows, Recording, Sweeping
  <2> QED
    BY <1>1, <2>2, <2>3, SilentStep
<1> QED
  BY <1>2, <1>3 DEF Read

LEMMA OpenCalm ==
  ASSUME IInv, CalmInv, NEW p \in Proc, Open(p)
  PROVE  CalmInv'
<1> DEFINE j == job[p]
<1>1. /\ UNCHANGED <<disk, entries>> /\ TypeOK /\ j \in Job /\ j.at \in Root
      /\ calm[p] => /\ j.at \in entries["tracked"] /\ config[j.at] # NoFile
                    /\ j.held = config[j.at] /\ j.at \in dir
  BY OwnKnows DEF Open, Shape, Knows, CalmInv, ConfigsHaveDirs
<1>2. CASE j.at \notin dir /\ Finish(p, "failed") /\ UNCHANGED <<hash, calm>>
  BY <1>1, <1>2, SilentFinish DEF OUTCOMES, stores
<1>3. CASE Interfere(p) /\ GoTo(p, "write") /\ Learn(p, [j EXCEPT !.linked = TRUE])
  <2> DEFINE k == [j EXCEPT !.linked = TRUE]
  <2>1. k.at = j.at /\ k.held = j.held /\ k.linked
    BY <1>1 DEF Job
  <2>2. pc'[p] = "write" /\ job'[p] = k /\ UNCHANGED <<dir, config, entries>>
    BY <1>1, <1>3 DEF GoTo, Learn, TypeOK, disk
  <2> HIDE DEF k
  <2>3. calm[p] => (Knows(pc[p], job[p]))'
    BY <1>1, <2>1, <2>2 DEF Knows, Recording, Sweeping
  <2> QED
    BY <1>1, <1>3, <2>3, LoudStep
<1> QED
  BY <1>2, <1>3 DEF Open

LEMMA WriteCalm ==
  ASSUME IInv, CalmInv, NEW p \in Proc, Write(p)
  PROVE  CalmInv'
<1> DEFINE j == job[p]
           k == [j EXCEPT !.store = "trusted", !.linked = FALSE]
<1>1. /\ UNCHANGED <<disk, entries>> /\ TypeOK /\ j \in Job /\ j.at \in Root
      /\ Interfere(p) /\ GoTo(p, "canonicalize") /\ Learn(p, k)
      /\ calm[p] => /\ j.at \in entries["tracked"] /\ config[j.at] # NoFile
                    /\ j.held = config[j.at] /\ j.linked
  BY OwnKnows DEF Write, Shape, Knows
<1>2. k.at = j.at
  BY <1>1 DEF Job
<1>3. pc'[p] = "canonicalize" /\ job'[p] = k /\ UNCHANGED <<dir, config, entries>>
  BY <1>1 DEF GoTo, Learn, TypeOK, disk
<1>4. calm[p] => hash'[j.at] = config[j.at]
  BY <1>1 DEF Write, TypeOK
<1> HIDE DEF k
<1>5. calm[p] => (Knows(pc[p], job[p]))'
  BY <1>1, <1>2, <1>3, <1>4 DEF Knows, Recording, Sweeping
<1> QED
  BY <1>1, <1>5, LoudStep

LEMMA RemoveCalm ==
  ASSUME IInv, CalmInv, NEW p \in Proc, Remove(p)
  PROVE  CalmInv'
<1> DEFINE j == job[p]
<1>1. /\ UNCHANGED <<disk, hash>> /\ TypeOK /\ j \in Job /\ j.at \in Root /\ j.op = "untrust"
  BY OwnKnows DEF Remove, Shape
<1>2. CASE j.at \notin dir /\ Finish(p, "failed") /\ UNCHANGED <<entries, calm>>
  <2> DEFINE k == [j EXCEPT !.outcome = "failed"]
  <2>1. k.op = "untrust" /\ k.at = j.at /\ k.outcome = "failed"
    BY <1>1 DEF Job
  <2> HIDE DEF k
  <2>2. Achieved(k)
    BY <1>2, <2>1 DEF Achieved
  <2> QED
    BY <1>1, <1>2, <2>2, SilentFinish DEF k, OUTCOMES, stores
<1>3. CASE /\ j.at \in dir /\ entries' = [entries EXCEPT !["trusted"] = @ \ {j.at}]
           /\ Interfere(p) /\ GoTo(p, "companion") /\ UNCHANGED job
  <2>1. pc'[p] = "companion" /\ job'[p] = j /\ UNCHANGED dir /\ j.at \notin entries'["trusted"]
    BY <1>1, <1>3 DEF GoTo, TypeOK, disk, STORES
  <2>2. (Knows(pc[p], job[p]))'
    BY <1>3, <2>1 DEF Knows, Recording, Sweeping
  <2> QED
    BY <1>1, <1>3, <2>2, LoudStep
<1> QED
  BY <1>2, <1>3 DEF Remove

LEMMA RemoveCompanionCalm ==
  ASSUME IInv, CalmInv, NEW p \in Proc, RemoveCompanion(p)
  PROVE  CalmInv'
<1> DEFINE j == job[p]
           k == [j EXCEPT !.outcome = "ok"]
<1>1. /\ UNCHANGED <<disk, entries>> /\ TypeOK /\ j \in Job /\ j.at \in Root /\ j.op = "untrust"
      /\ Interfere(p) /\ GoTo(p, "done") /\ hash' = [hash EXCEPT ![j.at] = NoHash]
      /\ calm[p] => j.at \in dir \ entries["trusted"]
  BY OwnKnows DEF RemoveCompanion, Shape, Knows
<1>2. k.op = "untrust" /\ k.at = j.at /\ k.outcome = "ok"
  BY <1>1 DEF Job
<1>3. /\ pc'[p] = "done" /\ job'[p] = k /\ hash'[j.at] = NoHash
      /\ UNCHANGED <<dir, entries>>
  BY <1>1 DEF RemoveCompanion, Unlinked, GoTo, TypeOK, disk
<1> HIDE DEF k
<1>4. calm[p] => (Achieved(job[p]))'
  BY <1>1, <1>2, <1>3 DEF Achieved
<1>5. calm[p] => (Knows(pc[p], job[p]))'
  BY <1>3, <1>4 DEF Knows, Recording, Sweeping
<1> QED
  BY <1>1, <1>5, LoudStep

LEMMA SweepCalm ==
  ASSUME IInv, CalmInv, NEW p \in Proc, Sweep(p)
  PROVE  CalmInv'
<1> DEFINE j == job[p]
           stale == {x \in entries[j.store] : ~Target(j.store, x)}
<1>1. /\ UNCHANGED <<disk, stores, calm>> /\ TypeOK /\ j \in Job /\ pc[p] = "sweep"
      /\ calm[p] => /\ stale \subseteq j.todo
                    /\ \A x \in j.removed : ~Target(j.store, x)
  BY ZenonT(90), OwnKnows DEF Sweep, history, Knows, Sweeping
<1>2. ASSUME NEW r \in j.todo, Learn(p, [j EXCEPT !.todo = @ \ {r}, !.at = r]),
             IF r \in entries[j.store] /\ ~Target(j.store, r) THEN GoTo(p, "unlink")
                                                              ELSE UNCHANGED pc
      PROVE  CalmInv'
  <2> DEFINE k == [j EXCEPT !.todo = @ \ {r}, !.at = r]
  <2>1. k.at = r /\ k.todo = j.todo \ {r} /\ k.store = j.store /\ k.removed = j.removed
    BY <1>1 DEF Job
  <2>2. Learn(p, k)
    BY <1>2
  <2> HIDE DEF k
  <2>3. CASE r \in stale
    <3>1. Silent(p, "unlink", k)
      BY <1>1, <1>2, <2>2, <2>3 DEF Silent
    <3>2. calm[p] => Knows("unlink", k)
      BY <1>1, <2>1, <2>3 DEF Knows, Recording, Sweeping
    <3> QED
      BY <1>1, <3>1, <3>2, SilentStep
  <2>4. CASE r \notin stale
    <3>1. Silent(p, "sweep", k)
      BY <1>1, <1>2, <2>2, <2>4 DEF Silent, GoTo, TypeOK
    <3>2. calm[p] => Knows("sweep", k)
      BY <1>1, <2>1, <2>4 DEF Knows, Recording, Sweeping
    <3> QED
      BY <1>1, <3>1, <3>2, SilentStep
  <2> QED
    BY <2>3, <2>4
<1>3. ASSUME j.todo = {}, GoTo(p, "companions"), NEW todo, Learn(p, [j EXCEPT !.todo = todo])
      PROVE  CalmInv'
  <2> DEFINE k == [j EXCEPT !.todo = todo]
  <2>1. k.store = j.store /\ k.removed = j.removed
    BY <1>1 DEF Job
  <2>2. Silent(p, "companions", k)
    BY <1>1, <1>3 DEF Silent
  <2> HIDE DEF k
  <2>3. calm[p] => Knows("companions", k)
    BY <1>1, <1>3, <2>1 DEF Knows, Recording, Sweeping
  <2> QED
    BY <1>1, <2>2, <2>3, SilentStep
<1> QED
  BY <1>2, <1>3 DEF Sweep

LEMMA UnlinkCalm ==
  ASSUME IInv, CalmInv, NEW p \in Proc, Unlink(p)
  PROVE  CalmInv'
<1> DEFINE j == job[p]
           stale == {x \in entries[j.store] : ~Target(j.store, x)}
<1>1. /\ UNCHANGED <<disk, hash>> /\ TypeOK /\ j \in Job /\ j.at \in Root /\ j.store \in STORES
      /\ calm[p] => /\ j.at \in stale /\ stale \subseteq j.todo \cup {j.at}
                    /\ \A x \in j.removed : ~Target(j.store, x)
  BY OwnKnows DEF Unlink, Shape, Knows, Sweeping, Job
<1>2. CASE j.at \notin entries[j.store] /\ Finish(p, "failed") /\ UNCHANGED <<entries, calm>>
  BY <1>1, <1>2, SilentFinish DEF OUTCOMES, stores
<1>3. CASE /\ entries' = [entries EXCEPT ![j.store] = @ \ {j.at}]
           /\ GoTo(p, "sweep") /\ Learn(p, [j EXCEPT !.removed = @ \cup {j.at}]) /\ Interfere(p)
  <2> DEFINE k == [j EXCEPT !.removed = @ \cup {j.at}]
  <2>1. k.store = j.store /\ k.removed = j.removed \cup {j.at} /\ k.todo = j.todo
    BY <1>1 DEF Job
  <2>2. pc'[p] = "sweep" /\ job'[p] = k /\ UNCHANGED <<dir, config>>
    BY <1>1, <1>3 DEF GoTo, Learn, TypeOK, disk
  <2>3. entries'[j.store] = entries[j.store] \ {j.at}
    BY <1>1, <1>3 DEF TypeOK
  <2> HIDE DEF k
  <2>4. \A t, x : Target(t, x)' <=> Target(t, x)
    BY <2>2 DEF Target
  <2>5. ASSUME calm[p]
        PROVE  /\ \A x \in k.removed : ~Target(k.store, x)
               /\ {x \in entries'[k.store] : ~Target(k.store, x)} \subseteq k.todo
    BY <1>1, <2>1, <2>3, <2>5
  <2>6. calm[p] => (Knows(pc[p], job[p]))'
    BY <2>2, <2>4, <2>5 DEF Knows, Recording, Sweeping
  <2> QED
    BY <1>1, <1>3, <2>6, LoudStep
<1> QED
  BY SMTT(90), <1>2, <1>3 DEF Unlink

LEMMA CompanionsCalm ==
  ASSUME IInv, CalmInv, NEW p \in Proc, Companions(p)
  PROVE  CalmInv'
<1> DEFINE j == job[p]
<1>1. /\ UNCHANGED <<disk, entries>> /\ TypeOK /\ j \in Job /\ pc[p] = "companions"
      /\ j.op = "clean" /\ UNCHANGED <<dir, config>>
      /\ calm[p] => /\ \A x \in entries[j.store] : Target(j.store, x)
                    /\ \A x \in j.removed : ~Target(j.store, x)
  BY OwnKnows DEF Companions, Shape, Knows, Sweeping, disk
<1>2. ASSUME NEW r \in j.todo, Interfere(p), UNCHANGED pc,
             job' = Unlinked(r, [job EXCEPT ![p] = [j EXCEPT !.todo = @ \ {r}]])
      PROVE  CalmInv'
  <2> DEFINE k == [j EXCEPT !.todo = @ \ {r}]
  <2>1. k.store = j.store /\ k.removed = j.removed
    BY <1>1 DEF Job
  <2>2. pc'[p] = "companions" /\ job'[p] = k
    BY <1>1, <1>2 DEF Unlinked, TypeOK
  <2> HIDE DEF k
  <2>3. \A t, x : Target(t, x)' <=> Target(t, x)
    BY <1>1 DEF Target
  <2>4. calm[p] => (Knows(pc[p], job[p]))'
    BY <1>1, <2>1, <2>2, <2>3 DEF Knows, Recording, Sweeping
  <2>5. GoTo(p, "companions")
    BY <1>1, <1>2 DEF GoTo, TypeOK
  <2> QED
    BY <1>1, <1>2, <2>4, <2>5, LoudStep
<1>3. CASE Finish(p, "ok") /\ UNCHANGED <<hash, calm>>
  <2> DEFINE k == [j EXCEPT !.outcome = "ok"]
  <2>1. k.op = "clean" /\ k.outcome = "ok" /\ k.store = j.store /\ k.removed = j.removed
    BY <1>1 DEF Job
  <2> HIDE DEF k
  <2>2. calm[p] => Achieved(k)
    BY <1>1, <2>1 DEF Achieved
  <2> QED
    BY <1>1, <1>3, <2>2, SilentFinish DEF k, OUTCOMES, stores
<1> QED
  BY <1>2, <1>3 DEF Companions

LEMMA ReturnCalm ==
  ASSUME IInv, CalmInv, NEW p \in Proc, Return(p)
  PROVE  CalmInv'
<1>1. Silent(p, "idle", NoJob)
  BY OwnKnows DEF Return, Silent, TypeOK
<1>2. Knows("idle", NoJob)
  BY DEF Knows, Recording, Sweeping
<1> QED
  BY <1>1, <1>2, OwnKnows, SilentStep

\* A process that is stopped is not calm.
LEMMA StopCalm ==
  ASSUME IInv, CalmInv, NEW p \in Proc, Stop(p)
  PROVE  CalmInv'
<1>1. Silent(p, "done", [job[p] EXCEPT !.outcome = "failed"]) /\ ~calm'[p]
  BY OwnKnows DEF Stop, Finish, Silent, TypeOK
<1> QED
  BY <1>1, OwnKnows, SilentStep

LEMMA WarnCalm ==
  ASSUME IInv, CalmInv, NEW p \in Proc, Warn(p)
  PROVE  CalmInv'
<1>1. Silent(p, "contains", job[p]) /\ ~calm'[p]
  BY OwnKnows DEF Warn, RecordFailed, Silent, Learn, TypeOK
<1> QED
  BY <1>1, OwnKnows, SilentStep

\* An edit interferes with everybody, and leaves no config without its directory.
LEMMA EditCalm ==
  ASSUME IInv, CalmInv, Edit
  PROVE  CalmInv'
<1>1. ConfigsHaveDirs'
  <2>1. config \in [Root -> Content \cup {NoFile}]
    BY DEF IInv, TypeOK
  <2> QED
    BY <2>1 DEF Edit, CalmInv, ConfigsHaveDirs
<1>2. ASSUME NEW q \in Proc, calm'[q]
      PROVE  (Knows(pc[q], job[q]))'
  <2>1. pc'[q] = "idle"
    BY <1>2 DEF Edit
  <2> QED
    BY <2>1 DEF Knows, Recording, Sweeping
<1> QED
  BY <1>1, <1>2 DEF CalmInv, Calmly

LEMMA InitCalm == Init => CalmInv
<1> SUFFICES ASSUME Init PROVE CalmInv
  OBVIOUS
<1>1. ConfigsHaveDirs
  BY DEF Init, ConfigsHaveDirs
<1>2. \A p \in Proc : pc[p] = "idle"
  BY DEF Init
<1> QED
  BY <1>1, <1>2 DEF CalmInv, Calmly, Knows, Recording, Sweeping

LEMMA NextCalm == IInv /\ CalmInv /\ [Next]_vars => CalmInv'
<1> SUFFICES ASSUME IInv, CalmInv, [Next]_vars PROVE CalmInv'
  OBVIOUS
<1>1. ASSUME NEW p \in Proc, Step(p)
      PROVE  CalmInv'
  BY <1>1, BeginCalm, WalkCalm, CanonicalizeCalm, ExistsCalm, LinkCalm, ContainsCalm,
     BaselineCalm, CompareCalm, ReadCalm, OpenCalm, WriteCalm, RemoveCalm,
     RemoveCompanionCalm, SweepCalm, UnlinkCalm, CompanionsCalm, ReturnCalm, StopCalm,
     WarnCalm DEF Step
<1>2. CASE UNCHANGED vars
  <2>1. UNCHANGED <<dir, config, entries, hash, pc, job, calm>>
    BY <1>2 DEF vars, disk, stores
  <2>2. ConfigsHaveDirs'
    BY <2>1 DEF CalmInv, ConfigsHaveDirs
  <2>3. ASSUME NEW q \in Proc, calm'[q]
        PROVE  (Knows(pc[q], job[q]))'
    BY <2>1, <2>3, KnowsKept DEF CalmInv, Calmly
  <2> QED
    BY <2>2, <2>3 DEF CalmInv, Calmly
<1> QED
  BY <1>1, <1>2, EditCalm DEF Next

\* A command with which nothing interfered has done, when it is done, what it
\* is for: a load reports the state of trust of the nearest config, a trust or
\* untrust succeeds whenever its directory is there, a clean leaves no stale
\* entry, for any directory tree and whatever was left in the stores before.
THEOREM AloneCommandsAchieve == Spec => []AloneAchieves
<1>1. CalmInv => AloneAchieves
  BY DEF CalmInv, Calmly, Knows, AloneAchieves
<1> QED
  BY <1>1, InitCalm, NextCalm, TrustInductive, PTL DEF Spec
=============================================================================
