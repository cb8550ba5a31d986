-------------------------- MODULE DocumentJobsProofs --------------------------
(***************************************************************************)
(* The durable document queue, for every set of documents, workers and     *)
(* administrators and every bound: what is published stays served and      *)
(* whole, what was deleted stays gone, and publication only advances.      *)
(***************************************************************************)
EXTENDS DocumentJobs, TLAPS

\* What whoever holds a document's row may rely on.
WorkInv(p) ==
    LET d == work[p].doc
        r == work[p].rev
        plain == version[d][r].source \notin Extracted
    IN
    pc[p] # "idle" =>
        /\ d \in Docs /\ newest[d] > 0
        /\ p \in Workers =>
            /\ r \in 1..newest[d] /\ version[d][r].status = "processing"
            /\ \A q \in Pending(d) : r <= q
            /\ pc[p] \in {"upsert", "retire"} /\ plain => graph[d] = 0
            /\ pc[p] = "retire" => index[d][r] = "whole"
            /\ pc[p] = "extract" => index[d] = Only(r) /\ ~plain
            /\ pc[p] = "complete" <=> work[p].outcome # "none"
            /\ work[p].outcome \in {"indexed", "partial"} => index[d] = Only(r)
            /\ work[p].outcome = "indexed" => graph[d] = IF plain THEN 0 ELSE r
        /\ p \in Admins =>
            /\ pc[p] \in {"delete points", "commit"} => graph[d] = 0
            /\ pc[p] = "commit" => index[d] = Only(0)

InDeletion(d) == \E a \in Admins : work[a].doc = d

\* A newest revision that counts as indexed has no job before it left over.
Settled(d) ==
    LET n == newest[d]
        v == version[d][n]
    IN
    n > 0 /\ v.status \in {"indexed", "partial"} =>
        /\ Pending(d) = {}
        /\ torn[d] = 0 /\ ~InDeletion(d) =>
            /\ active[d] = n
            /\ index[d] = Only(n)
            /\ v.status = "indexed" => graph[d] = IF v.source \in Extracted THEN n ELSE 0

\* No job is for a revision below the published one, and only the worker on
\* it may have used up its attempts.
Queue(d) ==
    /\ active[d] <= newest[d]
    /\ \A r \in Pending(d) :
        /\ active[d] <= r
        /\ \/ version[d][r].attempts < MaxAttempts
           \/ \E w \in Workers : work[w].doc = d /\ work[w].rev = r

Whole(d) ==
    active[d] > 0 /\ torn[d] = 0 /\ ~InDeletion(d) =>
        \E r \in Revisions : r >= active[d] /\ index[d][r] = "whole"

Readable(d) ==
    active[d] > 0 => version[d][active[d]].text /\ version[d][active[d]].status # "deleted"

Erased(d) ==
    Deleted(d) =>
        /\ \A r \in 1..newest[d] : version[d][r].status = "deleted" /\ ~version[d][r].text
        /\ active[d] = 0 /\ index[d] = Only(0) /\ graph[d] = 0

DocInv(d) == Queue(d) /\ Settled(d) /\ Whole(d) /\ Readable(d) /\ Erased(d)

JobsInv ==
    /\ TypeOK
    /\ \A p \in Procs : WorkInv(p)
    /\ \A d \in Docs : DocInv(d)

\* The parts of the type invariant.
RegistryOK ==
    /\ version \in [Docs -> [Revisions -> Version \cup {NoVersion}]]
    /\ newest \in [Docs -> 0..MaxRevision] /\ active \in [Docs -> 0..MaxRevision]
    /\ \A d \in Docs, r \in Revisions : version[d][r] # NoVersion <=> r <= newest[d]
    /\ clock \in Nat

StoresOK ==
    /\ index \in [Docs -> [Revisions -> Levels]]
    /\ graph \in [Docs -> 0..MaxRevision]
    /\ torn \in [Docs -> 0..MaxDeletions]

ControlOK ==
    /\ work \in [Procs -> Work \cup {NoWork}]
    /\ pc \in [Procs -> WorkerSteps \cup AdminSteps]
    /\ \A p \in Procs : pc[p] = "idle" <=> work[p] = NoWork
    /\ \A w \in Workers : pc[w] \in WorkerSteps
    /\ \A a \in Admins : pc[a] \in AdminSteps
    /\ \A p, q \in Procs : work[p].doc = work[q].doc /\ p # q => work[p] = NoWork

LEMMA TypeParts ==
    /\ TypeOK <=> RegistryOK /\ StoresOK /\ ControlOK
    /\ TypeOK' <=> RegistryOK' /\ StoresOK' /\ ControlOK'
BY DEF TypeOK, RegistryOK, StoresOK, ControlOK

----------------------------------------------------------------------------
(* Lemmas.                                                                 *)

LEMMA Bounds == MaxRevision \in Nat \ {0} /\ MaxAttempts \in Nat \ {0} /\ MaxDeletions \in Nat \ {0}
BY BoundsAssumption

\* A revision that exists is a version, and no other has a status.
LEMMA VersionAt ==
    ASSUME TypeOK, NEW d \in Docs, NEW r \in Revisions
    PROVE  /\ r <= newest[d] => version[d][r] \in Version
           /\ r > newest[d] => version[d][r] = NoVersion
           /\ version[d][r].status # "absent" => r <= newest[d]
           /\ newest[d] \in Nat /\ newest[d] <= MaxRevision
  <1>1. newest[d] \in Nat /\ newest[d] <= MaxRevision /\ r \in Nat
    BY Bounds DEF TypeOK, Revisions
  <1>2. version[d][r] \in Version \cup {NoVersion} /\ (version[d][r] # NoVersion <=> r <= newest[d])
    BY DEF TypeOK
  <1>3. version[d][r] = NoVersion => version[d][r].status = "absent"
    BY DEF NoVersion
  <1> QED BY <1>1, <1>2, <1>3

\* What one new row leaves of the table.
LEMMA VersionUpdate ==
    ASSUME TypeOK, NEW d \in Docs, NEW r \in Revisions, NEW v \in Version,
           version' = [version EXCEPT ![d] = [version[d] EXCEPT ![r] = v]]
    PROVE  /\ version'[d] = [version[d] EXCEPT ![r] = v]
           /\ \A e \in Docs \ {d} : version'[e] = version[e]
           /\ version' \in [Docs -> [Revisions -> Version \cup {NoVersion}]]
           /\ version'[d][r] = v
           /\ \A q \in Revisions \ {r} : version'[d][q] = version[d][q]
  <1>1. version \in [Docs -> [Revisions -> Version \cup {NoVersion}]]
    BY DEF TypeOK
  <1>2. [version[d] EXCEPT ![r] = v] \in [Revisions -> Version \cup {NoVersion}]
    BY <1>1
  <1>3. /\ version'[d] = [version[d] EXCEPT ![r] = v]
        /\ \A e \in Docs \ {d} : version'[e] = version[e]
        /\ version' \in [Docs -> [Revisions -> Version \cup {NoVersion}]]
    BY <1>1, <1>2
  <1> QED BY <1>1, <1>3

\* Pending and deleted revisions exist.
LEMMA PendingExist ==
    ASSUME TypeOK, NEW d \in Docs, NEW r \in Pending(d)
    PROVE  r \in Revisions /\ r <= newest[d] /\ version[d][r] \in Version
BY VersionAt DEF Pending

\* Whoever works on a document is alone at it.
LEMMA Alone ==
    ASSUME JobsInv, NEW p \in Procs, pc[p] # "idle"
    PROVE  /\ work[p] \in Work /\ work[p].doc \in Docs /\ work[p].doc # None
           /\ \A q \in Procs \ {p} : work[q].doc # work[p].doc
BY NoneAssumption DEF JobsInv, TypeOK, Work

\* A document nobody touches.
LEMMA DocElsewhere ==
    ASSUME NEW e \in Docs, DocInv(e),
           UNCHANGED <<version[e], newest[e], active[e], index[e], graph[e], torn[e]>>,
           \A q \in Procs : work[q].doc = e \/ work'[q].doc = e => work'[q] = work[q]
    PROVE  DocInv(e)'
  <1>1. Pending(e)' = Pending(e) /\ Deleted(e)' = Deleted(e)
    BY DEF Pending, Deleted
  <1>2. InDeletion(e)' = InDeletion(e)
    BY DEF InDeletion, Procs
  <1>3. Queue(e)'
    BY <1>1 DEF DocInv, Queue, Procs
  <1>4. Settled(e)'
    BY <1>1, <1>2 DEF DocInv, Settled, Only
  <1>5. Whole(e)' /\ Readable(e)' /\ Erased(e)'
    BY <1>1, <1>2 DEF DocInv, Whole, Readable, Erased, Only
  <1> QED BY <1>3, <1>4, <1>5 DEF DocInv

\* A process that does not move, on a document that does not change.
LEMMA WorkElsewhere ==
    ASSUME NEW q \in Procs, WorkInv(q), pc'[q] = pc[q], work'[q] = work[q],
           pc[q] # "idle" =>
               LET d == work[q].doc IN UNCHANGED <<version[d], newest[d], index[d], graph[d]>>
    PROVE  WorkInv(q)'
  <1>1. CASE pc[q] = "idle"
    BY <1>1 DEF WorkInv
  <1>2. CASE pc[q] # "idle"
    <2>1. PICK d : d = work[q].doc
      OBVIOUS
    <2>2. /\ work[q].doc = d /\ work'[q].doc = d
          /\ work'[q].rev = work[q].rev /\ work'[q].outcome = work[q].outcome
          /\ version'[d] = version[d] /\ newest'[d] = newest[d] /\ index'[d] = index[d]
          /\ graph'[d] = graph[d]
      BY <1>2, <2>1
    <2> QED BY <1>2, <2>2 DEF WorkInv, Pending
  <1> QED BY <1>1, <1>2

\* A step of one process on one document leaves the others as they were.
LEMMA StepElsewhere ==
    ASSUME JobsInv, NEW p \in Procs, NEW d \in Docs,
           work[p].doc \in {d, None}, work'[p].doc \in {d, None},
           \A q \in Procs \ {p} : /\ work[q].doc # d
                                  /\ pc'[q] = pc[q] /\ work'[q] = work[q],
           \A e \in Docs \ {d} :
               UNCHANGED <<version[e], newest[e], active[e], index[e], graph[e], torn[e]>>
    PROVE  /\ \A q \in Procs \ {p} : WorkInv(q)'
           /\ \A e \in Docs \ {d} : DocInv(e)'
  <1>1. ASSUME NEW q \in Procs \ {p} PROVE WorkInv(q)'
    <2>1. WorkInv(q)
      BY DEF JobsInv
    <2>2. pc[q] # "idle" => work[q].doc \in Docs \ {d}
      BY <2>1 DEF WorkInv
    <2> QED BY <2>1, <2>2, WorkElsewhere
  <1>2. ASSUME NEW e \in Docs \ {d} PROVE DocInv(e)'
    <2>1. \A q \in Procs : work[q].doc = e \/ work'[q].doc = e => work'[q] = work[q]
      BY NoneAssumption
    <2> QED BY <2>1, DocElsewhere DEF JobsInv
  <1> QED BY <1>1, <1>2

\* Leaving is always well typed.
LEMMA LeaveControl ==
    ASSUME TypeOK, NEW p \in Procs, Leave(p)
    PROVE  ControlOK' /\ WorkInv(p)' /\ work'[p] = NoWork /\ work'[p].doc = None
           /\ \A q \in Procs \ {p} : pc'[q] = pc[q] /\ work'[q] = work[q]
  <1>1. /\ pc' = [pc EXCEPT ![p] = "idle"] /\ work' = [work EXCEPT ![p] = NoWork]
    BY DEF Leave, Goto
  <1>2. /\ pc' \in [Procs -> WorkerSteps \cup AdminSteps] /\ work' \in [Procs -> Work \cup {NoWork}]
        /\ pc'[p] = "idle" /\ work'[p] = NoWork
        /\ \A q \in Procs \ {p} : pc'[q] = pc[q] /\ work'[q] = work[q]
    BY <1>1 DEF TypeOK, WorkerSteps
  <1>3. ControlOK'
    <2>1. /\ \A w \in Workers : pc'[w] \in WorkerSteps
          /\ \A a \in Admins : pc'[a] \in AdminSteps
      BY <1>2 DEF TypeOK, Procs, WorkerSteps, AdminSteps
    <2>2. \A q \in Procs : pc'[q] = "idle" <=> work'[q] = NoWork
      BY <1>2 DEF TypeOK
    <2>3. ASSUME NEW o \in Procs, NEW q \in Procs, work'[o].doc = work'[q].doc, o # q
          PROVE  work'[o] = NoWork
      <3>1. CASE o = p
        BY <1>2, <3>1
      <3>2. CASE o # p /\ q # p
        BY <1>2, <2>3, <3>2 DEF TypeOK
      <3>3. CASE o # p /\ q = p
        <4>1. work[o].doc = None
          BY <1>2, <2>3, <3>3 DEF NoWork
        <4> QED BY <1>2, <3>3, <4>1, NoneAssumption DEF TypeOK, Work
      <3> QED BY <3>1, <3>2, <3>3
    <2> QED BY <1>2, <2>1, <2>2, <2>3 DEF ControlOK
  <1>4. WorkInv(p)'
    BY <1>2 DEF WorkInv
  <1> QED BY <1>2, <1>3, <1>4 DEF NoWork

\* So is going on to a next step with the same document.
LEMMA GotoControl ==
    ASSUME TypeOK, NEW p \in Procs, pc[p] # "idle", NEW x, x # "idle",
           p \in Workers => x \in WorkerSteps, p \in Admins => x \in AdminSteps,
           pc' = [pc EXCEPT ![p] = x], NEW o \in {"indexed", "partial", "failed", "none"},
           work' = [work EXCEPT ![p].outcome = o]
    PROVE  /\ ControlOK' /\ pc'[p] = x
           /\ work'[p].doc = work[p].doc /\ work'[p].rev = work[p].rev /\ work'[p].outcome = o
           /\ \A q \in Procs \ {p} : pc'[q] = pc[q] /\ work'[q] = work[q]
  <1>1. work[p] \in Work /\ work[p] # NoWork
    BY DEF TypeOK
  <1>2. /\ work'[p] \in Work /\ work'[p].doc = work[p].doc /\ work'[p].rev = work[p].rev
        /\ work'[p].outcome = o
    BY <1>1 DEF TypeOK, Work
  <1>3. pc'[p] = x /\ \A q \in Procs \ {p} : pc'[q] = pc[q] /\ work'[q] = work[q]
    BY DEF TypeOK
  <1>4. work'[p] # NoWork
    BY <1>2, NoneAssumption DEF NoWork, Work
  <1>5. /\ pc' \in [Procs -> WorkerSteps \cup AdminSteps] /\ work' \in [Procs -> Work \cup {NoWork}]
    BY <1>2 DEF TypeOK, Procs
  <1>6. ControlOK'
    <2>1. /\ \A w \in Workers : pc'[w] \in WorkerSteps
          /\ \A a \in Admins : pc'[a] \in AdminSteps
      BY <1>3 DEF TypeOK, Procs
    <2>2. \A q \in Procs : pc'[q] = "idle" <=> work'[q] = NoWork
      BY <1>3, <1>4 DEF TypeOK
    <2>3. ASSUME NEW s \in Procs, NEW q \in Procs, work'[s].doc = work'[q].doc, s # q
          PROVE  work'[s] = NoWork
      <3>1. work[s].doc = work[q].doc
        BY <1>2, <1>3, <2>3
      <3>2. work[s] = NoWork /\ work[q] = NoWork
        BY <2>3, <3>1 DEF TypeOK
      <3> QED BY <1>1, <1>3, <3>2
    <2> QED BY <1>5, <2>1, <2>2, <2>3 DEF ControlOK
  <1> QED BY <1>2, <1>3, <1>6

\* What a write leaves in the two stores.
LEMMA WriteEffect ==
    ASSUME TypeOK, NEW p \in Procs, NEW d \in Docs, work[p].doc = d, NEW x, NEW g,
           Write(p, x, g), x \in [Revisions -> Levels], g \in 0..MaxRevision
    PROVE  /\ index' \in [Docs -> [Revisions -> Levels]] /\ graph' \in [Docs -> 0..MaxRevision]
           /\ index'[d] = x /\ graph'[d] = g
           /\ \A e \in Docs \ {d} : index'[e] = index[e] /\ graph'[e] = graph[e]
BY DEF TypeOK, Write

\* What a worker writes disturbs no promise but that something is whole.
LEMMA WorkerWrites ==
    ASSUME JobsInv, NEW w \in Workers, pc[w] # "idle", NEW d \in Docs, work[w].doc = d,
           NEW x \in [Revisions -> Levels], NEW g \in 0..MaxRevision, Write(w, x, g),
           UNCHANGED <<registry, torn>>,
           \A q \in Procs \ {w} : pc'[q] = pc[q] /\ work'[q] = work[q],
           \/ work'[w].doc = d /\ work'[w].rev = work[w].rev
           \/ work'[w].doc = None /\ version[d][work[w].rev].attempts < MaxAttempts,
           \A r \in Revisions : r >= active[d] /\ index[d][r] = "whole" =>
                                    \E q \in Revisions : q >= active[d] /\ x[q] = "whole"
    PROVE  /\ RegistryOK' /\ StoresOK'
           /\ \A q \in Procs \ {w} : WorkInv(q)'
           /\ \A e \in Docs : DocInv(e)'
           /\ index'[d] = x /\ graph'[d] = g
  <1> DEFINE r == work[w].rev
  <1>1. w \in Procs /\ w \notin Admins
    BY ProcessesAssumption DEF Procs
  <1>2. /\ UNCHANGED <<version, newest, active, clock, torn>>
        /\ index'[d] = x /\ graph'[d] = g
        /\ index' \in [Docs -> [Revisions -> Levels]] /\ graph' \in [Docs -> 0..MaxRevision]
        /\ \A e \in Docs \ {d} : index'[e] = index[e] /\ graph'[e] = graph[e]
    BY <1>1, WriteEffect DEF JobsInv, registry
  <1>3. RegistryOK' /\ StoresOK'
    BY <1>2, TypeParts DEF JobsInv, RegistryOK, StoresOK
  <1>4. \A q \in Procs \ {w} : work[q].doc # d
    BY <1>1, Alone
  <1>5. /\ \A q \in Procs \ {w} : WorkInv(q)'
        /\ \A e \in Docs \ {d} : DocInv(e)'
    BY <1>1, <1>2, <1>4, StepElsewhere
  <1>6. r \in 1..newest[d] /\ version[d][r].status = "processing" /\ DocInv(d)
        /\ r \in Revisions /\ r \in Pending(d)
    <2>1. WorkInv(w) /\ DocInv(d)
      BY <1>1 DEF JobsInv
    <2>2. r \in 1..newest[d] /\ version[d][r].status = "processing"
      BY <2>1 DEF WorkInv
    <2>3. newest[d] \in 0..MaxRevision
      BY DEF JobsInv, TypeOK
    <2>4. r \in Revisions
      BY <2>2, <2>3, Bounds DEF Revisions
    <2> QED BY <2>1, <2>2, <2>4 DEF Pending
  <1>7. Pending(d)' = Pending(d) /\ ~Deleted(d)'
    <2>1. ~Deleted(d)
      BY <1>6 DEF DocInv, Erased
    <2> QED BY <1>2, <2>1 DEF Pending, Deleted
  <1>8. Queue(d)'
    <2>1. ASSUME NEW q \in Pending(d)
          PROVE  \/ version[d][q].attempts < MaxAttempts
                 \/ \E v \in Workers : work'[v].doc = d /\ work'[v].rev = q
      <3>1. CASE version[d][q].attempts < MaxAttempts
        BY <3>1
      <3>2. CASE \E v \in Workers : work[v].doc = d /\ work[v].rev = q
        <4>1. q = r
          BY <1>4, <3>2 DEF Procs
        <4> QED BY <4>1
      <3> QED BY <1>6, <3>1, <3>2 DEF DocInv, Queue
    <2> QED BY <1>2, <1>6, <1>7, <2>1 DEF DocInv, Queue
  <1>9. Settled(d)'
    BY <1>2, <1>6 DEF DocInv, Settled
  <1>10. Whole(d)'
    <2>1. ~InDeletion(d)
      BY <1>1, <1>4 DEF InDeletion, Procs
    <2> QED BY <1>2, <1>6, <2>1 DEF DocInv, Whole
  <1>11. Readable(d)' /\ Erased(d)'
    BY <1>2, <1>6, <1>7 DEF DocInv, Readable, Erased
  <1> QED BY <1>2, <1>3, <1>5, <1>8, <1>9, <1>10, <1>11 DEF DocInv

----------------------------------------------------------------------------
(* Every action keeps JobsInv.                                             *)

LEMMA Initially == Init => JobsInv
  <1> SUFFICES ASSUME Init PROVE JobsInv OBVIOUS
  <1>1. RegistryOK
    <2>1. \A d \in Docs, r \in Revisions : version[d][r] = NoVersion /\ ~(r <= newest[d])
      BY Bounds DEF Init, Revisions
    <2> QED BY <2>1, Bounds DEF Init, RegistryOK
  <1>2. StoresOK
    BY Bounds DEF Init, StoresOK, Only, Levels
  <1>3. ControlOK
    BY ProcessesAssumption DEF Init, ControlOK, Procs, WorkerSteps, AdminSteps, NoWork
  <1>4. \A p \in Procs : WorkInv(p)
    BY DEF Init, WorkInv
  <1>5. ASSUME NEW d \in Docs PROVE DocInv(d)
    <2>1. newest[d] = 0 /\ active[d] = 0 /\ \A r \in Revisions : version[d][r].status = "absent"
      BY DEF Init, NoVersion
    <2>2. Pending(d) = {} /\ ~Deleted(d)
      BY <2>1 DEF Pending, Deleted
    <2> QED BY <2>1, <2>2 DEF DocInv, Queue, Settled, Whole, Readable, Erased
  <1> QED BY <1>1, <1>2, <1>3, <1>4, <1>5, TypeParts DEF JobsInv

\* A document nobody works on changes in the registry only.
LEMMA RegistryChange ==
    ASSUME JobsInv, NEW d \in Docs, ~Locked(d), UNCHANGED <<pc, work, index, graph, torn>>,
           \A e \in Docs \ {d} : UNCHANGED <<version[e], newest[e], active[e]>>,
           RegistryOK', DocInv(d)'
    PROVE  JobsInv'
  <1>1. StoresOK' /\ ControlOK'
    BY TypeParts DEF JobsInv, StoresOK, ControlOK
  <1>2. ASSUME NEW q \in Procs PROVE WorkInv(q)'
    <2>1. pc[q] # "idle" => work[q].doc \in Docs \ {d}
      BY DEF JobsInv, WorkInv, Locked
    <2> QED BY <2>1, WorkElsewhere DEF JobsInv
  <1>3. ASSUME NEW e \in Docs \ {d} PROVE DocInv(e)'
    BY DocElsewhere DEF JobsInv
  <1> QED BY <1>1, <1>2, <1>3, TypeParts DEF JobsInv

\* A new source becomes the newest revision, and its job the last.
LEMMA SubmitKeeps ==
    ASSUME JobsInv, NEW d \in Docs, NEW s \in Sources, Submit(d, s)
    PROVE  JobsInv'
  <1> DEFINE n == newest[d]
             v == [source |-> s, text |-> FALSE, attempts |-> 0, at |-> clock + 1,
                   status |-> "queued"]
  <1>1. /\ ~Locked(d) /\ n < MaxRevision /\ n \in Nat /\ n + 1 \in Revisions /\ clock \in Nat
        /\ active[d] \in Nat /\ active[d] <= n /\ DocInv(d)
    BY Bounds DEF Submit, MaySubmit, JobsInv, TypeOK, Revisions, DocInv, Queue
  <1>2. v \in Version
    BY <1>1, Bounds DEF Version
  <1>3. /\ version'[d] = [version[d] EXCEPT ![n + 1] = v] /\ newest'[d] = n + 1
        /\ \A e \in Docs \ {d} : version'[e] = version[e] /\ newest'[e] = newest[e]
        /\ UNCHANGED <<active, index, graph, pc, work, torn>> /\ clock' = clock + 1
        /\ version' \in [Docs -> [Revisions -> Version \cup {NoVersion}]]
        /\ newest' \in [Docs -> 0..MaxRevision]
    BY <1>1, <1>2, Bounds DEF Submit, JobsInv, TypeOK
  <1>4. version'[d][n + 1] = v /\ \A r \in Revisions \ {n + 1} : version'[d][r] = version[d][r]
    BY <1>1, <1>3 DEF JobsInv, TypeOK
  <1>5. RegistryOK'
    <2>1. ASSUME NEW r \in Revisions
          PROVE  version'[d][r] # NoVersion <=> r <= newest'[d]
      <3>1. CASE r = n + 1
        BY <1>1, <1>2, <1>3, <1>4, <3>1 DEF NoVersion
      <3>2. CASE r # n + 1
        BY <1>1, <1>3, <1>4, <3>2, Bounds DEF JobsInv, TypeOK, Revisions
      <3> QED BY <3>1, <3>2
    <2>2. ASSUME NEW e \in Docs, NEW r \in Revisions
          PROVE  version'[e][r] # NoVersion <=> r <= newest'[e]
      <3>1. CASE e = d
        BY <2>1, <3>1
      <3>2. CASE e # d
        <4>1. version'[e] = version[e] /\ newest'[e] = newest[e]
          BY <1>3, <3>2
        <4> QED BY <4>1 DEF JobsInv, TypeOK
      <3> QED BY <3>1, <3>2
    <2>3. active' \in [Docs -> 0..MaxRevision] /\ clock' \in Nat
      BY <1>1, <1>3 DEF JobsInv, TypeOK
    <2> QED BY <1>3, <2>2, <2>3 DEF RegistryOK
  <1>6. DocInv(d)'
    <2>1. ~Deleted(d)
      <3>1. SUFFICES ASSUME NEW r \in Revisions, version[d][r].status = "deleted" PROVE FALSE
        BY DEF Deleted
      <3>2. r <= n /\ r \in Nat /\ n > 0
        BY <3>1, <1>1, VersionAt, Bounds DEF JobsInv, Revisions
      <3>3. n \in 1..n /\ version[d][n].status = "deleted"
        BY <1>1, <3>1, <3>2 DEF DocInv, Erased, Deleted
      <3> QED BY <3>2, <3>3 DEF Submit
    <2>2. ~Deleted(d)'
      BY <1>4, <2>1 DEF Deleted
    <2>3. Pending(d)' = Pending(d) \cup {n + 1}
      BY <1>1, <1>4 DEF Pending
    <2>4. n + 1 \notin Pending(d)
      BY <1>1, PendingExist DEF JobsInv
    <2>5. Queue(d)'
      <3>1. ASSUME NEW r \in Pending(d)
            PROVE  /\ active[d] <= r
                   /\ \/ version'[d][r].attempts < MaxAttempts
                      \/ \E w \in Workers : work'[w].doc = d /\ work'[w].rev = r
        <4>1. r \in Revisions /\ r # n + 1
          BY <2>4, PendingExist DEF JobsInv
        <4> QED BY <1>1, <1>3, <1>4, <4>1 DEF DocInv, Queue
      <3>2. active[d] <= n + 1 /\ version'[d][n + 1].attempts < MaxAttempts
        BY <1>1, <1>4, Bounds
      <3> QED BY <1>3, <2>3, <3>1, <3>2 DEF Queue
    <2>6. Settled(d)'
      BY <1>3, <1>4 DEF Settled
    <2>7. Whole(d)'
      BY <1>1, <1>3 DEF DocInv, Whole, InDeletion
    <2>8. Readable(d)'
      <3>1. active[d] > 0 => active[d] \in Revisions /\ active[d] # n + 1
        BY <1>1, Bounds DEF Revisions
      <3> QED BY <1>1, <1>3, <1>4, <3>1 DEF DocInv, Readable
    <2>9. Erased(d)'
      BY <2>2 DEF Erased
    <2> QED BY <2>5, <2>6, <2>7, <2>8, <2>9 DEF DocInv
  <1> QED BY <1>1, <1>3, <1>5, <1>6, RegistryChange

\* Only the newest revision is tried again.
LEMMA RetryKeeps ==
    ASSUME JobsInv, NEW d \in Docs, NEW r \in Revisions, Retry(d, r)
    PROVE  JobsInv'
  <1>1. /\ ~Locked(d) /\ r = newest[d] /\ version[d][r].status \in {"failed", "partial"}
        /\ version[d][r].attempts < MaxAttempts /\ DocInv(d) /\ version[d][r] \in Version
        /\ r \in Nat /\ r > 0
    BY VersionAt, Bounds DEF Retry, MayTryAgain, JobsInv, Revisions
  <1> DEFINE v == [version[d][r] EXCEPT !.status = "queued"]
  <1>2. v \in Version /\ v.status = "queued" /\ v.attempts = version[d][r].attempts
        /\ v.text = version[d][r].text
    BY <1>1 DEF Version
  <1>3. /\ version'[d] = [version[d] EXCEPT ![r] = v]
        /\ \A e \in Docs \ {d} : version'[e] = version[e]
        /\ UNCHANGED <<newest, active, clock, index, graph, pc, work, torn>>
        /\ version' \in [Docs -> [Revisions -> Version \cup {NoVersion}]]
        /\ version'[d][r] = v /\ \A q \in Revisions \ {r} : version'[d][q] = version[d][q]
    <2>1. /\ version' = [version EXCEPT ![d] = [version[d] EXCEPT ![r] = v]]
          /\ UNCHANGED <<newest, active, clock, index, graph, pc, work, torn>>
      BY DEF Retry
    <2>2. TypeOK /\ v \in Version /\ version' = [version EXCEPT ![d] = [version[d] EXCEPT ![r] = v]]
      BY <1>2, <2>1 DEF JobsInv
    <2> HIDE DEF v
    <2>3. /\ version'[d] = [version[d] EXCEPT ![r] = v]
          /\ \A e \in Docs \ {d} : version'[e] = version[e]
          /\ version' \in [Docs -> [Revisions -> Version \cup {NoVersion}]]
          /\ version'[d][r] = v /\ \A q \in Revisions \ {r} : version'[d][q] = version[d][q]
      BY <2>2, VersionUpdate
    <2> QED BY <2>1, <2>3
  <1>4. version'[d][r] = v /\ \A q \in Revisions \ {r} : version'[d][q] = version[d][q]
    BY <1>3
  <1>5. RegistryOK'
    <2>1. ASSUME NEW q \in Revisions PROVE version'[d][q] # NoVersion <=> q <= newest'[d]
      BY <1>1, <1>2, <1>3, <1>4 DEF JobsInv, TypeOK, NoVersion
    <2> QED BY <1>3, <2>1, TypeParts DEF JobsInv, RegistryOK
  <1>6. DocInv(d)'
    <2>1. ~Deleted(d)
      BY <1>1 DEF DocInv, Erased
    <2>2. ~Deleted(d)'
      BY <1>2, <1>4, <2>1 DEF Deleted
    <2>3. Pending(d)' = Pending(d) \cup {r}
      BY <1>2, <1>4 DEF Pending
    <2>4. Queue(d)'
      BY <1>1, <1>2, <1>3, <1>4, <2>3 DEF DocInv, Queue, Pending
    <2>5. Settled(d)'
      BY <1>1, <1>2, <1>3, <1>4 DEF Settled
    <2>6. Whole(d)'
      BY <1>1, <1>3 DEF DocInv, Whole, InDeletion
    <2>7. Readable(d)'
      <3>1. active[d] > 0 => active[d] \in Revisions
        BY Bounds DEF JobsInv, TypeOK, Revisions
      <3> QED BY <1>1, <1>2, <1>3, <1>4, <3>1 DEF DocInv, Readable
    <2>8. Erased(d)'
      BY <2>2 DEF Erased
    <2> QED BY <2>4, <2>5, <2>6, <2>7, <2>8 DEF DocInv
  <1> QED BY <1>1, <1>3, <1>5, <1>6, RegistryChange

\* A worker takes the lowest pending revision of a document nobody holds.
LEMMA ClaimKeeps ==
    ASSUME JobsInv, NEW w \in Workers, Claim(w)
    PROVE  JobsInv'
  <1>1. PICK d \in Docs, r \in Revisions :
            /\ IsNextJob(d, r) /\ ~Locked(d)
            /\ version' = [version EXCEPT ![d][r].status = "processing",
                                          ![d][r].attempts = @ + 1]
            /\ work' = [work EXCEPT ![w] = [NoWork EXCEPT !.doc = d, !.rev = r]]
    BY DEF Claim, First
  <1>2. /\ w \in Procs /\ w \notin Admins /\ pc[w] = "idle" /\ work[w] = NoWork
        /\ pc' = [pc EXCEPT ![w] = "prepare"]
        /\ UNCHANGED <<newest, active, clock, index, graph, torn>>
    BY ProcessesAssumption DEF Claim, At, Goto, Procs, JobsInv, TypeOK
  <1>3. /\ r \in Pending(d) /\ \A q \in Pending(d) : r <= q
        /\ DocInv(d) /\ \A q \in Procs : work[q].doc # d
    BY <1>1 DEF IsNextJob, Locked, JobsInv
  <1>4. r <= newest[d] /\ version[d][r] \in Version /\ r \in Nat /\ r > 0 /\ newest[d] \in Nat
    BY <1>3, PendingExist, Bounds DEF JobsInv, TypeOK, Revisions
  <1>5. version[d][r].attempts < MaxAttempts /\ version[d][r].attempts \in Nat
    BY <1>3, <1>4, Bounds DEF DocInv, Queue, Procs, Version
  <1> DEFINE v == [version[d][r] EXCEPT !.status = "processing", !.attempts = @ + 1]
  <1>6. v \in Version /\ v.status = "processing" /\ v.text = version[d][r].text
    <2>1. version[d][r].attempts + 1 \in 0..MaxAttempts
      BY <1>5, Bounds
    <2> QED BY <1>4, <2>1 DEF Version
  <1>7. /\ version'[d] = [version[d] EXCEPT ![r] = v]
        /\ \A e \in Docs \ {d} : version'[e] = version[e]
        /\ version' \in [Docs -> [Revisions -> Version \cup {NoVersion}]]
        /\ version'[d][r] = v /\ \A q \in Revisions \ {r} : version'[d][q] = version[d][q]
    <2>1. version \in [Docs -> [Revisions -> Version \cup {NoVersion}]]
      BY DEF JobsInv, TypeOK
    <2>2. version' = [version EXCEPT ![d] = [version[d] EXCEPT ![r] = v]]
      BY <1>1, <2>1
    <2> HIDE DEF v
    <2> QED BY <1>6, <2>2, VersionUpdate DEF JobsInv
  <1>8. version'[d][r] = v /\ \A q \in Revisions \ {r} : version'[d][q] = version[d][q]
    BY <1>7
  <1>9. RegistryOK' /\ StoresOK'
    <2>1. ASSUME NEW q \in Revisions PROVE version'[d][q] # NoVersion <=> q <= newest'[d]
      <3>1. CASE q = r
        <4>1. version'[d][q].status = "processing" /\ NoVersion.status = "absent"
          BY <1>6, <1>8, <3>1 DEF NoVersion
        <4> QED BY <1>2, <1>4, <3>1, <4>1
      <3>2. CASE q # r
        BY <1>2, <1>8, <3>2 DEF JobsInv, TypeOK
      <3> QED BY <3>1, <3>2
    <2>2. RegistryOK /\ StoresOK
      BY TypeParts DEF JobsInv
    <2>3. ASSUME NEW e \in Docs, NEW q \in Revisions
          PROVE  version'[e][q] # NoVersion <=> q <= newest'[e]
      <3>1. CASE e = d
        BY <2>1, <3>1
      <3>2. CASE e # d
        BY <1>2, <1>7, <2>2, <3>2 DEF RegistryOK
      <3> QED BY <3>1, <3>2
    <2>4. RegistryOK'
      BY <1>2, <1>7, <2>2, <2>3 DEF RegistryOK
    <2> QED BY <1>2, <2>2, <2>4 DEF StoresOK
  <1>10. /\ work'[w] \in Work /\ work'[w].doc = d /\ work'[w].rev = r
         /\ work'[w].outcome = "none" /\ pc'[w] = "prepare"
         /\ \A q \in Procs \ {w} : pc'[q] = pc[q] /\ work'[q] = work[q]
    BY <1>1, <1>2 DEF NoWork, Work, JobsInv, TypeOK
  <1>11. ControlOK'
    <2>1. work' \in [Procs -> Work \cup {NoWork}] /\ pc' \in [Procs -> WorkerSteps \cup AdminSteps]
      BY <1>1, <1>2, <1>10 DEF JobsInv, TypeOK, WorkerSteps
    <2>2. \A q \in Procs : pc'[q] = "idle" <=> work'[q] = NoWork
      BY <1>10, NoneAssumption DEF JobsInv, TypeOK, NoWork
    <2>3. (\A u \in Workers : pc'[u] \in WorkerSteps) /\ (\A a \in Admins : pc'[a] \in AdminSteps)
      BY <1>2, <1>10 DEF JobsInv, TypeOK, WorkerSteps, Procs
    <2>4. ASSUME NEW p \in Procs, NEW q \in Procs, work'[p].doc = work'[q].doc, p # q
          PROVE  work'[p] = NoWork
      <3>1. p # w /\ q # w
        BY <1>3, <1>10, <2>4
      <3>2. work'[p] = work[p] /\ work'[q] = work[q]
        BY <1>10, <3>1
      <3> QED BY <2>4, <3>2 DEF JobsInv, TypeOK
    <2> QED BY <2>1, <2>2, <2>3, <2>4 DEF ControlOK
  <1>12. /\ \A q \in Procs \ {w} : WorkInv(q)'
         /\ \A e \in Docs \ {d} : DocInv(e)'
    BY <1>2, <1>3, <1>7, <1>10, StepElsewhere DEF NoWork
  <1>13. Pending(d)' = Pending(d)
    BY <1>3, <1>6, <1>8 DEF Pending
  <1>14. WorkInv(w)'
    <2>1. r \in 1..newest'[d] /\ version'[d][r].status = "processing"
      BY <1>2, <1>4, <1>6, <1>8
    <2>2. newest'[d] > 0
      BY <1>2, <1>4
    <2>3. w \notin Admins
      BY <1>2
    <2>4. \A q \in Pending(d)' : r <= q
      BY <1>3, <1>13
    <2> QED BY <1>10, <2>1, <2>2, <2>3, <2>4 DEF WorkInv, Pending
  <1>15. DocInv(d)'
    <2>1. ~Deleted(d) /\ ~Deleted(d)'
      <3>1. ~Deleted(d)
        BY <1>3, <1>4 DEF DocInv, Erased, Pending
      <3> QED BY <1>6, <1>8, <3>1 DEF Deleted
    <2>2. Queue(d)'
      <3>1. w \in Workers /\ work'[w].doc = d /\ work'[w].rev = r
        BY <1>10
      <3>2. ASSUME NEW q \in Pending(d), q # r PROVE version'[d][q].attempts < MaxAttempts
        BY <1>3, <1>8, <3>2 DEF DocInv, Queue, Procs, Pending
      <3> QED BY <1>2, <1>3, <1>13, <3>1, <3>2 DEF DocInv, Queue
    <2>3. Settled(d)'
      <3>1. newest[d] \in Revisions
        BY <1>4, Bounds DEF JobsInv, TypeOK, Revisions
      <3> QED BY <1>2, <1>3, <1>6, <1>8, <3>1 DEF DocInv, Settled
    <2>4. ~InDeletion(d)
      BY <1>3 DEF InDeletion, Procs
    <2>5. Whole(d)'
      BY <1>2, <1>3, <2>4 DEF DocInv, Whole
    <2>6. Readable(d)'
      <3>1. active[d] > 0 => active[d] \in Revisions
        BY Bounds DEF JobsInv, TypeOK, Revisions
      <3> QED BY <1>2, <1>3, <1>6, <1>8, <3>1 DEF DocInv, Readable
    <2>7. Erased(d)'
      BY <2>1 DEF Erased
    <2> QED BY <2>2, <2>3, <2>5, <2>6, <2>7 DEF DocInv
  <1> QED BY <1>9, <1>11, <1>12, <1>14, <1>15, TypeParts DEF JobsInv

\* A worker's step up to the commit: it writes x and g and goes on to y.
StepOf(w, d, r, x, g, y, o) ==
    /\ pc[w] # "idle" /\ d \in Docs /\ work[w].doc = d /\ work[w].rev = r
    /\ x \in [Revisions -> Levels] /\ g \in 0..MaxRevision /\ Write(w, x, g)
    /\ UNCHANGED <<registry, torn>>
    /\ y \in WorkerSteps \ {"idle"} /\ pc' = [pc EXCEPT ![w] = y]
    /\ o \in {"indexed", "partial", "failed", "none"}
    /\ work' = [work EXCEPT ![w].outcome = o]
    /\ \A q \in Revisions : q >= active[d] /\ index[d][q] = "whole" =>
                                \E n \in Revisions : n >= active[d] /\ x[n] = "whole"
    /\ LET plain == version[d][r].source \notin Extracted IN
       /\ y \in {"upsert", "retire"} /\ plain => g = 0
       /\ y = "retire" => x[r] = "whole"
       /\ y = "extract" => x = Only(r) /\ ~plain
       /\ y = "complete" <=> o # "none"
       /\ o \in {"indexed", "partial"} => x = Only(r)
       /\ o = "indexed" => g = IF plain THEN 0 ELSE r

LEMMA WorkerStepKeeps ==
    ASSUME JobsInv, NEW w \in Workers, NEW d, NEW r, NEW x, NEW g, NEW y, NEW o,
           StepOf(w, d, r, x, g, y, o)
    PROVE  JobsInv'
  <1> USE DEF StepOf
  <1>1. w \in Procs /\ w \notin Admins /\ WorkInv(w) /\ TypeOK
    BY ProcessesAssumption DEF Procs, JobsInv
  <1>2. /\ ControlOK' /\ pc'[w] = y
        /\ work'[w].doc = d /\ work'[w].rev = work[w].rev /\ work'[w].outcome = o
        /\ \A q \in Procs \ {w} : pc'[q] = pc[q] /\ work'[q] = work[q]
    <2>1. /\ pc[w] # "idle" /\ y # "idle" /\ y \in WorkerSteps /\ work[w].doc = d
          /\ o \in {"indexed", "partial", "failed", "none"}
          /\ pc' = [pc EXCEPT ![w] = y] /\ work' = [work EXCEPT ![w].outcome = o]
      OBVIOUS
    <2> QED BY ONLY <1>1, <2>1, GotoControl
  <1>3. /\ RegistryOK' /\ StoresOK'
        /\ \A q \in Procs \ {w} : WorkInv(q)'
        /\ \A e \in Docs : DocInv(e)'
        /\ index'[d] = x /\ graph'[d] = g
    BY <1>2, WorkerWrites
  <1>4. version' = version /\ newest' = newest
    BY DEF registry
  <1>5. WorkInv(w)'
    <2>2. /\ newest[d] > 0 /\ r \in 1..newest[d] /\ version[d][r].status = "processing"
          /\ \A q \in Pending(d) : r <= q
      BY <1>1 DEF WorkInv
    <2>3. /\ newest'[d] > 0 /\ r \in 1..newest'[d] /\ version'[d][r].status = "processing"
          /\ \A q \in Pending(d)' : r <= q
      BY <1>4, <2>2 DEF Pending
    <2>4. work'[w].doc = d /\ work'[w].rev = r /\ work'[w].outcome = o /\ pc'[w] = y
      BY <1>2
    <2>5. LET plain == version'[d][r].source \notin Extracted IN
          /\ y \in {"upsert", "retire"} /\ plain => graph'[d] = 0
          /\ y = "retire" => index'[d][r] = "whole"
          /\ y = "extract" => index'[d] = Only(r) /\ ~plain
          /\ y = "complete" <=> o # "none"
          /\ o \in {"indexed", "partial"} => index'[d] = Only(r)
          /\ o = "indexed" => graph'[d] = IF plain THEN 0 ELSE r
      BY <1>3, <1>4
    <2> QED BY <1>1, <2>3, <2>4, <2>5 DEF WorkInv, Pending
  <1> QED BY <1>2, <1>3, <1>5, TypeParts DEF JobsInv

\* Where a worker stands: its revision is pending, so not below the published one.
LEMMA WorkerAt ==
    ASSUME JobsInv, NEW w \in Workers, pc[w] # "idle"
    PROVE  LET d == work[w].doc
               r == work[w].rev
           IN  /\ w \in Procs /\ d \in Docs /\ r \in Revisions /\ r \in Nat
               /\ r >= active[d] /\ active[d] \in Nat
               /\ index[d] \in [Revisions -> Levels] /\ graph[d] \in 0..MaxRevision
               /\ r \in 0..MaxRevision
               /\ work = [work EXCEPT ![w].outcome = work[w].outcome]
               /\ version[d][r].status = "processing" /\ r \in Pending(d)
               /\ r \in 1..newest[d]
               /\ \A q \in Pending(d) : r <= q
  <1> DEFINE d == work[w].doc
             r == work[w].rev
  <1>1. w \in Procs /\ WorkInv(w) /\ TypeOK
    BY DEF Procs, JobsInv
  <1>2. d \in Docs /\ r \in 1..newest[d] /\ version[d][r].status = "processing"
        /\ \A q \in Pending(d) : r <= q
    BY <1>1 DEF WorkInv
  <1>3. newest[d] \in 0..MaxRevision /\ active[d] \in Nat
        /\ index[d] \in [Revisions -> Levels] /\ graph[d] \in 0..MaxRevision
    BY <1>1, <1>2, Bounds DEF TypeOK
  <1>4. r \in Revisions /\ r \in Nat /\ r \in 0..MaxRevision /\ r \in Pending(d)
    BY <1>2, <1>3, Bounds DEF Revisions, Pending
  <1>5. DocInv(d)
    BY <1>2 DEF JobsInv
  <1>6. active[d] <= r
    BY <1>4, <1>5 DEF DocInv, Queue
  <1>7. work[w] \in Work
    BY <1>1 DEF TypeOK
  <1>8. work = [work EXCEPT ![w].outcome = work[w].outcome]
    BY <1>1, <1>7 DEF TypeOK, Work
  <1> QED BY <1>1, <1>2, <1>3, <1>4, <1>6, <1>8

\* A write that fails half way never unmakes a whole revision it keeps.
LEMMA HalfWritten ==
    ASSUME NEW d \in Docs, index[d] \in [Revisions -> Levels], NEW r \in Revisions
    PROVE  /\ \A x \in HalfUpserted(d, r) :
                /\ x \in [Revisions -> Levels]
                /\ \A q \in Revisions : index[d][q] = "whole" => x[q] = "whole"
           /\ \A x \in HalfRemoved(d, {r}) : x \in [Revisions -> Levels] /\ x[r] = index[d][r]
           /\ \A x \in HalfRemoved(d, {}) :
                x \in [Revisions -> Levels] /\ (index[d] = Only(0) => x = Only(0))
           /\ With(d, r) \in [Revisions -> Levels] /\ With(d, r)[r] = "whole"
           /\ Only(r) \in [Revisions -> Levels] /\ Only(r)[r] = "whole"
           /\ Only(0) \in [Revisions -> Levels]
  <1>1. ASSUME NEW x \in HalfUpserted(d, r)
        PROVE  /\ x \in [Revisions -> Levels]
               /\ \A q \in Revisions : index[d][q] = "whole" => x[q] = "whole"
    <2>1. PICK level \in Levels : /\ index[d][r] \in Lesser[level]
                                  /\ x = [index[d] EXCEPT ![r] = level]
      BY <1>1 DEF HalfUpserted
    <2>2. index[d][r] = "whole" => level = "whole"
      BY <2>1 DEF Lesser, Levels
    <2> QED BY <2>1, <2>2
  <1>2. \A x \in HalfRemoved(d, {r}) : x \in [Revisions -> Levels] /\ x[r] = index[d][r]
    BY DEF HalfRemoved
  <1>3. ASSUME NEW x \in HalfRemoved(d, {}), index[d] = Only(0) PROVE x = Only(0)
    <2>1. 0 \notin Revisions
      BY Bounds DEF Revisions
    <2>2. \A q \in Revisions : x[q] \in Lesser["none"]
      BY <1>3, <2>1 DEF HalfRemoved, Only
    <2>3. \A q \in Revisions : x[q] = "none"
      BY <2>2 DEF Lesser, Levels
    <2>4. x \in [Revisions -> Levels]
      BY DEF HalfRemoved
    <2> QED BY <2>1, <2>3, <2>4 DEF Only
  <1>4. /\ With(d, r) \in [Revisions -> Levels] /\ With(d, r)[r] = "whole"
        /\ Only(r) \in [Revisions -> Levels] /\ Only(r)[r] = "whole"
        /\ Only(0) \in [Revisions -> Levels]
    BY DEF With, Only, Levels
  <1> QED BY <1>1, <1>2, <1>3, <1>4 DEF HalfRemoved

\* Nothing is written before the text is parsed and embedded.
LEMMA PrepareKeeps ==
    ASSUME JobsInv, NEW w \in Workers, Prepare(w)
    PROVE  JobsInv'
  <1>1. PICK d, r : d = work[w].doc /\ r = work[w].rev
    OBVIOUS
  <1>2. pc[w] = "prepare" /\ pc[w] # "idle" /\ work[w].outcome = "none"
    BY DEF Prepare, At, JobsInv, WorkInv, Procs
  <1>3. /\ d \in Docs /\ index[d] \in [Revisions -> Levels] /\ graph[d] \in 0..MaxRevision
        /\ work = [work EXCEPT ![w].outcome = "none"]
    BY <1>1, <1>2, WorkerAt
  <1>4. Write(w, index[d], graph[d]) /\ UNCHANGED <<registry, torn>>
    BY <1>1, <1>3 DEF Prepare, Write, JobsInv, TypeOK
  <1>5. CASE Conclude(w, "failed")
    <2>1. /\ pc' = [pc EXCEPT ![w] = "complete"] /\ work' = [work EXCEPT ![w].outcome = "failed"]
          /\ "complete" \in WorkerSteps \ {"idle"}
      BY <1>5 DEF Conclude, Goto, WorkerSteps
    <2>2. StepOf(w, d, r, index[d], graph[d], "complete", "failed")
      BY <1>1, <1>2, <1>3, <1>4, <2>1 DEF StepOf
    <2> QED BY <2>2, WorkerStepKeeps
  <1>6. CASE /\ Goto(w, IF version[d][r].source \in Extracted THEN "upsert" ELSE "clear")
             /\ UNCHANGED work
    <2>1. work' = [work EXCEPT ![w].outcome = "none"]
      BY <1>3, <1>6
    <2>2. CASE version[d][r].source \in Extracted
      <3>1. pc' = [pc EXCEPT ![w] = "upsert"] /\ "upsert" \in WorkerSteps \ {"idle"}
        BY <1>6, <2>2 DEF Goto, WorkerSteps
      <3>2. StepOf(w, d, r, index[d], graph[d], "upsert", "none")
        BY <1>1, <1>2, <1>3, <1>4, <2>1, <2>2, <3>1 DEF StepOf
      <3> QED BY <3>2, WorkerStepKeeps
    <2>3. CASE version[d][r].source \notin Extracted
      <3>1. pc' = [pc EXCEPT ![w] = "clear"] /\ "clear" \in WorkerSteps \ {"idle"}
        BY <1>6, <2>3 DEF Goto, WorkerSteps
      <3>2. StepOf(w, d, r, index[d], graph[d], "clear", "none")
        BY <1>1, <1>2, <1>3, <1>4, <2>1, <3>1 DEF StepOf
      <3> QED BY <3>2, WorkerStepKeeps
    <2> QED BY <2>2, <2>3
  <1> QED BY <1>1, <1>5, <1>6 DEF Prepare

\* The assertions of older revisions go before the new one comes.
LEMMA ClearGraphKeeps ==
    ASSUME JobsInv, NEW w \in Workers, ClearGraph(w)
    PROVE  JobsInv'
  <1>1. PICK d, r : d = work[w].doc /\ r = work[w].rev
    OBVIOUS
  <1>2. /\ pc[w] = "clear" /\ pc[w] # "idle" /\ work[w].outcome = "none"
        /\ UNCHANGED <<registry, torn>>
    BY DEF ClearGraph, At, JobsInv, WorkInv, Procs
  <1>3. /\ d \in Docs /\ index[d] \in [Revisions -> Levels] /\ {graph[d], 0} \subseteq 0..MaxRevision
        /\ work = [work EXCEPT ![w].outcome = "none"]
    BY <1>1, <1>2, WorkerAt, Bounds
  <1>4. CASE Goto(w, "upsert") /\ UNCHANGED work /\ Write(w, index[d], 0)
    <2>1. /\ pc' = [pc EXCEPT ![w] = "upsert"] /\ "upsert" \in WorkerSteps \ {"idle"}
          /\ work' = [work EXCEPT ![w].outcome = "none"]
      BY <1>3, <1>4 DEF Goto, WorkerSteps
    <2>2. StepOf(w, d, r, index[d], 0, "upsert", "none")
      BY <1>1, <1>2, <1>3, <1>4, <2>1 DEF StepOf
    <2> QED BY <2>2, WorkerStepKeeps
  <1>5. CASE Conclude(w, "failed") /\ \E g \in {graph[d], 0} : Write(w, index[d], g)
    <2>1. /\ pc' = [pc EXCEPT ![w] = "complete"] /\ "complete" \in WorkerSteps \ {"idle"}
          /\ work' = [work EXCEPT ![w].outcome = "failed"]
      BY <1>5 DEF Conclude, Goto, WorkerSteps
    <2>2. PICK g \in {graph[d], 0} : Write(w, index[d], g)
      BY <1>5
    <2>3. StepOf(w, d, r, index[d], g, "complete", "failed")
      BY <1>1, <1>2, <1>3, <2>1, <2>2 DEF StepOf
    <2> QED BY <2>3, WorkerStepKeeps
  <1> QED BY <1>1, <1>4, <1>5 DEF ClearGraph

\* The new revision is there completely before any older one is taken away.
LEMMA UpsertKeeps ==
    ASSUME JobsInv, NEW w \in Workers, Upsert(w)
    PROVE  JobsInv'
  <1>1. PICK d, r : d = work[w].doc /\ r = work[w].rev
    OBVIOUS
  <1>2. /\ pc[w] = "upsert" /\ pc[w] # "idle" /\ work[w].outcome = "none"
        /\ UNCHANGED <<registry, torn>>
        /\ version[d][r].source \notin Extracted => graph[d] = 0
    BY <1>1 DEF Upsert, At, JobsInv, WorkInv, Procs
  <1>3. /\ d \in Docs /\ index[d] \in [Revisions -> Levels] /\ graph[d] \in 0..MaxRevision
        /\ r \in Revisions /\ r >= active[d] /\ work = [work EXCEPT ![w].outcome = "none"]
    BY <1>1, <1>2, WorkerAt
  <1>4. CASE Goto(w, "retire") /\ UNCHANGED work /\ Write(w, With(d, r), graph[d])
    <2>1. /\ pc' = [pc EXCEPT ![w] = "retire"] /\ "retire" \in WorkerSteps \ {"idle"}
          /\ work' = [work EXCEPT ![w].outcome = "none"]
      BY <1>3, <1>4 DEF Goto, WorkerSteps
    <2>2. With(d, r) \in [Revisions -> Levels] /\ With(d, r)[r] = "whole"
      BY <1>3, HalfWritten
    <2>3. StepOf(w, d, r, With(d, r), graph[d], "retire", "none")
      BY <1>1, <1>2, <1>3, <1>4, <2>1, <2>2 DEF StepOf
    <2> QED BY <2>3, WorkerStepKeeps
  <1>5. CASE /\ Conclude(w, "failed")
             /\ \E x \in HalfUpserted(d, r) : Write(w, x, graph[d])
    <2>1. /\ pc' = [pc EXCEPT ![w] = "complete"] /\ "complete" \in WorkerSteps \ {"idle"}
          /\ work' = [work EXCEPT ![w].outcome = "failed"]
      BY <1>5 DEF Conclude, Goto, WorkerSteps
    <2>2. PICK x \in HalfUpserted(d, r) : Write(w, x, graph[d])
      BY <1>5
    <2>3. /\ x \in [Revisions -> Levels]
          /\ \A q \in Revisions : index[d][q] = "whole" => x[q] = "whole"
      BY <1>3, HalfWritten
    <2>4. StepOf(w, d, r, x, graph[d], "complete", "failed")
      BY <1>1, <1>2, <1>3, <2>1, <2>2, <2>3 DEF StepOf
    <2> QED BY <2>4, WorkerStepKeeps
  <1> QED BY <1>1, <1>4, <1>5 DEF Upsert

\* Then the older ones go.
LEMMA RetireKeeps ==
    ASSUME JobsInv, NEW w \in Workers, Retire(w)
    PROVE  JobsInv'
  <1>1. PICK d, r : d = work[w].doc /\ r = work[w].rev
    OBVIOUS
  <1>2. /\ pc[w] = "retire" /\ pc[w] # "idle" /\ work[w].outcome = "none"
        /\ UNCHANGED <<registry, torn>> /\ index[d][r] = "whole"
        /\ version[d][r].source \notin Extracted => graph[d] = 0
    BY <1>1 DEF Retire, At, JobsInv, WorkInv, Procs
  <1>3. /\ d \in Docs /\ index[d] \in [Revisions -> Levels] /\ graph[d] \in 0..MaxRevision
        /\ r \in Revisions /\ r >= active[d] /\ work = [work EXCEPT ![w].outcome = "none"]
        /\ Only(r) \in [Revisions -> Levels] /\ Only(r)[r] = "whole"
    <2>1. /\ d \in Docs /\ index[d] \in [Revisions -> Levels] /\ graph[d] \in 0..MaxRevision
          /\ r \in Revisions /\ r >= active[d] /\ work = [work EXCEPT ![w].outcome = "none"]
      BY <1>1, <1>2, WorkerAt
    <2> QED BY <2>1, HalfWritten
  <1>4. CASE /\ version[d][r].source \in Extracted
             /\ Goto(w, "extract") /\ UNCHANGED work
             /\ Write(w, Only(r), graph[d])
    <2>1. /\ pc' = [pc EXCEPT ![w] = "extract"] /\ "extract" \in WorkerSteps \ {"idle"}
          /\ work' = [work EXCEPT ![w].outcome = "none"]
      BY <1>3, <1>4 DEF Goto, WorkerSteps
    <2>2. StepOf(w, d, r, Only(r), graph[d], "extract", "none")
      BY <1>1, <1>2, <1>3, <1>4, <2>1 DEF StepOf
    <2> QED BY <2>2, WorkerStepKeeps
  <1>5. CASE /\ version[d][r].source \notin Extracted
             /\ Conclude(w, "indexed")
             /\ Write(w, Only(r), graph[d])
    <2>1. /\ pc' = [pc EXCEPT ![w] = "complete"] /\ "complete" \in WorkerSteps \ {"idle"}
          /\ work' = [work EXCEPT ![w].outcome = "indexed"]
      BY <1>5 DEF Conclude, Goto, WorkerSteps
    <2>2. StepOf(w, d, r, Only(r), graph[d], "complete", "indexed")
      BY <1>1, <1>2, <1>3, <1>5, <2>1 DEF StepOf
    <2> QED BY <2>2, WorkerStepKeeps
  <1>6. CASE /\ Conclude(w, "failed")
             /\ \E x \in HalfRemoved(d, {r}) : Write(w, x, graph[d])
    <2>1. /\ pc' = [pc EXCEPT ![w] = "complete"] /\ "complete" \in WorkerSteps \ {"idle"}
          /\ work' = [work EXCEPT ![w].outcome = "failed"]
      BY <1>6 DEF Conclude, Goto, WorkerSteps
    <2>2. PICK x \in HalfRemoved(d, {r}) : Write(w, x, graph[d])
      BY <1>6
    <2>3. x \in [Revisions -> Levels] /\ x[r] = "whole"
      BY <1>2, <1>3, HalfWritten
    <2>4. StepOf(w, d, r, x, graph[d], "complete", "failed")
      BY <1>1, <1>2, <1>3, <2>1, <2>2, <2>3 DEF StepOf
    <2> QED BY <2>4, WorkerStepKeeps
  <1> QED BY <1>1, <1>4, <1>5, <1>6 DEF Retire

\* The graph follows, or the outcome says that it did not.
LEMMA ExtractKeeps ==
    ASSUME JobsInv, NEW w \in Workers, Extract(w)
    PROVE  JobsInv'
  <1>1. PICK d, r : d = work[w].doc /\ r = work[w].rev
    OBVIOUS
  <1>2. /\ pc[w] = "extract" /\ pc[w] # "idle" /\ UNCHANGED <<registry, torn>>
        /\ index[d] = Only(r) /\ version[d][r].source \in Extracted
    BY <1>1 DEF Extract, At, JobsInv, WorkInv, Procs
  <1>3. /\ d \in Docs /\ index[d] \in [Revisions -> Levels]
        /\ {graph[d], r, 0} \subseteq 0..MaxRevision
    <2>1. /\ d \in Docs /\ index[d] \in [Revisions -> Levels]
          /\ graph[d] \in 0..MaxRevision /\ r \in 0..MaxRevision
      BY <1>1, <1>2, WorkerAt
    <2> QED BY <2>1, Bounds
  <1>4. \/ /\ Conclude(w, "indexed") /\ Write(w, index[d], r)
        \/ /\ Conclude(w, "partial") /\ \E g \in {graph[d], r, 0} : Write(w, index[d], g)
    BY <1>1 DEF Extract
  <1>5. PICK o \in {"indexed", "partial"}, g \in {graph[d], r, 0} :
            Conclude(w, o) /\ Write(w, index[d], g) /\ (o = "indexed" => g = r)
    BY <1>4
  <1>6. /\ pc' = [pc EXCEPT ![w] = "complete"] /\ "complete" \in WorkerSteps \ {"idle"}
        /\ work' = [work EXCEPT ![w].outcome = o]
    BY <1>5 DEF Conclude, Goto, WorkerSteps
  <1>7. StepOf(w, d, r, index[d], g, "complete", o)
    BY <1>1, <1>2, <1>3, <1>5, <1>6 DEF StepOf
  <1> QED BY <1>7, WorkerStepKeeps

\* The outcome, and with a success the pointer, in one commit.
LEMMA CompleteKeeps ==
    ASSUME JobsInv, NEW w \in Workers, Complete(w)
    PROVE  JobsInv'
  <1>1. PICK d, r, o : d = work[w].doc /\ r = work[w].rev /\ o = work[w].outcome
    OBVIOUS
  <1>2. /\ w \in Procs /\ w \notin Admins /\ pc[w] = "complete" /\ pc[w] # "idle"
        /\ Leave(w) /\ UNCHANGED <<newest, clock, index, graph>>
    BY ProcessesAssumption DEF Complete, At, Procs
  <1>3. /\ d \in Docs /\ r \in Revisions /\ r \in Nat /\ r \in 1..newest[d] /\ r >= active[d]
        /\ active[d] \in Nat
        /\ version[d][r].status = "processing" /\ r \in Pending(d)
        /\ \A q \in Pending(d) : r <= q
    BY <1>1, <1>2, WorkerAt
  <1>4. /\ o \in {"indexed", "partial", "failed"}
        /\ o \in {"indexed", "partial"} => index[d] = Only(r)
        /\ o = "indexed" => graph[d] = IF version[d][r].source \notin Extracted THEN 0 ELSE r
    <2>1. work[w] \in Work /\ WorkInv(w)
      BY <1>2, Alone DEF JobsInv
    <2> QED BY <1>1, <1>2, <2>1 DEF WorkInv, Work
  <1>5. /\ version[d][r] \in Version /\ DocInv(d) /\ newest[d] \in 0..MaxRevision
        /\ \A q \in Procs \ {w} : work[q].doc # d
    BY <1>1, <1>2, <1>3, PendingExist, Alone DEF JobsInv, TypeOK
  <1>6. PICK v : /\ v = IF o = "failed" THEN [version[d][r] EXCEPT !.status = o]
                                        ELSE [version[d][r] EXCEPT !.status = o, !.text = TRUE]
    OBVIOUS
  <1>7. /\ v \in Version /\ v.status = o /\ v.source = version[d][r].source
        /\ v.attempts = version[d][r].attempts
        /\ o = "failed" => v.text = version[d][r].text
        /\ o # "failed" => v.text
    <2>1. CASE o = "failed"
      BY <1>5, <1>6, <2>1 DEF Version
    <2>2. CASE o # "failed"
      BY <1>4, <1>5, <1>6, <2>2 DEF Version
    <2> QED BY <2>1, <2>2
  <1>8. /\ version'[d] = [version[d] EXCEPT ![r] = v]
        /\ version' \in [Docs -> [Revisions -> Version \cup {NoVersion}]]
        /\ \A e \in Docs \ {d} : UNCHANGED <<version[e], active[e], torn[e]>>
        /\ active' \in [Docs -> 0..MaxRevision] /\ torn' \in [Docs -> 0..MaxDeletions]
        /\ o = "failed" => active'[d] = active[d] /\ torn'[d] = torn[d]
        /\ o # "failed" => active'[d] = r /\ torn'[d] = 0
    <2>1. CASE o = "failed"
      <3>1. version' = [version EXCEPT ![d][r].status = "failed"] /\ UNCHANGED <<active, torn>>
        BY <1>1, <2>1 DEF Complete
      <3>2. version \in [Docs -> [Revisions -> Version \cup {NoVersion}]]
            /\ active \in [Docs -> 0..MaxRevision] /\ torn \in [Docs -> 0..MaxDeletions]
        BY DEF JobsInv, TypeOK
      <3>3. version' = [version EXCEPT ![d] = [version[d] EXCEPT ![r] = v]]
        BY <1>3, <1>6, <2>1, <3>1, <3>2
      <3>4. /\ version'[d] = [version[d] EXCEPT ![r] = v]
            /\ version' \in [Docs -> [Revisions -> Version \cup {NoVersion}]]
            /\ \A e \in Docs \ {d} : version'[e] = version[e]
        BY <1>3, <1>7, <3>3, VersionUpdate DEF JobsInv
      <3> QED BY <2>1, <3>1, <3>2, <3>4
    <2>2. CASE o # "failed"
      <3>1. /\ version' = [version EXCEPT ![d][r].status = o, ![d][r].text = TRUE]
            /\ active' = [active EXCEPT ![d] = r] /\ torn' = [torn EXCEPT ![d] = 0]
        BY <1>1, <2>2 DEF Complete
      <3>2. r \in 0..MaxRevision /\ 0 \in 0..MaxDeletions
        BY <1>3, Bounds DEF Revisions
      <3>3. version \in [Docs -> [Revisions -> Version \cup {NoVersion}]]
            /\ active \in [Docs -> 0..MaxRevision] /\ torn \in [Docs -> 0..MaxDeletions]
        BY DEF JobsInv, TypeOK
      <3>4. version' = [version EXCEPT ![d] = [version[d] EXCEPT ![r] = v]]
        BY <1>3, <1>6, <2>2, <3>1, <3>3
      <3>5. /\ active' \in [Docs -> 0..MaxRevision] /\ torn' \in [Docs -> 0..MaxDeletions]
            /\ active'[d] = r /\ torn'[d] = 0
            /\ \A e \in Docs \ {d} : active'[e] = active[e] /\ torn'[e] = torn[e]
        BY <1>3, <3>1, <3>2, <3>3
      <3>6. /\ version'[d] = [version[d] EXCEPT ![r] = v]
            /\ version' \in [Docs -> [Revisions -> Version \cup {NoVersion}]]
            /\ \A e \in Docs \ {d} : version'[e] = version[e]
        BY <1>3, <1>7, <3>4, VersionUpdate DEF JobsInv
      <3> QED BY <2>2, <3>5, <3>6
    <2> QED BY <2>1, <2>2
  <1>9. version'[d][r] = v /\ \A q \in Revisions \ {r} : version'[d][q] = version[d][q]
    BY <1>3, <1>8 DEF JobsInv, TypeOK
  <1>10. RegistryOK' /\ StoresOK'
    <2>1. ASSUME NEW q \in Revisions PROVE version'[d][q] # NoVersion <=> q <= newest'[d]
      <3>1. CASE q = r
        <4>1. v # NoVersion
          BY <1>4, <1>7 DEF NoVersion
        <4> QED BY <1>2, <1>3, <1>9, <3>1, <4>1
      <3>2. CASE q # r
        BY <1>2, <1>3, <1>9, <3>2 DEF JobsInv, TypeOK
      <3> QED BY <3>1, <3>2
    <2>2. RegistryOK /\ StoresOK
      BY TypeParts DEF JobsInv
    <2>3. \A e \in Docs, q \in Revisions : version'[e][q] # NoVersion <=> q <= newest'[e]
      BY <1>2, <1>8, <2>1, <2>2 DEF RegistryOK
    <2>4. RegistryOK'
      BY <1>2, <1>8, <2>2, <2>3 DEF RegistryOK
    <2> QED BY <1>2, <1>8, <2>2, <2>4 DEF StoresOK
  <1>11. /\ ControlOK' /\ WorkInv(w)' /\ work'[w] = NoWork /\ work'[w].doc = None
         /\ \A q \in Procs \ {w} : pc'[q] = pc[q] /\ work'[q] = work[q]
    BY <1>2, LeaveControl DEF JobsInv
  <1>12. /\ \A q \in Procs \ {w} : WorkInv(q)'
         /\ \A e \in Docs \ {d} : DocInv(e)'
    BY <1>1, <1>2, <1>3, <1>5, <1>8, <1>11, StepElsewhere
  <1>13. Pending(d)' = Pending(d) \ {r}
    BY <1>4, <1>7, <1>9 DEF Pending
  <1>14. ~Deleted(d)'
    <2>1. ~Deleted(d)
      BY <1>3, <1>5 DEF DocInv, Erased
    <2> QED BY <1>4, <1>7, <1>9, <2>1 DEF Deleted
  <1>15. Queue(d)'
    <2>1. active'[d] <= newest'[d] /\ active'[d] \in Nat /\ active'[d] <= r
      BY <1>2, <1>3, <1>5, <1>8 DEF DocInv, Queue
    <2>2. ASSUME NEW q \in Pending(d), q # r
          PROVE  active'[d] <= q /\ version'[d][q].attempts < MaxAttempts
      <3>1. q \in Revisions /\ q \in Nat /\ r <= q
        BY <1>3 DEF Pending, Revisions
      <3>2. version[d][q].attempts < MaxAttempts
        BY <1>1, <1>5, <2>2 DEF DocInv, Queue, Procs
      <3> QED BY <1>3, <1>9, <2>1, <2>2, <3>1, <3>2
    <2> QED BY <1>13, <2>1, <2>2 DEF Queue
  <1>16. Settled(d)'
    <2>1. newest[d] \in Revisions /\ newest[d] \in Nat
      BY <1>3, <1>5, Bounds DEF Revisions
    <2>2. CASE r # newest[d]
      <3>1. version[d][newest[d]].status \notin {"indexed", "partial"}
        BY <1>3, <1>5, <2>1 DEF DocInv, Settled
      <3> QED BY <1>2, <1>9, <2>1, <2>2, <3>1 DEF Settled
    <2>3. CASE r = newest[d] /\ o = "failed"
      BY <1>2, <1>7, <1>9, <2>3 DEF Settled
    <2>4. CASE r = newest[d] /\ o # "failed"
      <3>1. Pending(d)' = {}
        <4>1. ASSUME NEW q \in Pending(d) PROVE q = r
          <5>1. q \in Nat /\ q <= r
            BY <1>3, <2>4, PendingExist DEF JobsInv, Revisions
          <5>2. r <= q /\ r \in Nat
            BY <1>3
          <5> QED BY <5>1, <5>2
        <4> QED BY <1>13, <4>1
      <3>2. active'[d] = r /\ index'[d] = Only(r)
        BY <1>2, <1>4, <1>8, <2>4
      <3>3. v.status = "indexed" => graph'[d] = IF v.source \in Extracted THEN r ELSE 0
        BY <1>2, <1>4, <1>7
      <3>4. newest'[d] = r /\ version'[d][r] = v
        BY <1>2, <1>9, <2>4
      <3> QED BY <3>1, <3>2, <3>3, <3>4 DEF Settled, Only
    <2> QED BY <2>2, <2>3, <2>4
  <1>17. Whole(d)'
    <2>1. ~InDeletion(d)
      BY <1>2, <1>5 DEF InDeletion, Procs
    <2>2. CASE o = "failed"
      BY <1>2, <1>5, <1>8, <2>1, <2>2 DEF DocInv, Whole
    <2>3. CASE o # "failed"
      <3>1. index'[d][r] = "whole"
        BY <1>2, <1>3, <1>4, <2>3 DEF Only
      <3> QED BY <1>3, <1>8, <2>3, <3>1 DEF Whole
    <2> QED BY <2>2, <2>3
  <1>18. Readable(d)'
    <2>1. CASE o = "failed"
      <3>1. active[d] > 0 => active[d] \in Revisions
        BY <1>3, Bounds DEF JobsInv, TypeOK, Revisions
      <3> QED BY <1>5, <1>7, <1>8, <1>9, <2>1, <3>1 DEF DocInv, Readable
    <2>2. CASE o # "failed"
      BY <1>4, <1>7, <1>8, <1>9, <2>2 DEF Readable
    <2> QED BY <2>1, <2>2
  <1>19. Erased(d)'
    BY <1>14 DEF Erased
  <1> QED BY <1>10, <1>11, <1>12, <1>15, <1>16, <1>17, <1>18, <1>19, TypeParts
          DEF JobsInv, DocInv

\* A worker that dies leaves its job to others, and its writes half done.
LEMMA CrashKeeps ==
    ASSUME JobsInv, NEW w \in Workers, Crash(w)
    PROVE  JobsInv'
  <1>1. PICK d, r : d = work[w].doc /\ r = work[w].rev
    OBVIOUS
  <1>2. /\ w \in Procs /\ pc[w] # "idle" /\ Leave(w) /\ UNCHANGED <<registry, torn>>
        /\ version[d][r].attempts < MaxAttempts
    BY <1>1 DEF Crash, MayTryAgain, At, Procs
  <1>3. /\ d \in Docs /\ index[d] \in [Revisions -> Levels] /\ graph[d] \in 0..MaxRevision
        /\ r \in Revisions /\ r >= active[d]
    BY <1>1, <1>2, WorkerAt
  <1>4. /\ ControlOK' /\ WorkInv(w)' /\ work'[w].doc = None
        /\ \A q \in Procs \ {w} : pc'[q] = pc[q] /\ work'[q] = work[q]
    BY <1>2, LeaveControl DEF JobsInv
  <1>5. PICK x \in [Revisions -> Levels] :
            /\ Write(w, x, graph[d])
            /\ \A n \in Revisions : n >= active[d] /\ index[d][n] = "whole" =>
                    \E q \in Revisions : q >= active[d] /\ x[q] = "whole"
    <2>1. CASE pc[w] = "upsert"
      <3>1. PICK x \in HalfUpserted(d, r) : Write(w, x, graph[d])
        BY <1>1, <2>1 DEF Crash, At
      <3>2. d \in Docs /\ index[d] \in [Revisions -> Levels] /\ r \in Revisions
        BY <1>3
      <3>3. \A y \in HalfUpserted(d, r) :
                /\ y \in [Revisions -> Levels]
                /\ \A q \in Revisions : index[d][q] = "whole" => y[q] = "whole"
        BY <3>2, HalfWritten
      <3> QED BY <3>1, <3>3
    <2>2. CASE pc[w] = "retire"
      <3>1. PICK x \in HalfRemoved(d, {r}) : Write(w, x, graph[d])
        BY <1>1, <2>2 DEF Crash, At
      <3>2. x \in [Revisions -> Levels] /\ x[r] = index[d][r]
        BY <1>3, HalfWritten
      <3>3. index[d][r] = "whole"
        BY <1>1, <1>2, <2>2 DEF JobsInv, WorkInv
      <3> QED BY <1>3, <3>1, <3>2, <3>3
    <2>3. CASE pc[w] \notin {"upsert", "retire"}
      <3>1. Write(w, index[d], graph[d])
        BY <1>1, <2>3 DEF Crash, At
      <3> QED BY <1>3, <3>1
    <2> QED BY <2>1, <2>2, <2>3
  <1>6. /\ RegistryOK' /\ StoresOK'
        /\ \A q \in Procs \ {w} : WorkInv(q)'
        /\ \A e \in Docs : DocInv(e)'
    BY <1>1, <1>2, <1>3, <1>4, <1>5, WorkerWrites
  <1> QED BY <1>4, <1>6, TypeParts DEF JobsInv

\* A deletion's step leaves x in the index and g in the graph, and adds nothing.
DeletionOf(a, d, x, g) ==
    /\ pc[a] # "idle" /\ work[a].doc = d
    /\ x \in [Revisions -> Levels] /\ g \in 0..MaxRevision /\ Write(a, x, g)
    /\ index[d] = Only(0) => x = Only(0)
    /\ graph[d] = 0 => g = 0

\* What a deletion does to the stores disturbs no promise either: it is in
\* progress, or it has failed and is counted.
LEMMA DeletionWrites ==
    ASSUME JobsInv, NEW a \in Admins, NEW d \in Docs, NEW x, NEW g, DeletionOf(a, d, x, g),
           UNCHANGED registry, torn' \in [Docs -> 0..MaxDeletions],
           \A e \in Docs \ {d} : torn'[e] = torn[e],
           \A q \in Procs \ {a} : pc'[q] = pc[q] /\ work'[q] = work[q],
           \/ work'[a].doc = d
           \/ work'[a].doc = None /\ torn'[d] > 0
    PROVE  /\ RegistryOK' /\ StoresOK'
           /\ \A q \in Procs \ {a} : WorkInv(q)'
           /\ \A e \in Docs : DocInv(e)'
           /\ index'[d] = x /\ graph'[d] = g
  <1>1. a \in Procs /\ a \notin Workers
    BY ProcessesAssumption DEF Procs
  <1>2. /\ UNCHANGED <<version, newest, active, clock>>
        /\ index'[d] = x /\ graph'[d] = g
        /\ index' \in [Docs -> [Revisions -> Levels]] /\ graph' \in [Docs -> 0..MaxRevision]
        /\ \A e \in Docs \ {d} : index'[e] = index[e] /\ graph'[e] = graph[e]
    BY <1>1, WriteEffect DEF JobsInv, registry, DeletionOf
  <1>3. RegistryOK' /\ StoresOK'
    BY <1>2, TypeParts DEF JobsInv, RegistryOK, StoresOK
  <1>4. \A q \in Procs \ {a} : work[q].doc # d
    BY <1>1, Alone DEF DeletionOf
  <1>5. /\ \A q \in Procs \ {a} : WorkInv(q)'
        /\ \A e \in Docs \ {d} : DocInv(e)'
    BY <1>1, <1>2, <1>4, StepElsewhere DEF DeletionOf
  <1>6. DocInv(d)
    BY DEF JobsInv
  <1>7. Pending(d)' = Pending(d) /\ Deleted(d)' = Deleted(d)
    BY <1>2 DEF Pending, Deleted
  <1>8. Queue(d)'
    <2>1. \A w \in Workers : work[w].doc # d
      BY <1>1, <1>4 DEF Procs
    <2> QED BY <1>2, <1>6, <1>7, <2>1 DEF DocInv, Queue
  <1>9. ~(torn'[d] = 0 /\ ~InDeletion(d)')
    BY DEF InDeletion
  <1>10. Settled(d)'
    BY <1>2, <1>6, <1>7, <1>9 DEF DocInv, Settled
  <1>11. Whole(d)'
    BY <1>9 DEF Whole
  <1>12. Readable(d)'
    BY <1>2, <1>6 DEF DocInv, Readable
  <1>13. Erased(d)'
    BY <1>2, <1>6, <1>7 DEF DocInv, Erased, Only, DeletionOf
  <1> QED BY <1>2, <1>3, <1>5, <1>8, <1>10, <1>11, <1>12, <1>13 DEF DocInv

\* A deletion starts when nobody works on the document.
LEMMA BeginDeleteKeeps ==
    ASSUME JobsInv, NEW a \in Admins, NEW d \in Docs, BeginDelete(a, d)
    PROVE  JobsInv'
  <1>1. /\ a \in Procs /\ a \notin Workers /\ pc[a] = "idle" /\ work[a] = NoWork
        /\ newest[d] > 0 /\ \A q \in Procs : work[q].doc # d
        /\ pc' = [pc EXCEPT ![a] = "delete graph"]
        /\ work' = [work EXCEPT ![a] = [NoWork EXCEPT !.doc = d]]
        /\ UNCHANGED <<version, newest, active, clock, index, graph, torn>>
    BY ProcessesAssumption DEF BeginDelete, At, Goto, Procs, JobsInv, TypeOK, Locked, registry
  <1>2. /\ work'[a] \in Work /\ work'[a].doc = d /\ pc'[a] = "delete graph"
        /\ \A q \in Procs \ {a} : pc'[q] = pc[q] /\ work'[q] = work[q]
    BY <1>1 DEF NoWork, Work, JobsInv, TypeOK
  <1>3. ControlOK'
    <2>1. work' \in [Procs -> Work \cup {NoWork}] /\ pc' \in [Procs -> WorkerSteps \cup AdminSteps]
      BY <1>1, <1>2 DEF JobsInv, TypeOK, AdminSteps
    <2>2. \A q \in Procs : pc'[q] = "idle" <=> work'[q] = NoWork
      <3>1. NoWork.doc = None
        BY DEF NoWork
      <3>2. work'[a] # NoWork
        BY <1>2, <3>1, NoneAssumption
      <3> QED BY <1>2, <3>2 DEF JobsInv, TypeOK
    <2>3. (\A w \in Workers : pc'[w] \in WorkerSteps) /\ (\A b \in Admins : pc'[b] \in AdminSteps)
      BY <1>1, <1>2 DEF JobsInv, TypeOK, AdminSteps, Procs
    <2>4. ASSUME NEW p \in Procs, NEW q \in Procs, work'[p].doc = work'[q].doc, p # q
          PROVE  work'[p] = NoWork
      <3>1. \A o \in Procs : work[o].doc # d
        BY <1>1
      <3>2. p # a /\ q # a
        BY <1>2, <2>4, <3>1
      <3>3. work'[p] = work[p] /\ work'[q] = work[q]
        BY <1>2, <3>2
      <3> QED BY <2>4, <3>3 DEF JobsInv, TypeOK
    <2> QED BY <2>1, <2>2, <2>3, <2>4 DEF ControlOK
  <1>4. RegistryOK' /\ StoresOK'
    BY <1>1, TypeParts DEF JobsInv, RegistryOK, StoresOK
  <1>5. /\ \A q \in Procs \ {a} : WorkInv(q)'
        /\ \A e \in Docs \ {d} : DocInv(e)'
    <2>1. work[a].doc = None
      <3>1. NoWork.doc = None
        BY DEF NoWork
      <3> QED BY <1>1, <3>1
    <2>2. \A e \in Docs :
              UNCHANGED <<version[e], newest[e], active[e], index[e], graph[e], torn[e]>>
      BY <1>1
    <2>3. \A q \in Procs \ {a} : work[q].doc # d /\ pc'[q] = pc[q] /\ work'[q] = work[q]
      BY <1>1, <1>2
    <2>4. a \in Procs /\ work'[a].doc = d
      BY <1>1, <1>2
    <2> QED BY <2>1, <2>2, <2>3, <2>4, StepElsewhere
  <1>6. WorkInv(a)'
    BY <1>1, <1>2 DEF WorkInv
  <1>7. DocInv(d)'
    <2>1. Pending(d)' = Pending(d) /\ Deleted(d)' = Deleted(d)
      BY <1>1 DEF Pending, Deleted
    <2>2. Queue(d)'
      <3>1. DocInv(d) /\ \A w \in Workers : work[w].doc # d
        BY <1>1 DEF JobsInv, Procs
      <3> QED BY <1>1, <2>1, <3>1 DEF DocInv, Queue
    <2>3. InDeletion(d)'
      BY <1>2 DEF InDeletion
    <2>4. Settled(d)' /\ Whole(d)'
      BY <1>1, <2>1, <2>3 DEF JobsInv, DocInv, Settled, Whole
    <2>5. Readable(d)' /\ Erased(d)'
      BY <1>1, <2>1 DEF JobsInv, DocInv, Readable, Erased, Only
    <2> QED BY <2>2, <2>4, <2>5 DEF DocInv
  <1> QED BY <1>3, <1>4, <1>5, <1>6, <1>7, TypeParts DEF JobsInv

\* Where a deletion stands.
LEMMA AdminAt ==
    ASSUME JobsInv, NEW a \in Admins, pc[a] # "idle"
    PROVE  LET d == work[a].doc IN
           /\ a \in Procs /\ a \notin Workers /\ d \in Docs /\ newest[d] > 0
           /\ work = [work EXCEPT ![a].outcome = work[a].outcome]
           /\ work[a].outcome \in {"indexed", "partial", "failed", "none"}
           /\ index[d] \in [Revisions -> Levels] /\ graph[d] \in 0..MaxRevision
           /\ 0 \in 0..MaxRevision
           /\ \A q \in Procs \ {a} : work[q].doc # d
           /\ pc[a] \in {"delete points", "commit"} => graph[d] = 0
           /\ pc[a] = "commit" => index[d] = Only(0)
  <1>1. a \in Procs /\ a \notin Workers /\ WorkInv(a)
    BY ProcessesAssumption DEF JobsInv, Procs
  <1>2. work[a] \in Work /\ work[a].doc \in Docs /\ \A q \in Procs \ {a} : work[q].doc # work[a].doc
    BY <1>1, Alone
  <1>3. work = [work EXCEPT ![a].outcome = work[a].outcome]
    BY <1>1, <1>2 DEF JobsInv, TypeOK, Work
  <1>4. work[a].outcome \in {"indexed", "partial", "failed", "none"}
    BY <1>2 DEF Work
  <1>5. /\ index[work[a].doc] \in [Revisions -> Levels] /\ graph[work[a].doc] \in 0..MaxRevision
        /\ 0 \in 0..MaxRevision
    BY <1>2, Bounds DEF JobsInv, TypeOK
  <1> QED BY <1>1, <1>2, <1>3, <1>4, <1>5 DEF WorkInv

\* A store is done, and the deletion goes on.
LEMMA DeletionGoesOn ==
    ASSUME JobsInv, NEW a \in Admins, NEW d \in Docs, NEW x, NEW g, DeletionOf(a, d, x, g),
           UNCHANGED <<registry, torn, work>>,
           NEW y \in AdminSteps \ {"idle"}, pc' = [pc EXCEPT ![a] = y],
           y \in {"delete points", "commit"} => g = 0, y = "commit" => x = Only(0)
    PROVE  JobsInv'
  <1>1. /\ a \in Procs /\ a \notin Workers /\ newest[d] > 0
        /\ work' = [work EXCEPT ![a].outcome = work[a].outcome]
        /\ work[a].outcome \in {"indexed", "partial", "failed", "none"}
    BY AdminAt DEF DeletionOf
  <1>2. y # "idle" /\ y \in AdminSteps
    OBVIOUS
  <1>3. /\ ControlOK' /\ pc'[a] = y
        /\ \A q \in Procs \ {a} : pc'[q] = pc[q] /\ work'[q] = work[q]
    BY <1>1, <1>2, GotoControl DEF JobsInv, DeletionOf
  <1>4. torn' \in [Docs -> 0..MaxDeletions] /\ work'[a].doc = d
        /\ \A e \in Docs : torn'[e] = torn[e]
    BY DEF JobsInv, TypeOK, DeletionOf
  <1>5. /\ RegistryOK' /\ StoresOK'
        /\ \A q \in Procs \ {a} : WorkInv(q)'
        /\ \A e \in Docs : DocInv(e)'
        /\ index'[d] = x /\ graph'[d] = g
    <2>1. UNCHANGED registry /\ \A e \in Docs \ {d} : torn'[e] = torn[e]
      BY <1>4
    <2>2. \A q \in Procs \ {a} : pc'[q] = pc[q] /\ work'[q] = work[q]
      BY <1>3
    <2>3. \/ work'[a].doc = d
          \/ work'[a].doc = None /\ torn'[d] > 0
      BY <1>4
    <2>4. torn' \in [Docs -> 0..MaxDeletions]
      BY <1>4
    <2>5. /\ UNCHANGED registry /\ torn' \in [Docs -> 0..MaxDeletions]
          /\ \A e \in Docs \ {d} : torn'[e] = torn[e]
          /\ \A q \in Procs \ {a} : pc'[q] = pc[q] /\ work'[q] = work[q]
          /\ \/ work'[a].doc = d
             \/ work'[a].doc = None /\ torn'[d] > 0
      BY <2>1, <2>2, <2>3, <2>4
    <2>6. JobsInv /\ DeletionOf(a, d, x, g)
      OBVIOUS
    <2> QED BY ONLY <2>5, <2>6, DeletionWrites
  <1>6. WorkInv(a)'
    <2>1. newest'[d] > 0
      BY <1>1 DEF registry
    <2> QED BY <1>1, <1>3, <1>4, <1>5, <2>1 DEF WorkInv
  <1> QED BY <1>3, <1>5, <1>6, TypeParts DEF JobsInv

LEMMA DeleteGraphKeeps ==
    ASSUME JobsInv, NEW a \in Admins, DeleteGraph(a)
    PROVE  JobsInv'
  <1>1. PICK d : d = work[a].doc
    OBVIOUS
  <1>2. /\ pc[a] = "delete graph" /\ pc[a] # "idle" /\ UNCHANGED <<registry, torn, work>>
        /\ pc' = [pc EXCEPT ![a] = "delete points"] /\ Write(a, index[d], 0)
        /\ "delete points" \in AdminSteps \ {"idle"}
    BY <1>1 DEF DeleteGraph, At, Goto, AdminSteps
  <1>3. /\ d \in Docs /\ index[d] \in [Revisions -> Levels] /\ 0 \in 0..MaxRevision
    BY <1>1, <1>2, AdminAt
  <1>4. DeletionOf(a, d, index[d], 0)
    BY <1>1, <1>2, <1>3 DEF DeletionOf
  <1> QED BY <1>2, <1>3, <1>4, DeletionGoesOn

LEMMA DeletePointsKeeps ==
    ASSUME JobsInv, NEW a \in Admins, DeletePoints(a)
    PROVE  JobsInv'
  <1>1. PICK d : d = work[a].doc
    OBVIOUS
  <1>2. /\ pc[a] = "delete points" /\ pc[a] # "idle" /\ UNCHANGED <<registry, torn, work>>
        /\ pc' = [pc EXCEPT ![a] = "commit"] /\ Write(a, Only(0), graph[d])
        /\ "commit" \in AdminSteps \ {"idle"}
    BY <1>1 DEF DeletePoints, At, Goto, AdminSteps
  <1>3. /\ d \in Docs /\ graph[d] = 0 /\ graph[d] \in 0..MaxRevision
    BY <1>1, <1>2, AdminAt
  <1>4. Only(0) \in [Revisions -> Levels]
    BY DEF Only, Levels
  <1>5. DeletionOf(a, d, Only(0), graph[d])
    BY <1>1, <1>2, <1>3, <1>4 DEF DeletionOf
  <1> QED BY <1>2, <1>3, <1>5, DeletionGoesOn

\* The registry goes last, and all revisions of the document with it.
LEMMA DeleteCommitKeeps ==
    ASSUME JobsInv, NEW a \in Admins, DeleteCommit(a)
    PROVE  /\ JobsInv'
           /\ \E d \in Docs : /\ active'[d] = 0 /\ Deleted(d)'
                             /\ \A e \in Docs \ {d} : active'[e] = active[e]
  <1>1. PICK d : d = work[a].doc
    OBVIOUS
  <1>2. /\ pc[a] = "commit" /\ pc[a] # "idle" /\ Leave(a)
        /\ UNCHANGED <<newest, clock, index, graph>>
        /\ version' = [version EXCEPT ![d] = [r \in Revisions |->
              IF r > newest[d] THEN @[r] ELSE [@[r] EXCEPT !.status = "deleted", !.text = FALSE]]]
        /\ active' = [active EXCEPT ![d] = 0] /\ torn' = [torn EXCEPT ![d] = 0]
    BY <1>1 DEF DeleteCommit, At
  <1>3. /\ a \in Procs /\ a \notin Workers /\ d \in Docs /\ newest[d] > 0
        /\ \A q \in Procs \ {a} : work[q].doc # d
        /\ graph[d] = 0 /\ index[d] = Only(0)
    BY <1>1, <1>2, AdminAt
  <1>4. newest[d] \in Revisions /\ newest[d] \in Nat /\ newest[d] <= MaxRevision
        /\ newest'[d] = newest[d]
    <2>1. newest[d] \in 0..MaxRevision
      BY <1>3 DEF JobsInv, TypeOK
    <2>2. newest'[d] = newest[d]
      BY <1>2
    <2> QED BY <1>3, <2>1, <2>2, Bounds DEF Revisions
  <1>5. ASSUME NEW r \in Revisions
        PROVE  /\ r > newest[d] => version'[d][r] = version[d][r]
               /\ r <= newest[d] => /\ version'[d][r] \in Version
                                    /\ version'[d][r].status = "deleted"
                                    /\ ~version'[d][r].text
    <2>1. r \in Nat
      BY DEF Revisions
    <2>2. version'[d][r] = IF r > newest[d] THEN version[d][r]
                           ELSE [version[d][r] EXCEPT !.status = "deleted", !.text = FALSE]
      BY <1>2, <1>3 DEF JobsInv, TypeOK
    <2>3. CASE r > newest[d]
      BY <1>4, <2>1, <2>2, <2>3
    <2>4. CASE r <= newest[d]
      <3>1. version[d][r] \in Version
        BY <1>3, <2>4, VersionAt DEF JobsInv
      <3>2. version'[d][r] = [version[d][r] EXCEPT !.status = "deleted", !.text = FALSE]
        BY <1>4, <2>1, <2>2, <2>4
      <3>3. /\ version'[d][r] \in Version /\ version'[d][r].status = "deleted"
            /\ version'[d][r].text = FALSE
        BY <3>1, <3>2 DEF Version
      <3> QED BY <1>4, <2>1, <2>4, <3>3
    <2> QED BY <1>4, <2>1, <2>3, <2>4
  <1>6. RegistryOK' /\ StoresOK'
    <2>1. RegistryOK /\ StoresOK
      BY TypeParts DEF JobsInv
    <2>2. \A r \in Revisions : version'[d][r] \in Version \cup {NoVersion}
                               /\ (version'[d][r] # NoVersion <=> r <= newest[d])
      <3>1. SUFFICES ASSUME NEW r \in Revisions
                     PROVE  version'[d][r] \in Version \cup {NoVersion}
                            /\ (version'[d][r] # NoVersion <=> r <= newest[d])
        OBVIOUS
      <3>2. CASE r <= newest[d]
        BY <1>5, <3>2 DEF NoVersion
      <3>3. CASE ~(r <= newest[d])
        <4>1. r > newest[d] /\ version[d][r] = NoVersion
          BY <1>3, <1>4, <2>1, <3>3 DEF RegistryOK, Revisions
        <4> QED BY <1>5, <3>3, <4>1
      <3> QED BY <3>2, <3>3
    <2>3. version'[d] \in [Revisions -> Version \cup {NoVersion}]
      <3>1. version'[d] = [r \in Revisions |->
               IF r > newest[d] THEN version[d][r]
               ELSE [version[d][r] EXCEPT !.status = "deleted", !.text = FALSE]]
        BY <1>2, <1>3, <2>1 DEF RegistryOK
      <3> QED BY <2>2, <3>1
    <2>4. /\ version' \in [Docs -> [Revisions -> Version \cup {NoVersion}]]
          /\ \A e \in Docs \ {d} : version'[e] = version[e]
      BY <1>2, <1>3, <2>1, <2>3 DEF RegistryOK
    <2>5. \A e \in Docs, r \in Revisions : version'[e][r] # NoVersion <=> r <= newest'[e]
      BY <1>2, <2>1, <2>2, <2>4 DEF RegistryOK
    <2>6. active' \in [Docs -> 0..MaxRevision] /\ torn' \in [Docs -> 0..MaxDeletions]
      <3>1. 0 \in 0..MaxRevision /\ 0 \in 0..MaxDeletions
        BY Bounds
      <3>2. active' = [active EXCEPT ![d] = 0] /\ torn' = [torn EXCEPT ![d] = 0]
        BY <1>2
      <3> QED BY <2>1, <3>1, <3>2 DEF RegistryOK, StoresOK
    <2> QED BY <1>2, <2>1, <2>4, <2>5, <2>6 DEF RegistryOK, StoresOK
  <1>7. /\ \A e \in Docs \ {d} :
              UNCHANGED <<version[e], newest[e], active[e], index[e], graph[e], torn[e]>>
        /\ active'[d] = 0
    BY <1>2, <1>3 DEF JobsInv, TypeOK
  <1>8. /\ ControlOK' /\ WorkInv(a)' /\ work'[a].doc = None
        /\ \A q \in Procs \ {a} : pc'[q] = pc[q] /\ work'[q] = work[q]
    BY <1>2, <1>3, LeaveControl DEF JobsInv
  <1>9. /\ \A q \in Procs \ {a} : WorkInv(q)'
        /\ \A e \in Docs \ {d} : DocInv(e)'
    BY <1>1, <1>3, <1>7, <1>8, StepElsewhere
  <1>10. Deleted(d)'
    BY <1>4, <1>5 DEF Deleted
  <1>11. DocInv(d)'
    <2>1. Pending(d)' = {}
      <3>1. ASSUME NEW r \in Revisions PROVE version'[d][r].status \notin {"queued", "processing"}
        <4>1. CASE r <= newest[d]
          BY <1>5, <4>1
        <4>2. CASE ~(r <= newest[d])
          <5>1. r > newest[d]
            BY <1>4, <4>2 DEF Revisions
          <5>2. version[d][r] = NoVersion
            BY <1>3, <5>1, VersionAt DEF JobsInv
          <5> QED BY <1>5, <5>1, <5>2 DEF NoVersion
        <4> QED BY <4>1, <4>2
      <3> QED BY <3>1 DEF Pending
    <2>2. Queue(d)'
      BY <1>4, <1>7, <2>1 DEF Queue
    <2>3. Settled(d)'
      <3>1. version'[d][newest'[d]].status = "deleted"
        BY <1>4, <1>5
      <3> QED BY <3>1 DEF Settled
    <2>4. Whole(d)' /\ Readable(d)'
      BY <1>7 DEF Whole, Readable
    <2>5. Erased(d)'
      <3>1. ASSUME NEW r \in 1..newest'[d]
            PROVE  version'[d][r].status = "deleted" /\ ~version'[d][r].text
        <4>1. r \in Revisions /\ r <= newest[d]
          BY <1>4, Bounds DEF Revisions
        <4> QED BY <1>5, <4>1
      <3> QED BY <1>2, <1>3, <1>7, <3>1 DEF Erased, Only
    <2> QED BY <2>2, <2>3, <2>4, <2>5 DEF DocInv
  <1>12. JobsInv'
    BY <1>6, <1>8, <1>9, <1>11, TypeParts DEF JobsInv
  <1> QED BY <1>3, <1>7, <1>10, <1>12

\* A deletion that fails is counted until the document is published again.
LEMMA DeleteFailsKeeps ==
    ASSUME JobsInv, NEW a \in Admins, DeleteFails(a)
    PROVE  JobsInv'
  <1>1. PICK d : d = work[a].doc
    OBVIOUS
  <1>2. /\ pc[a] # "idle" /\ Leave(a) /\ UNCHANGED registry
        /\ torn[d] < MaxDeletions /\ torn' = [torn EXCEPT ![d] = @ + 1]
    BY <1>1 DEF DeleteFails, At
  <1>3. /\ a \in Procs /\ d \in Docs
        /\ index[d] \in [Revisions -> Levels] /\ graph[d] \in 0..MaxRevision /\ 0 \in 0..MaxRevision
        /\ pc[a] \in {"delete points", "commit"} => graph[d] = 0
    BY <1>1, <1>2, AdminAt
  <1>4. /\ torn' \in [Docs -> 0..MaxDeletions] /\ torn'[d] > 0
        /\ \A e \in Docs \ {d} : torn'[e] = torn[e]
    <2>1. torn \in [Docs -> 0..MaxDeletions]
      BY DEF JobsInv, TypeOK
    <2>2. torn[d] + 1 \in 0..MaxDeletions /\ torn[d] + 1 > 0
      <3>1. torn[d] \in 0..MaxDeletions /\ torn[d] < MaxDeletions
        BY <1>2, <1>3, <2>1
      <3> QED BY <3>1, Bounds
    <2>3. torn' = [torn EXCEPT ![d] = torn[d] + 1]
      BY <1>2
    <2> QED BY <1>3, <2>1, <2>2, <2>3
  <1>5. /\ ControlOK' /\ WorkInv(a)' /\ work'[a].doc = None
        /\ \A q \in Procs \ {a} : pc'[q] = pc[q] /\ work'[q] = work[q]
    BY <1>2, <1>3, LeaveControl DEF JobsInv
  <1>6. PICK x \in [Revisions -> Levels], g \in 0..MaxRevision :
            /\ Write(a, x, g)
            /\ index[d] = Only(0) => x = Only(0)
            /\ graph[d] = 0 => g = 0
    <2>1. CASE pc[a] = "delete graph"
      BY <1>1, <1>3, <2>1 DEF DeleteFails, At
    <2>2. CASE pc[a] = "delete points"
      <3>1. PICK x \in HalfRemoved(d, {}) : Write(a, x, graph[d])
        BY <1>1, <2>2 DEF DeleteFails, At
      <3>2. PICK r \in Revisions : TRUE
        BY Bounds DEF Revisions
      <3>3. \A y \in HalfRemoved(d, {}) :
                y \in [Revisions -> Levels] /\ (index[d] = Only(0) => y = Only(0))
        BY <1>3, <3>2, HalfWritten
      <3> QED BY <1>3, <3>1, <3>3
    <2>3. CASE pc[a] \notin {"delete graph", "delete points"}
      <3>1. UNCHANGED <<index, graph>>
        BY <2>3 DEF DeleteFails, At
      <3>2. Write(a, index[d], graph[d])
        BY <1>1, <1>3, <3>1 DEF Write, JobsInv, TypeOK
      <3> QED BY <1>3, <3>2
    <2> QED BY <2>1, <2>2, <2>3
  <1>7. /\ RegistryOK' /\ StoresOK'
        /\ \A q \in Procs \ {a} : WorkInv(q)'
        /\ \A e \in Docs : DocInv(e)'
    <2>1. DeletionOf(a, d, x, g)
      BY <1>1, <1>2, <1>6 DEF DeletionOf
    <2> QED BY <1>2, <1>3, <1>4, <1>5, <2>1, DeletionWrites
  <1> QED BY <1>5, <1>7, TypeParts DEF JobsInv

LEMMA NextKeeps == JobsInv /\ [Next]_vars => JobsInv'
  <1> SUFFICES ASSUME JobsInv, [Next]_vars PROVE JobsInv' OBVIOUS
  <1>1. ASSUME NEW d \in Docs, NEW s \in Sources, Submit(d, s) PROVE JobsInv'
    BY <1>1, SubmitKeeps
  <1>2. ASSUME NEW d \in Docs, NEW r \in Revisions, Retry(d, r) PROVE JobsInv'
    BY <1>2, RetryKeeps
  <1>3. ASSUME NEW w \in Workers, WorkerStep(w) \/ Crash(w) PROVE JobsInv'
    BY <1>3, ClaimKeeps, PrepareKeeps, ClearGraphKeeps, UpsertKeeps, RetireKeeps,
       ExtractKeeps, CompleteKeeps, CrashKeeps DEF WorkerStep
  <1>4. ASSUME NEW a \in Admins, NEW d \in Docs, BeginDelete(a, d) PROVE JobsInv'
    BY <1>4, BeginDeleteKeeps
  <1>5. ASSUME NEW a \in Admins, DeleteStep(a) \/ DeleteFails(a) PROVE JobsInv'
    BY <1>5, DeleteGraphKeeps, DeletePointsKeeps, DeleteCommitKeeps, DeleteFailsKeeps
       DEF DeleteStep
  <1>6. CASE UNCHANGED vars
    <2>1. TypeOK'
      BY <1>6 DEF vars, JobsInv, TypeOK
    <2>2. ASSUME NEW p \in Procs PROVE WorkInv(p)'
      <3>1. UNCHANGED <<version, newest, index, graph, pc, work>>
        BY <1>6 DEF vars
      <3> QED BY <3>1, WorkElsewhere DEF JobsInv
    <2>3. ASSUME NEW d \in Docs PROVE DocInv(d)'
      <3>1. UNCHANGED <<version[d], newest[d], active[d], index[d], graph[d], torn[d], work>>
        BY <1>6 DEF vars
      <3> QED BY <3>1, DocElsewhere DEF JobsInv
    <2> QED BY <2>1, <2>2, <2>3 DEF JobsInv
  <1> QED BY <1>1, <1>2, <1>3, <1>4, <1>5, <1>6 DEF Next

----------------------------------------------------------------------------
(* Theorems.                                                               *)

\* The inductive invariant of the queue (jobs.py, ingestion.py).
THEOREM JobsInvariant == Spec => []JobsInv
BY Initially, NextKeeps, PTL DEF Spec

\* The tables stay well formed, revisions have no gaps, and whoever works on a
\* document holds its row lock alone (process_next, submit, delete).
THEOREM TypesAreKept == Spec => []TypeOK
  <1>1. JobsInv => TypeOK
    BY DEF JobsInv
  <1> QED BY <1>1, JobsInvariant, PTL

\* Of every document the newest settled revision is served, or else a whole
\* published one, until it is deleted, and after that nothing of it is left
\* (process_next, replace_document, delete).
THEOREM StaysServed == Spec => []ServedUntilDeleted
  <1>1. ASSUME JobsInv, NEW d \in Docs, newest[d] > 0, ~Locked(d), torn[d] = 0
        PROVE  LET n == newest[d]
                   v == version[d][n]
               IN  v.status \in {"indexed", "partial"} =>
                   /\ active[d] = n
                   /\ index[d] = Only(n)
                   /\ v.status = "indexed" => graph[d] = IF v.source \in Extracted THEN n ELSE 0
    <2>1. ~InDeletion(d)
      BY <1>1 DEF InDeletion, Locked, Procs
    <2> QED BY <1>1, <2>1 DEF JobsInv, DocInv, Settled
  <1>2. JobsInv => SettledIsServed
    BY <1>1 DEF SettledIsServed
  <1>3. JobsInv => SomethingIsWhole
    BY DEF JobsInv, DocInv, Whole, InDeletion, SomethingIsWhole
  <1>4. JobsInv => PublishedIsReadable
    BY DEF JobsInv, DocInv, Readable, PublishedIsReadable
  <1>5. JobsInv => DeletedForGood
    BY DEF JobsInv, DocInv, Erased, DeletedForGood
  <1>6. JobsInv => ServedUntilDeleted
    BY <1>2, <1>3, <1>4, <1>5 DEF ServedUntilDeleted, DocumentsStayServed
  <1> QED BY <1>6, JobsInvariant, PTL

\* Publication only moves to a newer revision until the document is deleted,
\* whatever is retried and recovered in whatever order (retry, process_next).
THEOREM OnlyNewerIsPublished == Spec => PublicationAdvances
  <1>1. ASSUME JobsInv, [Next]_vars, NEW d \in Docs
        PROVE  active'[d] >= active[d] \/ (active'[d] = 0 /\ Deleted(d)')
    <2>1. active[d] \in Nat
      BY <1>1, Bounds DEF JobsInv, TypeOK
    <2>2. CASE active' = active
      BY <2>1, <2>2
    <2>3. ASSUME NEW w \in Workers, Complete(w)
          PROVE  active'[d] >= active[d]
      <3>1. PICK e, r : e = work[w].doc /\ r = work[w].rev
        OBVIOUS
      <3>2. r >= active[e] /\ r \in Nat /\ e \in Docs
        BY <1>1, <2>3, <3>1, WorkerAt DEF Complete, At
      <3>3. active' = active \/ active' = [active EXCEPT ![e] = r]
        BY <2>3, <3>1 DEF Complete
      <3>4. active \in [Docs -> 0..MaxRevision]
        BY <1>1 DEF JobsInv, TypeOK
      <3>5. active'[d] = active[d] \/ (d = e /\ active'[d] = r)
        BY <1>1, <3>3, <3>4
      <3> QED BY <2>1, <3>2, <3>5
    <2>4. ASSUME NEW a \in Admins, DeleteCommit(a)
          PROVE  active'[d] >= active[d] \/ (active'[d] = 0 /\ Deleted(d)')
      <3>1. PICK e \in Docs : /\ active'[e] = 0 /\ Deleted(e)'
                              /\ \A c \in Docs \ {e} : active'[c] = active[c]
        BY <1>1, <2>4, DeleteCommitKeeps
      <3>2. CASE d = e
        BY <3>1, <3>2
      <3>3. CASE d # e
        BY <2>1, <3>1, <3>3
      <3> QED BY <3>2, <3>3
    <2>5. CASE \E e \in Docs : \E s \in Sources : Submit(e, s)
      BY <2>2, <2>5 DEF Submit
    <2>6. CASE \E e \in Docs, r \in Revisions : Retry(e, r)
      BY <2>2, <2>6 DEF Retry
    <2>7. ASSUME NEW w \in Workers, WorkerStep(w) \/ Crash(w)
          PROVE  active' = active \/ Complete(w)
      BY <2>7 DEF WorkerStep, Crash, Claim, Prepare, ClearGraph, Upsert, Retire, Extract, registry
    <2>8. CASE \E a \in Admins, e \in Docs : BeginDelete(a, e)
      BY <2>2, <2>8 DEF BeginDelete, registry
    <2>9. ASSUME NEW a \in Admins, DeleteStep(a) \/ DeleteFails(a)
          PROVE  active' = active \/ DeleteCommit(a)
      BY <2>9 DEF DeleteStep, DeleteGraph, DeletePoints, DeleteFails, registry
    <2>10. CASE UNCHANGED vars
      BY <2>2, <2>10 DEF vars
    <2> QED BY <1>1, <2>2, <2>3, <2>4, <2>5, <2>6, <2>7, <2>8, <2>9, <2>10 DEF Next
  <1>2. JobsInv /\ [Next]_vars =>
            [\A d \in Docs : active'[d] >= active[d] \/ (active'[d] = 0 /\ Deleted(d)')]_vars
    BY <1>1
  <1> QED BY <1>2, JobsInvariant, PTL DEF Spec, PublicationAdvances
=============================================================================
