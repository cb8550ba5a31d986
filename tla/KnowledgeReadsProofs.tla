------------------------- MODULE KnowledgeReadsProofs -------------------------
(***************************************************************************)
(* Published knowledge on its way to a customer, for every set of          *)
(* documents, servers and questions and every bound: the evidence of an    *)
(* answer was all published at one moment of the turn, and nothing from    *)
(* before a change is taken to be of the epoch of now.                     *)
(***************************************************************************)
EXTENDS KnowledgeReads, TLAPS

\* A document that is about to be published is in the index with its new
\* revision alone, and one about to be withdrawn is not in it at all.
JobInv(d) ==
    /\ job[d].step \in {"replace", "retire", "publish", "rotate", "commit"} =>
        job[d].rev \in Revisions
    /\ job[d].step \in {"publish", "rotate", "commit"} => points[d] = {job[d].rev}
    /\ job[d].step \in {"purge", "rotate deleted", "commit deletion"} => points[d] = {}

\* A snapshot taken in the epoch of now is what can be found, once it is
\* filtered.
SnapshotInv(p) ==
    announced /\ mem[p].snapshot = "current" =>
        /\ pc[p] = "filter chunks" => mem[p].chunks \cap Published = Findable
        /\ pc[p] = "rebuild" => mem[p].chunks = Findable

CacheInv ==
    announced => /\ answers # {} => Findable \subseteq answers
                 /\ documents # {} => Findable \subseteq documents

\* Nothing changed since the turn began, or since it looked for documents
\* under an epoch that is still that of now.
Undisturbed(r) == calm[r] \/ (announced /\ mem[r].docs)

Filtered == {"check answer", "check documents", "filter again", "put documents", "put answer"}

RequestInv(r) ==
    /\ pc[r] # "idle" => published \in seen[r]
    /\ calm[r] => announced
    /\ pc[r] # "idle" /\ mem[r].answer /\ announced => calm[r]
    /\ pc[r] \in {"put documents", "put answer"} =>
        \E registry \in seen[r] : Holds(registry, mem[r].got)
    /\ Undisturbed(r) =>
        /\ pc[r] \in Filtered => Findable \subseteq mem[r].got
        /\ pc[r] \in RefreshSteps \cup {"keyword", "filter"} =>
            mem[r].got = {} \/ Findable \subseteq mem[r].got

KnowledgeInv ==
    /\ TypeOK
    /\ \A d \in Docs : JobInv(d)
    /\ \A p \in Procs : SnapshotInv(p)
    /\ CurrentMeansCurrent
    /\ CacheInv
    /\ \A r \in Requests : RequestInv(r)

\* The parts of the type invariant.
Holding == {"list", "filter chunks", "rebuild"}

WritersOK ==
    /\ published \in [Docs -> 0..Gone] /\ points \in [Docs -> SUBSET Revisions]
    /\ job \in [Docs -> [step : JobSteps, rev : 0..MaxRevision]]
    /\ changes \in 0..MaxChanges
    /\ announced \in BOOLEAN

IndexOK == keyword \in [Servers -> SUBSET Evidence] /\ fresh \in [Servers -> BOOLEAN]

LockOK ==
    /\ lock \in [Servers -> Procs \cup {None}]
    /\ \A s \in Servers, p \in Procs : lock[s] = p <=> ServerOf(p) = s /\ pc[p] \in Holding

CacheOK == answers \in SUBSET Evidence /\ documents \in SUBSET Evidence

Steps == {"idle"} \cup RefreshSteps \cup TurnSteps

ProgramOK == pc \in [Procs -> Steps] /\ mem \in [Procs -> Mem]

HistoryOK ==
    /\ calm \in [Requests -> BOOLEAN]
    /\ seen \in [Requests -> SUBSET [Docs -> 0..Gone]]

LEMMA TypeParts ==
    /\ TypeOK <=> WritersOK /\ IndexOK /\ LockOK /\ CacheOK /\ ProgramOK /\ HistoryOK
    /\ TypeOK' <=> WritersOK' /\ IndexOK' /\ LockOK' /\ CacheOK' /\ ProgramOK' /\ HistoryOK'
BY DEF TypeOK, WritersOK, IndexOK, LockOK, CacheOK, ProgramOK, HistoryOK, Holding, Steps

----------------------------------------------------------------------------
(* Lemmas.                                                                 *)

LEMMA Bounds ==
    /\ MaxRevision \in Nat \ {0} /\ MaxChanges \in Nat \ {0} /\ MaxTries \in Nat \ {0}
    /\ Revisions \subseteq 0..MaxRevision /\ 0..MaxRevision \subseteq 0..Gone
    /\ Gone \in 0..Gone /\ Gone \notin Revisions /\ 0 \in 0..MaxRevision
  <1>1. MaxRevision \in Nat \ {0} /\ MaxChanges \in Nat \ {0} /\ MaxTries \in Nat \ {0}
    BY BoundsAssumption
  <1> QED BY <1>1 DEF Revisions, Gone

\* Whoever works with a keyword index has a server, and is no server's lock.
LEMMA Processes ==
    /\ \A p \in Procs : ServerOf(p) \in Servers /\ p # None
    /\ \A r \in Requests : r \in Procs /\ r \notin Servers /\ ServerOf(r) = Home[r]
    /\ \A s \in Refreshers : s \in Procs /\ s \in Servers /\ s \notin Requests
BY HomeAssumption, ServersAssumption, NoneAssumption, ProcessesAssumption DEF Procs, ServerOf

\* What is published and can be found, a piece of evidence at a time.
LEMMA FindableAt ==
    /\ \A e : e \in Published <=> e \in Evidence /\ published[e[1]] = e[2]
    /\ \A e : e \in Published' <=> e \in Evidence /\ published'[e[1]] = e[2]
    /\ \A e : e \in Findable <=> e \in Published /\ e[2] \in points[e[1]]
    /\ \A e : e \in Findable' <=> e \in Published' /\ e[2] \in points'[e[1]]
    /\ Findable \subseteq Published /\ Published \subseteq Evidence
    /\ Findable' \subseteq Published' /\ Published' \subseteq Evidence
  <1>1. \A e : e \in Published <=> e \in Evidence /\ published[e[1]] = e[2]
    BY DEF Published, Holds
  <1>2. \A e : e \in Published' <=> e \in Evidence /\ published'[e[1]] = e[2]
    BY DEF Published, Holds
  <1>3. \A e : e \in Findable <=> e \in Published /\ e[2] \in points[e[1]]
    BY DEF Findable
  <1>4. \A e : e \in Findable' <=> e \in Published' /\ e[2] \in points'[e[1]]
    BY DEF Findable
  <1> QED BY <1>1, <1>2, <1>3, <1>4

LEMMA VectorsFilter == Vectors \subseteq Evidence /\ Vectors \cap Published = Findable
BY FindableAt DEF Vectors

LEMMA SameKnowledge ==
    ASSUME UNCHANGED <<published, points>>
    PROVE  Published' = Published /\ Findable' = Findable
BY DEF Published, Findable, Holds

LEMMA PublishedHolds == \A evidence : evidence \subseteq Published => Holds(published, evidence)
BY FindableAt DEF Holds

----------------------------------------------------------------------------
(* Changes.                                                                *)

LEMMA Initially == Init => KnowledgeInv
  <1> SUFFICES ASSUME Init PROVE KnowledgeInv OBVIOUS
  <1>1. /\ published \in [Docs -> {0, 1}] /\ points = [d \in Docs |-> {published[d]} \ {0}]
        /\ job = [d \in Docs |-> [step |-> "none", rev |-> published[d]]] /\ changes = 0
        /\ keyword = [s \in Servers |-> {}] /\ fresh = [s \in Servers |-> FALSE]
        /\ lock = [s \in Servers |-> None] /\ answers = {} /\ documents = {}
        /\ pc = [p \in Procs |-> "idle"] /\ mem = [p \in Procs |-> NoMem]
        /\ announced = TRUE
        /\ seen = [r \in Requests |-> {}] /\ calm = [r \in Requests |-> FALSE]
    BY DEF Init
  <1>2. \A d \in Docs : published[d] \in 0..MaxRevision /\ published[d] \in 0..Gone
                        /\ {published[d]} \ {0} \subseteq Revisions
    <2>1. {0, 1} \subseteq 0..MaxRevision /\ {0, 1} \subseteq 0..Gone /\ 1 \in Revisions
      BY Bounds DEF Revisions, Gone
    <2> QED BY <1>1, <2>1
  <1>3. WritersOK
    BY <1>1, <1>2, Bounds DEF WritersOK, JobSteps
  <1>4. NoMem \in Mem
    BY Bounds DEF NoMem, Mem
  <1>5. ProgramOK /\ IndexOK /\ CacheOK /\ HistoryOK
    BY <1>1, <1>4 DEF ProgramOK, IndexOK, CacheOK, HistoryOK, Steps
  <1>6. LockOK
    BY <1>1, Processes DEF LockOK, Holding
  <1>7. ASSUME NEW d \in Docs PROVE JobInv(d)
    BY <1>1 DEF JobInv
  <1>8. (\A p \in Procs : SnapshotInv(p)) /\ CurrentMeansCurrent /\ CacheInv
    BY <1>1 DEF SnapshotInv, CurrentMeansCurrent, CacheInv
  <1>9. ASSUME NEW r \in Requests PROVE RequestInv(r)
    <2>1. r \in Procs
      BY Processes
    <2>2. pc[r] = "idle" /\ ~calm[r] /\ ~mem[r].docs
      BY <1>1, <2>1 DEF NoMem
    <2> QED BY <2>2 DEF RequestInv, Undisturbed, Filtered, RefreshSteps
  <1> QED BY <1>3, <1>5, <1>6, <1>7, <1>8, <1>9, TypeParts DEF KnowledgeInv

\* A change of what is found or published ends every claim to know it.
LEMMA NoticedKeeps ==
    ASSUME KnowledgeInv, Noticed, UNCHANGED <<index, Reading>>,
           published' \in [Docs -> 0..Gone], points' \in [Docs -> SUBSET Revisions],
           job' \in [Docs -> [step : JobSteps, rev : 0..MaxRevision]],
           changes' \in 0..MaxChanges, \A d \in Docs : JobInv(d)',
           Findable' = Findable => Published' \subseteq Published
    PROVE  KnowledgeInv'
  <1>1. UNCHANGED <<keyword, fresh, lock, answers, documents, pc, mem>>
    BY DEF index, Reading, cache
  <1>2. /\ announced' = (announced /\ Findable' = Findable)
        /\ calm' = [r \in Requests |-> calm[r] /\ Findable' = Findable]
        /\ seen' = [r \in Requests |-> IF seen[r] = {} THEN {} ELSE seen[r] \cup {published'}]
    BY DEF Noticed
  <1>3. TypeOK'
    <2>1. announced' \in BOOLEAN /\ calm' \in [Requests -> BOOLEAN]
      BY <1>2
    <2>2. seen' \in [Requests -> SUBSET [Docs -> 0..Gone]]
      <3>1. \A r \in Requests : seen[r] \subseteq [Docs -> 0..Gone]
        BY DEF KnowledgeInv, TypeOK
      <3>2. ASSUME NEW r \in Requests
            PROVE  (IF seen[r] = {} THEN {} ELSE seen[r] \cup {published'})
                        \in SUBSET [Docs -> 0..Gone]
        BY <3>1
      <3> QED BY <1>2, <3>2
    <2> QED BY <1>1, <2>1, <2>2 DEF KnowledgeInv, TypeOK
  <1>4. announced' => announced /\ Findable' = Findable
    BY <1>2
  <1>5. ASSUME NEW p \in Procs PROVE SnapshotInv(p)'
    <2>1. SnapshotInv(p)
      BY DEF KnowledgeInv
    <2>2. CASE announced'
      <3>1. announced /\ Findable' = Findable /\ Published' \subseteq Published
            /\ Findable \subseteq Published'
        BY <1>4, <2>2, FindableAt
      <3>2. mem[p].chunks \cap Published = Findable => mem[p].chunks \cap Published' = Findable'
        BY <3>1
      <3> QED BY <1>1, <2>1, <3>1, <3>2 DEF SnapshotInv
    <2>3. CASE ~announced'
      BY <2>3 DEF SnapshotInv
    <2> QED BY <2>2, <2>3
  <1>6. CurrentMeansCurrent' /\ CacheInv'
    BY <1>1, <1>4 DEF KnowledgeInv, CurrentMeansCurrent, CacheInv
  <1>7. ASSUME NEW r \in Requests PROVE RequestInv(r)'
    <2>1. RequestInv(r) /\ seen'[r] = IF seen[r] = {} THEN {} ELSE seen[r] \cup {published'}
      BY <1>2 DEF KnowledgeInv
    <2>2. calm'[r] = (calm[r] /\ Findable' = Findable)
      BY <1>2
    <2>3. seen[r] \subseteq seen'[r] /\ (pc[r] # "idle" => published' \in seen'[r])
      BY <2>1 DEF RequestInv
    <2>4. /\ calm'[r] => announced'
          /\ pc'[r] # "idle" /\ mem'[r].answer /\ announced' => calm'[r]
      BY <1>1, <1>2, <2>1, <2>2 DEF RequestInv
    <2>5. Undisturbed(r)' => Undisturbed(r) /\ Findable' = Findable
      BY <1>1, <1>4, <2>2 DEF Undisturbed
    <2>6. pc'[r] \in {"put documents", "put answer"} =>
              \E registry \in seen'[r] : Holds(registry, mem'[r].got)
      BY <1>1, <2>1, <2>3 DEF RequestInv
    <2>7. Undisturbed(r)' =>
              /\ pc'[r] \in Filtered => Findable' \subseteq mem'[r].got
              /\ pc'[r] \in RefreshSteps \cup {"keyword", "filter"} =>
                  mem'[r].got = {} \/ Findable' \subseteq mem'[r].got
      BY <1>1, <2>1, <2>5 DEF RequestInv
    <2> QED BY <1>1, <2>3, <2>4, <2>6, <2>7 DEF RequestInv, Holds, Filtered, RefreshSteps
  <1> QED BY <1>3, <1>5, <1>6, <1>7 DEF KnowledgeInv

\* Where nothing is found or published that was not, only the types matter.
LEMMA QuietKeeps ==
    ASSUME KnowledgeInv, UNCHANGED <<published, points, Reading, history>>,
           job' \in [Docs -> [step : JobSteps, rev : 0..MaxRevision]],
           changes' \in 0..MaxChanges, \A d \in Docs : JobInv(d)',
           IndexOK', lock' = lock, CurrentMeansCurrent'
    PROVE  KnowledgeInv'
  <1>1. UNCHANGED <<published, points, answers, documents, pc, mem, announced, seen, calm>>
    BY DEF Reading, cache, history
  <1>2. Published' = Published /\ Findable' = Findable
    BY SameKnowledge
  <1>3. TypeOK'
    BY <1>1 DEF KnowledgeInv, TypeOK, IndexOK
  <1>4. (\A p \in Procs : SnapshotInv(p)') /\ CacheInv'
    BY <1>1, <1>2 DEF KnowledgeInv, SnapshotInv, CacheInv
  <1>5. ASSUME NEW r \in Requests PROVE RequestInv(r)'
    BY <1>1, <1>2 DEF KnowledgeInv, RequestInv, Undisturbed, Holds, Filtered, RefreshSteps
  <1> QED BY <1>3, <1>4, <1>5 DEF KnowledgeInv

\* With a new epoch nothing that is remembered counts as of now.
LEMMA EpochKeeps ==
    ASSUME KnowledgeInv, NewEpoch,
           UNCHANGED <<published, points, keyword, lock, pc, seen, calm>>,
           job' \in [Docs -> [step : JobSteps, rev : 0..MaxRevision]],
           changes' \in 0..MaxChanges, \A d \in Docs : JobInv(d)'
    PROVE  KnowledgeInv'
  <1>1. /\ announced' = TRUE /\ answers' = {} /\ documents' = {}
        /\ fresh' = [s \in Servers |-> FALSE]
        /\ mem' = [p \in Procs |-> [mem[p] EXCEPT !.answer = FALSE, !.docs = FALSE,
                      !.snapshot = IF @ = "current" THEN "past" ELSE @]]
    BY DEF NewEpoch
  <1>2. Published' = Published /\ Findable' = Findable
    BY SameKnowledge
  <1>3. ASSUME NEW p \in Procs
        PROVE  /\ mem'[p] \in Mem /\ mem'[p].snapshot # "current"
               /\ mem'[p].answer = FALSE /\ mem'[p].docs = FALSE
               /\ mem'[p].got = mem[p].got
    <2>1. mem[p] \in Mem
      BY DEF KnowledgeInv, TypeOK
    <2>2. mem'[p] = [mem[p] EXCEPT !.answer = FALSE, !.docs = FALSE,
                      !.snapshot = IF mem[p].snapshot = "current" THEN "past" ELSE mem[p].snapshot]
      BY <1>1
    <2> QED BY <2>1, <2>2 DEF Mem
  <1>4. TypeOK'
    <2>1. mem' \in [Procs -> Mem]
      BY <1>1, <1>3
    <2> QED BY <1>1, <2>1 DEF KnowledgeInv, TypeOK
  <1>5. (\A p \in Procs : SnapshotInv(p)') /\ CacheInv' /\ CurrentMeansCurrent'
    BY <1>1, <1>3 DEF SnapshotInv, CacheInv, CurrentMeansCurrent
  <1>6. ASSUME NEW r \in Requests PROVE RequestInv(r)'
    <2>1. RequestInv(r) /\ r \in Procs
      BY Processes DEF KnowledgeInv
    <2>2. /\ mem'[r].got = mem[r].got /\ mem'[r].answer = FALSE /\ mem'[r].docs = FALSE
      BY <1>3, <2>1
    <2> QED BY <1>1, <1>2, <2>1, <2>2 DEF RequestInv, Undisturbed, Holds, Filtered, RefreshSteps
  <1> QED BY <1>4, <1>5, <1>6 DEF KnowledgeInv

\* The job of one document moves on.
LEMMA JobMoves ==
    ASSUME KnowledgeInv, NEW d \in Docs, NEW step \in JobSteps, NEW rev \in 0..MaxRevision,
           job' = [job EXCEPT ![d] = [step |-> step, rev |-> rev]],
           \A e \in Docs \ {d} : points'[e] = points[e],
           step \in {"replace", "retire", "publish", "rotate", "commit"} => rev \in Revisions,
           step \in {"publish", "rotate", "commit"} => points'[d] = {rev},
           step \in {"purge", "rotate deleted", "commit deletion"} => points'[d] = {}
    PROVE  /\ job' \in [Docs -> [step : JobSteps, rev : 0..MaxRevision]]
           /\ \A e \in Docs : JobInv(e)'
  <1>1. job \in [Docs -> [step : JobSteps, rev : 0..MaxRevision]]
    BY DEF KnowledgeInv, TypeOK
  <1>2. job' \in [Docs -> [step : JobSteps, rev : 0..MaxRevision]]
    BY <1>1
  <1>3. job'[d].step = step /\ job'[d].rev = rev /\ \A e \in Docs \ {d} : job'[e] = job[e]
    BY <1>1
  <1>4. JobInv(d)'
    BY <1>3 DEF JobInv
  <1>5. ASSUME NEW e \in Docs \ {d} PROVE JobInv(e)'
    BY <1>3 DEF KnowledgeInv, JobInv
  <1> QED BY <1>2, <1>4, <1>5

\* JobGoto keeps the revision.
LEMMA JobGoes ==
    ASSUME KnowledgeInv, NEW d \in Docs, NEW step \in JobSteps, JobGoto(d, step)
    PROVE  /\ job' = [job EXCEPT ![d] = [step |-> step, rev |-> job[d].rev]]
           /\ job[d].rev \in 0..MaxRevision /\ JobInv(d)
           /\ changes \in 0..MaxChanges /\ published \in [Docs -> 0..Gone]
           /\ points \in [Docs -> SUBSET Revisions]
  <1>1. job[d] \in [step : JobSteps, rev : 0..MaxRevision]
    BY DEF KnowledgeInv, TypeOK
  <1>2. [job[d] EXCEPT !.step = step] = [step |-> step, rev |-> job[d].rev]
    BY <1>1
  <1>3. job' = [job EXCEPT ![d] = [job[d] EXCEPT !.step = step]]
    BY DEF JobGoto
  <1> QED BY <1>1, <1>2, <1>3 DEF KnowledgeInv, TypeOK

LEMMA BeginKeeps ==
    ASSUME KnowledgeInv, NEW d \in Docs, BeginIndex(d) \/ BeginDelete(d)
    PROVE  KnowledgeInv'
  <1>1. PICK kind \in {"replace", "delete"}, r \in 0..MaxRevision :
            Begin(d, kind, r) /\ (kind = "replace" => r \in Revisions)
    <2>1. job[d].rev \in 0..MaxRevision
      BY DEF KnowledgeInv, TypeOK
    <2> QED BY <2>1, Bounds DEF BeginIndex, BeginDelete
  <1>2. /\ changes' = changes + 1 /\ changes < MaxChanges
        /\ job' = [job EXCEPT ![d] = [step |-> kind, rev |-> r]]
        /\ UNCHANGED <<published, points, index, Reading, history>>
    BY <1>1 DEF Begin
  <1>3. kind \in JobSteps /\ kind \notin {"retire", "publish", "rotate", "commit"}
        /\ kind \notin {"purge", "rotate deleted", "commit deletion"}
    BY DEF JobSteps
  <1>4. /\ job' \in [Docs -> [step : JobSteps, rev : 0..MaxRevision]]
        /\ \A e \in Docs : JobInv(e)'
    BY <1>1, <1>2, <1>3, JobMoves
  <1>5. changes' \in 0..MaxChanges
    <2>1. changes \in 0..MaxChanges
      BY DEF KnowledgeInv, TypeOK
    <2> QED BY <1>2, <2>1, Bounds
  <1>6. IndexOK' /\ lock' = lock /\ CurrentMeansCurrent'
    <2>1. UNCHANGED <<keyword, fresh, lock, announced>>
      BY <1>2 DEF index, history
    <2> QED BY <1>2, <2>1, SameKnowledge DEF KnowledgeInv, TypeOK, IndexOK, CurrentMeansCurrent
  <1> QED BY <1>2, <1>4, <1>5, <1>6, QuietKeeps

\* What is written to the vector index is noticed.
LEMMA PointsKeep ==
    ASSUME KnowledgeInv, NEW d \in Docs, NEW set \in SUBSET Revisions,
           points' = [points EXCEPT ![d] = set], NEW step \in JobSteps, JobGoto(d, step),
           UNCHANGED <<published, changes, index, Reading>>, Noticed,
           step \in {"replace", "retire", "publish", "rotate", "commit"} => job[d].rev \in Revisions,
           step \in {"publish", "rotate", "commit"} => set = {job[d].rev},
           step \in {"purge", "rotate deleted", "commit deletion"} => set = {}
    PROVE  KnowledgeInv'
  <1>1. /\ job' = [job EXCEPT ![d] = [step |-> step, rev |-> job[d].rev]]
        /\ job[d].rev \in 0..MaxRevision /\ changes \in 0..MaxChanges
        /\ published \in [Docs -> 0..Gone] /\ points \in [Docs -> SUBSET Revisions]
    BY JobGoes
  <1>2. /\ points' \in [Docs -> SUBSET Revisions] /\ points'[d] = set
        /\ \A e \in Docs \ {d} : points'[e] = points[e]
    BY <1>1
  <1>3. /\ job' \in [Docs -> [step : JobSteps, rev : 0..MaxRevision]]
        /\ \A e \in Docs : JobInv(e)'
    BY <1>1, <1>2, JobMoves
  <1>4. Published' = Published
    BY DEF Published, Holds
  <1>5. published' \in [Docs -> 0..Gone] /\ changes' \in 0..MaxChanges
    BY <1>1
  <1> QED BY <1>2, <1>3, <1>4, <1>5, NoticedKeeps

LEMMA UpsertKeeps ==
    ASSUME KnowledgeInv, NEW d \in Docs, Upsert(d)
    PROVE  KnowledgeInv'
  <1>1. /\ job[d].step = "replace" /\ points' = [points EXCEPT ![d] = points[d] \cup {job[d].rev}]
        /\ JobGoto(d, "retire") /\ "retire" \in JobSteps
        /\ UNCHANGED <<published, changes, index, Reading>> /\ Noticed
    BY DEF Upsert, JobAt, JobSteps
  <1>2. JobInv(d) /\ points \in [Docs -> SUBSET Revisions]
    BY DEF KnowledgeInv, TypeOK
  <1>3. job[d].rev \in Revisions /\ points[d] \cup {job[d].rev} \in SUBSET Revisions
    BY <1>1, <1>2 DEF JobInv
  <1> QED BY <1>1, <1>3, PointsKeep

LEMMA RetireKeeps ==
    ASSUME KnowledgeInv, NEW d \in Docs, Retire(d)
    PROVE  KnowledgeInv'
  <1>1. /\ job[d].step = "retire" /\ points' = [points EXCEPT ![d] = {job[d].rev}]
        /\ JobGoto(d, "publish") /\ "publish" \in JobSteps
        /\ UNCHANGED <<published, changes, index, Reading>> /\ Noticed
    BY DEF Retire, JobAt, JobSteps
  <1>2. job[d].rev \in Revisions /\ {job[d].rev} \in SUBSET Revisions
    BY <1>1 DEF KnowledgeInv, JobInv
  <1> QED BY <1>1, <1>2, PointsKeep

LEMMA ReplaceFailsKeeps ==
    ASSUME KnowledgeInv, NEW d \in Docs, ReplaceFails(d)
    PROVE  KnowledgeInv'
  <1>1. PICK kept \in SUBSET (points[d] \cup {job[d].rev}) :
            /\ points' = [points EXCEPT ![d] = kept]
            /\ job[d].step \in {"replace", "retire"}
            /\ JobGoto(d, "purge failed") /\ "purge failed" \in JobSteps
            /\ UNCHANGED <<published, changes, index, Reading>> /\ Noticed
    BY DEF ReplaceFails, JobSteps
  <1>2. JobInv(d) /\ points \in [Docs -> SUBSET Revisions]
    BY DEF KnowledgeInv, TypeOK
  <1>3. kept \in SUBSET Revisions
    BY <1>1, <1>2 DEF JobInv
  <1> QED BY <1>1, <1>3, PointsKeep

LEMMA DeletePointsKeeps ==
    ASSUME KnowledgeInv, NEW d \in Docs, DeletePoints(d)
    PROVE  KnowledgeInv'
  <1>1. PICK kept \in SUBSET points[d], step \in {"purge", "rotate failed deletion"} :
            /\ points' = [points EXCEPT ![d] = kept]
            /\ JobGoto(d, step) /\ (step = "purge" => kept = {})
            /\ UNCHANGED <<published, changes, index, Reading>> /\ Noticed
    BY DEF DeletePoints
  <1>2. kept \in SUBSET Revisions /\ step \in JobSteps
    BY DEF KnowledgeInv, TypeOK, JobSteps
  <1> QED BY <1>1, <1>2, PointsKeep

\* The worker's own keyword index may only be forgotten.
LEMMA ForgetKeeps ==
    ASSUME KnowledgeInv, NEW d \in Docs, NEW step \in JobSteps, JobGoto(d, step),
           keyword' \in [Servers -> SUBSET Evidence],
           \A s \in Servers \ {Worker} : keyword'[s] = keyword[s],
           fresh' = [fresh EXCEPT ![Worker] = FALSE],
           UNCHANGED <<published, points, changes, Reading, history, lock>>,
           step \in {"replace", "retire", "publish", "rotate", "commit"} => job[d].rev \in Revisions,
           step \in {"publish", "rotate", "commit"} => points[d] = {job[d].rev},
           step \in {"purge", "rotate deleted", "commit deletion"} => points[d] = {}
    PROVE  KnowledgeInv'
  <1>1. /\ job' = [job EXCEPT ![d] = [step |-> step, rev |-> job[d].rev]]
        /\ job[d].rev \in 0..MaxRevision /\ changes \in 0..MaxChanges
    BY JobGoes
  <1>2. /\ job' \in [Docs -> [step : JobSteps, rev : 0..MaxRevision]]
        /\ \A e \in Docs : JobInv(e)'
    BY <1>1, JobMoves
  <1>3. fresh \in [Servers -> BOOLEAN]
    BY DEF KnowledgeInv, TypeOK
  <1>4. fresh' \in [Servers -> BOOLEAN] /\ ~fresh'[Worker]
        /\ \A s \in Servers \ {Worker} : fresh'[s] = fresh[s]
    BY <1>3, ServersAssumption
  <1>5. IndexOK' /\ CurrentMeansCurrent'
    <2>1. announced' = announced
      BY DEF history
    <2> QED BY <1>4, <2>1, SameKnowledge DEF KnowledgeInv, IndexOK, CurrentMeansCurrent
  <1>6. changes' \in 0..MaxChanges
    BY <1>1
  <1> QED BY <1>2, <1>5, <1>6, QuietKeeps

LEMMA PublishKeywordKeeps ==
    ASSUME KnowledgeInv, NEW d \in Docs, PublishKeyword(d)
    PROVE  KnowledgeInv'
  <1>1. /\ job[d].step = "publish" /\ JobGoto(d, "rotate") /\ "rotate" \in JobSteps
        /\ UNCHANGED <<published, points, changes, Reading, history>>
    BY DEF PublishKeyword, JobAt, JobSteps
  <1>2. job[d].rev \in Revisions /\ points[d] = {job[d].rev}
    BY <1>1 DEF KnowledgeInv, JobInv
  <1>3. keyword \in [Servers -> SUBSET Evidence]
    BY DEF KnowledgeInv, TypeOK
  <1>4. /\ keyword' \in [Servers -> SUBSET Evidence] /\ UNCHANGED lock
        /\ \A s \in Servers \ {Worker} : keyword'[s] = keyword[s]
        /\ fresh' = [fresh EXCEPT ![Worker] = FALSE]
    <2>1. CASE Forget(d, {<<d, job[d].rev>>} \cap Published)
      <3>1. (keyword[Worker] \ Of(d)) \cup ({<<d, job[d].rev>>} \cap Published) \in SUBSET Evidence
        BY <1>3, ServersAssumption, FindableAt
      <3> QED BY <1>3, <2>1, <3>1 DEF Forget
    <2>2. CASE fresh' = [fresh EXCEPT ![Worker] = FALSE] /\ UNCHANGED <<keyword, lock>>
      BY <1>3, <2>2
    <2> QED BY <2>1, <2>2 DEF PublishKeyword
  <1> QED BY <1>1, <1>2, <1>4, ForgetKeeps

LEMMA PurgeKeywordKeeps ==
    ASSUME KnowledgeInv, NEW d \in Docs, PurgeKeyword(d)
    PROVE  KnowledgeInv'
  <1>1. PICK step \in {"rotate deleted", "rotate failed"} :
            /\ JobGoto(d, step) /\ (step = "rotate deleted" => job[d].step = "purge")
            /\ Forget(d, {})
            /\ UNCHANGED <<published, points, changes, Reading, history>>
    BY DEF PurgeKeyword, JobAt
  <1>2. step \in JobSteps /\ (step = "rotate deleted" => points[d] = {})
    BY <1>1 DEF JobSteps, KnowledgeInv, JobInv
  <1>3. keyword \in [Servers -> SUBSET Evidence]
    BY DEF KnowledgeInv, TypeOK
  <1>4. /\ keyword' \in [Servers -> SUBSET Evidence] /\ UNCHANGED lock
        /\ \A s \in Servers \ {Worker} : keyword'[s] = keyword[s]
        /\ fresh' = [fresh EXCEPT ![Worker] = FALSE]
    BY <1>1, <1>3, ServersAssumption DEF Forget
  <1> QED BY <1>1, <1>2, <1>4, ForgetKeeps

LEMMA RotateKeeps ==
    ASSUME KnowledgeInv, NEW d \in Docs, Rotate(d)
    PROVE  KnowledgeInv'
  <1>1. PICK step : /\ step = AfterRotation(job[d].step) /\ JobGoto(d, step)
                    /\ job[d].step \in {"rotate", "rotate failed", "rotate last",
                                        "rotate deleted", "rotate failed deletion"}
                    /\ UNCHANGED <<published, points, changes, keyword, lock, pc, seen, calm>>
    BY DEF Rotate
  <1>2. /\ step \in {"commit", "rotate last", "commit deletion", "none"} /\ step \in JobSteps
        /\ step = "commit" => job[d].step = "rotate"
        /\ step = "commit deletion" => job[d].step = "rotate deleted"
    BY <1>1 DEF AfterRotation, JobSteps
  <1>3. /\ job' = [job EXCEPT ![d] = [step |-> step, rev |-> job[d].rev]]
        /\ job[d].rev \in 0..MaxRevision /\ JobInv(d) /\ changes \in 0..MaxChanges
    BY <1>1, <1>2, JobGoes
  <1>4. /\ job' \in [Docs -> [step : JobSteps, rev : 0..MaxRevision]]
        /\ \A e \in Docs : JobInv(e)'
    <2>1. /\ step = "commit" => job[d].rev \in Revisions /\ points'[d] = {job[d].rev}
          /\ step = "commit deletion" => points'[d] = {}
          /\ \A e \in Docs \ {d} : points'[e] = points[e]
      BY <1>1, <1>2, <1>3 DEF JobInv
    <2> QED BY <1>2, <1>3, <2>1, JobMoves
  <1>5. changes' \in 0..MaxChanges
    BY <1>1, <1>3
  <1>6. CASE NewEpoch
    BY <1>1, <1>4, <1>5, <1>6, EpochKeeps
  <1>7. CASE UNCHANGED <<announced, cache, fresh, mem>>
    <2>1. IndexOK' /\ lock' = lock /\ CurrentMeansCurrent'
      BY <1>1, <1>7, SameKnowledge DEF KnowledgeInv, TypeOK, IndexOK, CurrentMeansCurrent
    <2>2. UNCHANGED <<published, points, Reading, history>>
      BY <1>1, <1>7 DEF Reading, history
    <2> QED BY <1>4, <1>5, <2>1, <2>2, QuietKeeps
  <1> QED BY <1>6, <1>7 DEF Rotate

LEMMA FlushKeeps ==
    ASSUME KnowledgeInv, Flush
    PROVE  KnowledgeInv'
  <1>1. /\ changes < MaxChanges /\ changes' = changes + 1 /\ NewEpoch
        /\ UNCHANGED <<published, points, job, keyword, lock, pc, seen, calm>>
    BY DEF Flush
  <1>2. changes' \in 0..MaxChanges
    <2>1. changes \in 0..MaxChanges
      BY DEF KnowledgeInv, TypeOK
    <2> QED BY <1>1, <2>1, Bounds
  <1>3. /\ job' \in [Docs -> [step : JobSteps, rev : 0..MaxRevision]]
        /\ \A e \in Docs : JobInv(e)'
    BY <1>1 DEF KnowledgeInv, TypeOK, JobInv
  <1> QED BY <1>1, <1>2, <1>3, EpochKeeps

\* What is published is in the index with this revision alone, so if it can
\* be found as before it was published before.
LEMMA CommitKeeps ==
    ASSUME KnowledgeInv, NEW d \in Docs, Commit(d)
    PROVE  KnowledgeInv'
  <1>1. /\ job[d].step = "commit" /\ JobGoto(d, "rotate last") /\ "rotate last" \in JobSteps
        /\ published' = [published EXCEPT ![d] = job[d].rev]
        /\ UNCHANGED <<points, changes, index, Reading>> /\ Noticed
    BY DEF Commit, JobAt, JobSteps
  <1>2. /\ job' = [job EXCEPT ![d] = [step |-> "rotate last", rev |-> job[d].rev]]
        /\ job[d].rev \in 0..MaxRevision /\ JobInv(d) /\ changes \in 0..MaxChanges
        /\ published \in [Docs -> 0..Gone] /\ points \in [Docs -> SUBSET Revisions]
    BY <1>1, JobGoes
  <1>3. /\ job' \in [Docs -> [step : JobSteps, rev : 0..MaxRevision]]
        /\ \A e \in Docs : JobInv(e)'
    BY <1>1, <1>2, JobMoves
  <1>4. job[d].rev \in Revisions /\ points[d] = {job[d].rev}
    BY <1>1, <1>2 DEF JobInv
  <1>5. published' \in [Docs -> 0..Gone] /\ points' \in [Docs -> SUBSET Revisions]
        /\ changes' \in 0..MaxChanges
    BY <1>1, <1>2, <1>4, Bounds
  <1>6. ASSUME Findable' = Findable PROVE Published' \subseteq Published
    <2>1. <<d, job[d].rev>> \in Evidence /\ published'[d] = job[d].rev
      BY <1>1, <1>2, <1>4 DEF Evidence
    <2>2. <<d, job[d].rev>> \in Findable'
      BY <1>1, <1>4, <2>1, FindableAt
    <2>3. published[d] = job[d].rev
      BY <1>6, <2>2, FindableAt
    <2>4. published' = published
      BY <1>1, <1>2, <2>3
    <2> QED BY <2>4 DEF Published, Holds
  <1> QED BY <1>1, <1>3, <1>5, <1>6, NoticedKeeps

LEMMA CommitDeletionKeeps ==
    ASSUME KnowledgeInv, NEW d \in Docs, CommitDeletion(d)
    PROVE  KnowledgeInv'
  <1>1. /\ JobGoto(d, "none") /\ "none" \in JobSteps
        /\ published' = [published EXCEPT ![d] = Gone]
        /\ UNCHANGED <<points, changes, index, Reading>> /\ Noticed
    BY DEF CommitDeletion, JobSteps
  <1>2. /\ job' = [job EXCEPT ![d] = [step |-> "none", rev |-> job[d].rev]]
        /\ job[d].rev \in 0..MaxRevision /\ changes \in 0..MaxChanges
        /\ published \in [Docs -> 0..Gone] /\ points \in [Docs -> SUBSET Revisions]
    BY <1>1, JobGoes
  <1>3. /\ job' \in [Docs -> [step : JobSteps, rev : 0..MaxRevision]]
        /\ \A e \in Docs : JobInv(e)'
    BY <1>1, <1>2, JobMoves
  <1>4. published' \in [Docs -> 0..Gone] /\ points' \in [Docs -> SUBSET Revisions]
        /\ changes' \in 0..MaxChanges
    BY <1>1, <1>2, Bounds
  <1>5. Published' \subseteq Published
    <2>1. SUFFICES ASSUME NEW e \in Published' PROVE e \in Published
      OBVIOUS
    <2>2. e \in Evidence /\ e[1] \in Docs /\ e[2] \in Revisions /\ published'[e[1]] = e[2]
      BY FindableAt DEF Evidence
    <2>3. e[1] # d
      BY <1>1, <1>2, <2>2, Bounds
    <2>4. published[e[1]] = e[2]
      BY <1>1, <1>2, <2>2, <2>3
    <2> QED BY <2>2, <2>4, FindableAt
  <1> QED BY <1>1, <1>3, <1>4, <1>5, NoticedKeeps

LEMMA CrashKeeps ==
    ASSUME KnowledgeInv, NEW d \in Docs, Crash(d)
    PROVE  KnowledgeInv'
  <1>1. /\ JobGoto(d, "none") /\ "none" \in JobSteps
        /\ UNCHANGED <<published, points, changes, index, Reading, history>>
    BY DEF Crash, JobSteps
  <1>2. /\ job' = [job EXCEPT ![d] = [step |-> "none", rev |-> job[d].rev]]
        /\ job[d].rev \in 0..MaxRevision /\ changes \in 0..MaxChanges
    BY <1>1, JobGoes
  <1>3. /\ job' \in [Docs -> [step : JobSteps, rev : 0..MaxRevision]]
        /\ \A e \in Docs : JobInv(e)'
    BY <1>1, <1>2, JobMoves
  <1>4. IndexOK' /\ lock' = lock /\ CurrentMeansCurrent'
    <2>1. UNCHANGED <<keyword, fresh, lock, announced>>
      BY <1>1 DEF index, history
    <2> QED BY <1>1, <2>1, SameKnowledge DEF KnowledgeInv, TypeOK, IndexOK, CurrentMeansCurrent
  <1>5. changes' \in 0..MaxChanges
    BY <1>1, <1>2
  <1> QED BY <1>1, <1>3, <1>4, <1>5, QuietKeeps

----------------------------------------------------------------------------
(* Questions and refreshers.                                               *)

\* Process p goes to a step of its program; no document changes and no other
\* process moves.
Moves(p, step) ==
    /\ pc' = [pc EXCEPT ![p] = step]
    /\ mem' = [mem EXCEPT ![p] = mem'[p]] /\ mem'[p] \in Mem
    /\ UNCHANGED writers

LEMMA MoveFacts ==
    ASSUME KnowledgeInv, NEW p \in Procs, NEW step \in Steps, Moves(p, step)
    PROVE  /\ pc'[p] = step
           /\ \A q \in Procs \ {p} : pc'[q] = pc[q] /\ mem'[q] = mem[q]
           /\ ProgramOK' /\ WritersOK'
           /\ UNCHANGED <<published, points, job, changes, announced>>
           /\ Published' = Published /\ Findable' = Findable
  <1>1. UNCHANGED <<published, points, job, changes, announced>>
    BY DEF Moves, writers
  <1>2. pc \in [Procs -> Steps] /\ mem \in [Procs -> Mem] /\ WritersOK
    BY TypeParts DEF KnowledgeInv, ProgramOK
  <1>3. /\ pc' = [pc EXCEPT ![p] = step]
        /\ mem' = [mem EXCEPT ![p] = mem'[p]] /\ mem'[p] \in Mem
    BY DEF Moves
  <1>4. pc'[p] = step /\ \A q \in Procs \ {p} : pc'[q] = pc[q] /\ mem'[q] = mem[q]
    BY <1>2, <1>3
  <1>5. pc' \in [Procs -> Steps]
    BY <1>2, <1>3
  <1>6. mem' \in [Procs -> Mem]
    BY <1>2, <1>3
  <1>7. WritersOK'
    BY <1>1, <1>2 DEF WritersOK
  <1> QED BY <1>1, <1>4, <1>5, <1>6, <1>7, SameKnowledge DEF ProgramOK

\* What is left to show when one process moves.
LEMMA MoveKeeps ==
    ASSUME KnowledgeInv, NEW p \in Procs, NEW step \in Steps, Moves(p, step),
           IndexOK', LockOK', CacheOK', HistoryOK', CurrentMeansCurrent', CacheInv',
           \A r \in Requests \ {p} : seen'[r] = seen[r] /\ calm'[r] = calm[r],
           SnapshotInv(p)', p \in Requests => RequestInv(p)'
    PROVE  KnowledgeInv'
  <1>1. /\ \A q \in Procs \ {p} : pc'[q] = pc[q] /\ mem'[q] = mem[q]
        /\ ProgramOK' /\ WritersOK'
        /\ UNCHANGED <<published, points, job, changes, announced>>
        /\ Published' = Published /\ Findable' = Findable
    BY MoveFacts
  <1>2. TypeOK'
    BY <1>1, TypeParts
  <1>3. \A d \in Docs : JobInv(d)'
    BY <1>1 DEF KnowledgeInv, JobInv
  <1>4. ASSUME NEW q \in Procs PROVE SnapshotInv(q)'
    <2>1. CASE q # p
      BY <1>1, <2>1 DEF KnowledgeInv, SnapshotInv
    <2> QED BY <2>1
  <1>5. ASSUME NEW r \in Requests PROVE RequestInv(r)'
    <2>1. CASE r # p
      <3>1. r \in Procs \ {p} /\ RequestInv(r)
        BY <2>1, Processes DEF KnowledgeInv
      <3>2. pc'[r] = pc[r] /\ mem'[r] = mem[r] /\ seen'[r] = seen[r] /\ calm'[r] = calm[r]
        BY <1>1, <2>1, <3>1
      <3>3. Undisturbed(r)' = Undisturbed(r)
        BY <1>1, <3>2 DEF Undisturbed
      <3>4. (\E registry \in seen'[r] : Holds(registry, mem'[r].got))
            = \E registry \in seen[r] : Holds(registry, mem[r].got)
        BY <3>2
      <3> QED BY <1>1, <3>1, <3>2, <3>3, <3>4 DEF RequestInv, Holds, Filtered, RefreshSteps
    <2> QED BY <2>1
  <1> QED BY <1>2, <1>3, <1>4, <1>5 DEF KnowledgeInv

\* The lock of a keyword index is kept, taken and given back.
LEMMA LockStays ==
    ASSUME KnowledgeInv, NEW p \in Procs, NEW step \in Steps, Moves(p, step),
           lock' = lock, pc[p] \in Holding <=> step \in Holding
    PROVE  LockOK'
  <1>1. pc'[p] = step /\ \A q \in Procs \ {p} : pc'[q] = pc[q]
    BY MoveFacts
  <1>2. LockOK
    BY TypeParts DEF KnowledgeInv
  <1>3. ASSUME NEW q \in Procs PROVE pc'[q] \in Holding <=> pc[q] \in Holding
    BY <1>1
  <1> QED BY <1>2, <1>3 DEF LockOK, ServerOf

LEMMA LockTaken ==
    ASSUME KnowledgeInv, NEW p \in Procs, NEW step \in Steps, Moves(p, step),
           lock[ServerOf(p)] = None, lock' = [lock EXCEPT ![ServerOf(p)] = p],
           pc[p] \notin Holding, step \in Holding
    PROVE  LockOK'
  <1>1. pc'[p] = step /\ \A q \in Procs \ {p} : pc'[q] = pc[q]
    BY MoveFacts
  <1>2. /\ lock \in [Servers -> Procs \cup {None}]
        /\ \A s \in Servers, q \in Procs : lock[s] = q <=> ServerOf(q) = s /\ pc[q] \in Holding
    BY TypeParts DEF KnowledgeInv, LockOK
  <1>3. ServerOf(p) \in Servers /\ \A q \in Procs : q # None
    BY Processes
  <1>4. ASSUME NEW s \in Servers, NEW q \in Procs
        PROVE  lock'[s] = q <=> ServerOf(q) = s /\ pc'[q] \in Holding
    <2>1. CASE s = ServerOf(p)
      BY <1>1, <1>2, <1>3, <2>1
    <2>2. CASE s # ServerOf(p)
      BY <1>1, <1>2, <1>3, <2>2
    <2> QED BY <2>1, <2>2
  <1>5. lock' \in [Servers -> Procs \cup {None}]
    BY <1>2
  <1> QED BY <1>4, <1>5 DEF LockOK, ServerOf

LEMMA LockReturned ==
    ASSUME KnowledgeInv, NEW p \in Procs, NEW step \in Steps, Moves(p, step),
           lock' = [lock EXCEPT ![ServerOf(p)] = None],
           pc[p] \in Holding, step \notin Holding
    PROVE  LockOK'
  <1>1. pc'[p] = step /\ \A q \in Procs \ {p} : pc'[q] = pc[q]
    BY MoveFacts
  <1>2. /\ lock \in [Servers -> Procs \cup {None}]
        /\ \A s \in Servers, q \in Procs : lock[s] = q <=> ServerOf(q) = s /\ pc[q] \in Holding
    BY TypeParts DEF KnowledgeInv, LockOK
  <1>3. ServerOf(p) \in Servers /\ \A q \in Procs : q # None
    BY Processes
  <1>4. ASSUME NEW s \in Servers, NEW q \in Procs
        PROVE  lock'[s] = q <=> ServerOf(q) = s /\ pc'[q] \in Holding
    <2>1. CASE s = ServerOf(p)
      BY <1>1, <1>2, <1>3, <2>1
    <2>2. CASE s # ServerOf(p)
      BY <1>1, <1>2, <1>3, <2>2
    <2> QED BY <2>1, <2>2
  <1>5. lock' \in [Servers -> Procs \cup {None}]
    BY <1>2
  <1> QED BY <1>4, <1>5 DEF LockOK, ServerOf

\* What each way of writing a process's memory leaves.
LEMMA TakeAt ==
    ASSUME KnowledgeInv, NEW p \in Procs, NEW evidence \in SUBSET Evidence, Take(p, evidence)
    PROVE  /\ mem' = [mem EXCEPT ![p] = mem'[p]] /\ mem'[p] \in Mem
           /\ mem'[p].got = evidence /\ mem'[p].answer = mem[p].answer
           /\ mem'[p].docs = mem[p].docs
  <1>1. mem \in [Procs -> Mem]
    BY DEF KnowledgeInv, TypeOK
  <1>2. mem' = [mem EXCEPT ![p] = [mem[p] EXCEPT !.got = evidence]]
    BY DEF Take
  <1>3. mem'[p] = [mem[p] EXCEPT !.got = evidence]
    BY <1>1, <1>2
  <1> QED BY <1>1, <1>2, <1>3 DEF Mem

LEMMA TakeChunksAt ==
    ASSUME KnowledgeInv, NEW p \in Procs, NEW evidence \in SUBSET Evidence,
           TakeChunks(p, evidence)
    PROVE  /\ mem' = [mem EXCEPT ![p] = mem'[p]] /\ mem'[p] \in Mem
           /\ mem'[p].chunks = evidence /\ mem'[p].snapshot = mem[p].snapshot
           /\ mem'[p].got = mem[p].got /\ mem'[p].answer = mem[p].answer
           /\ mem'[p].docs = mem[p].docs
  <1>1. mem \in [Procs -> Mem]
    BY DEF KnowledgeInv, TypeOK
  <1>2. mem' = [mem EXCEPT ![p] = [mem[p] EXCEPT !.chunks = evidence]]
    BY DEF TakeChunks
  <1>3. mem'[p] = [mem[p] EXCEPT !.chunks = evidence]
    BY <1>1, <1>2
  <1> QED BY <1>1, <1>2, <1>3 DEF Mem

LEMMA SnapshotAt ==
    ASSUME KnowledgeInv, NEW p \in Procs, NEW e \in ReadEpoch,
           mem' = [mem EXCEPT ![p].snapshot = e]
    PROVE  /\ mem' = [mem EXCEPT ![p] = mem'[p]] /\ mem'[p] \in Mem
           /\ mem'[p].got = mem[p].got /\ mem'[p].answer = mem[p].answer
           /\ mem'[p].docs = mem[p].docs
  <1>1. mem \in [Procs -> Mem]
    BY DEF KnowledgeInv, TypeOK
  <1>2. mem' = [mem EXCEPT ![p] = [mem[p] EXCEPT !.snapshot = e]]
    OBVIOUS
  <1>3. mem'[p] = [mem[p] EXCEPT !.snapshot = e]
    BY <1>1, <1>2
  <1> QED BY <1>1, <1>2, <1>3 DEF Mem, ReadEpoch

LEMMA Unmoved ==
    ASSUME KnowledgeInv, NEW p \in Procs, UNCHANGED mem
    PROVE  /\ mem' = [mem EXCEPT ![p] = mem'[p]] /\ mem'[p] \in Mem /\ mem'[p] = mem[p]
  <1>1. mem \in [Procs -> Mem]
    BY DEF KnowledgeInv, TypeOK
  <1> QED BY <1>1

\* A question moves on, with what its next step asks of the evidence.
LEMMA QuestionMoves ==
    ASSUME KnowledgeInv, NEW r \in Requests, NEW step \in Steps, Moves(r, step),
           IndexOK', LockOK', CacheOK', CurrentMeansCurrent', CacheInv', SnapshotInv(r)',
           UNCHANGED <<seen, calm>>, pc[r] # "idle",
           mem'[r].answer = mem[r].answer,
           step \in {"put documents", "put answer"} =>
               \E registry \in seen[r] : Holds(registry, mem'[r].got),
           Undisturbed(r)' /\ step \in Filtered => Findable \subseteq mem'[r].got,
           Undisturbed(r)' /\ step \in RefreshSteps \cup {"keyword", "filter"} =>
               mem'[r].got = {} \/ Findable \subseteq mem'[r].got
    PROVE  KnowledgeInv'
  <1>1. r \in Procs /\ RequestInv(r) /\ HistoryOK
    BY Processes, TypeParts DEF KnowledgeInv
  <1>2. /\ pc'[r] = step /\ UNCHANGED <<published, announced>>
        /\ Published' = Published /\ Findable' = Findable
    BY <1>1, MoveFacts
  <1>3. RequestInv(r)'
    <2>1. pc'[r] # "idle" => published' \in seen'[r]
      BY <1>1, <1>2 DEF RequestInv
    <2>2. /\ calm'[r] => announced'
          /\ pc'[r] # "idle" /\ mem'[r].answer /\ announced' => calm'[r]
      BY <1>1, <1>2 DEF RequestInv
    <2>3. pc'[r] \in {"put documents", "put answer"} =>
              \E registry \in seen'[r] : Holds(registry, mem'[r].got)
      BY <1>2
    <2>4. Undisturbed(r)' =>
              /\ pc'[r] \in Filtered => Findable' \subseteq mem'[r].got
              /\ pc'[r] \in RefreshSteps \cup {"keyword", "filter"} =>
                  mem'[r].got = {} \/ Findable' \subseteq mem'[r].got
      BY <1>2
    <2> QED BY <2>1, <2>2, <2>3, <2>4 DEF RequestInv, Holds, Filtered, RefreshSteps
  <1>4. HistoryOK' /\ \A q \in Requests \ {r} : seen'[q] = seen[q] /\ calm'[q] = calm[q]
    BY <1>1 DEF HistoryOK
  <1> QED BY <1>1, <1>3, <1>4, MoveKeeps

\* Most steps of a question touch no index and no cache.
LEMMA QuestionReads ==
    ASSUME KnowledgeInv, NEW r \in Requests, NEW step \in Steps, Moves(r, step),
           UNCHANGED <<index, cache, seen, calm>>, pc[r] # "idle",
           pc[r] \notin Holding, step \notin Holding,
           mem'[r].answer = mem[r].answer,
           step \in {"put documents", "put answer"} =>
               \E registry \in seen[r] : Holds(registry, mem'[r].got),
           Undisturbed(r)' /\ step \in Filtered => Findable \subseteq mem'[r].got,
           Undisturbed(r)' /\ step \in RefreshSteps \cup {"keyword", "filter"} =>
               mem'[r].got = {} \/ Findable \subseteq mem'[r].got
    PROVE  KnowledgeInv'
  <1>1. r \in Procs /\ UNCHANGED <<keyword, fresh, lock, answers, documents>>
    BY Processes DEF index, cache
  <1>2. pc'[r] = step /\ announced' = announced /\ Findable' = Findable
    BY <1>1, MoveFacts
  <1>3. LockOK'
    BY <1>1, LockStays
  <1>4. IndexOK' /\ CacheOK'
    BY <1>1, TypeParts DEF KnowledgeInv, IndexOK, CacheOK
  <1>5. CurrentMeansCurrent' /\ CacheInv'
    BY <1>1, <1>2 DEF KnowledgeInv, CurrentMeansCurrent, CacheInv
  <1>6. SnapshotInv(r)'
    BY <1>2 DEF SnapshotInv, Holding
  <1>7. UNCHANGED <<seen, calm>>
    OBVIOUS
  <1> QED BY <1>3, <1>4, <1>5, <1>6, <1>7, QuestionMoves

\* A turn is over and leaves its place to the next.
LEMMA EndKeeps ==
    ASSUME KnowledgeInv, NEW r \in Requests, End(r), UNCHANGED <<writers, index>>,
           pc[r] \notin Holding, CacheOK', CacheInv'
    PROVE  KnowledgeInv'
  <1>1. r \in Procs /\ RequestInv(r) /\ HistoryOK /\ ProgramOK /\ IndexOK
    BY Processes, TypeParts DEF KnowledgeInv
  <1>2. /\ pc' = [pc EXCEPT ![r] = "idle"] /\ mem' = [mem EXCEPT ![r] = NoMem]
        /\ seen' = [seen EXCEPT ![r] = {}] /\ calm' = [calm EXCEPT ![r] = FALSE]
        /\ UNCHANGED <<keyword, fresh, lock>>
    BY DEF End, Goto, index
  <1>3. NoMem \in Mem /\ NoMem.docs = FALSE /\ NoMem.snapshot = "past" /\ "idle" \in Steps
    BY Bounds DEF NoMem, Mem, Steps
  <1>4. mem'[r] = NoMem
    BY <1>1, <1>2 DEF ProgramOK
  <1>5. Moves(r, "idle")
    BY <1>2, <1>3, <1>4 DEF Moves
  <1>6. pc'[r] = "idle" /\ announced' = announced /\ Findable' = Findable
    BY <1>1, <1>3, <1>5, MoveFacts
  <1>7. LockOK'
    BY <1>1, <1>2, <1>3, <1>5, LockStays DEF Holding
  <1>8. IndexOK' /\ CurrentMeansCurrent' /\ SnapshotInv(r)'
    BY <1>1, <1>2, <1>6 DEF KnowledgeInv, IndexOK, CurrentMeansCurrent, SnapshotInv
  <1>9. /\ HistoryOK' /\ seen'[r] = {} /\ calm'[r] = FALSE
        /\ \A q \in Requests \ {r} : seen'[q] = seen[q] /\ calm'[q] = calm[q]
    BY <1>1, <1>2 DEF HistoryOK
  <1>10. RequestInv(r)'
    <2>1. Undisturbed(r)' = FALSE
      BY <1>3, <1>4, <1>9 DEF Undisturbed
    <2> QED BY <1>6, <1>9, <2>1 DEF RequestInv
  <1> QED BY <1>1, <1>3, <1>5, <1>7, <1>8, <1>9, <1>10, MoveKeeps

\* A keyword index is searched at the end of what a question or a refresher
\* does with it: nothing is found, or all there is.
LEMMA SearchMoves ==
    ASSUME KnowledgeInv, NEW p \in Procs, NEW chunks \in SUBSET Evidence, Search(p, chunks),
           pc[p] \in RefreshSteps \cup {"keyword"},
           announced => chunks = {} \/ Findable \subseteq chunks,
           UNCHANGED <<writers, cache, seen, calm>>, IndexOK', CurrentMeansCurrent',
           IF pc[p] \in Holding THEN lock' = [lock EXCEPT ![ServerOf(p)] = None] ELSE lock' = lock
    PROVE  KnowledgeInv'
  <1>1. ProgramOK /\ HistoryOK /\ CacheOK
    BY TypeParts DEF KnowledgeInv
  <1>2. PICK step \in {"idle", "filter"} :
            /\ Moves(p, step) /\ mem'[p].snapshot = "past"
            /\ p \in Requests =>
                /\ step = "filter" /\ mem'[p].got = mem[p].got \cup chunks
                /\ mem'[p].answer = mem[p].answer /\ mem'[p].docs = mem[p].docs
    <2>1. CASE p \in Servers
      <3>1. pc' = [pc EXCEPT ![p] = "idle"] /\ mem' = [mem EXCEPT ![p] = NoMem]
        BY <2>1 DEF Search, Goto
      <3>2. NoMem \in Mem /\ NoMem.snapshot = "past"
        BY Bounds DEF NoMem, Mem
      <3>3. mem'[p] = NoMem
        BY <1>1, <3>1 DEF ProgramOK
      <3>4. Moves(p, "idle") /\ p \notin Requests
        BY <2>1, <3>1, <3>2, <3>3, Processes DEF Moves
      <3> QED BY <3>2, <3>3, <3>4
    <2>2. CASE p \notin Servers
      <3>1. /\ pc' = [pc EXCEPT ![p] = "filter"]
            /\ mem' = [mem EXCEPT ![p].snapshot = "past", ![p].tries = 0,
                                  ![p].chunks = {}, ![p].got = @ \cup chunks]
        BY <2>2 DEF Search, Goto
      <3>2. mem[p] \in Mem /\ mem \in [Procs -> Mem]
        BY <1>1 DEF ProgramOK
      <3>3. mem'[p] = [mem[p] EXCEPT !.snapshot = "past", !.tries = 0,
                                     !.chunks = {}, !.got = mem[p].got \cup chunks]
        BY <3>1, <3>2
      <3>4. /\ mem'[p] \in Mem /\ mem'[p].snapshot = "past"
            /\ mem'[p].got = mem[p].got \cup chunks
            /\ mem'[p].answer = mem[p].answer /\ mem'[p].docs = mem[p].docs
        <4>1. 0 \in 0..MaxTries - 1
          BY Bounds
        <4>2. mem[p].got \cup chunks \in SUBSET Evidence
          BY <3>2 DEF Mem
        <4>3. mem'[p] = [answer |-> mem[p].answer, docs |-> mem[p].docs, snapshot |-> "past",
                         tries |-> 0, chunks |-> {}, got |-> mem[p].got \cup chunks]
          BY <3>2, <3>3 DEF Mem
        <4>4. mem[p].answer \in BOOLEAN /\ mem[p].docs \in BOOLEAN
          BY <3>2 DEF Mem
        <4>5. mem'[p] \in Mem
          BY <4>1, <4>2, <4>3, <4>4 DEF Mem
        <4> QED BY <4>3, <4>5
      <3>5. mem' = [mem EXCEPT ![p] = mem'[p]]
        BY <3>1, <3>2
      <3>6. Moves(p, "filter")
        BY <3>1, <3>4, <3>5 DEF Moves
      <3> QED BY <3>4, <3>6
    <2> QED BY <2>1, <2>2
  <1>3. step \in Steps /\ step \notin Holding /\ step \notin Filtered
    BY DEF Steps, TurnSteps, Holding, Filtered
  <1>4. Moves(p, step)
    BY <1>2
  <1>5. pc'[p] = step /\ announced' = announced /\ Findable' = Findable
    BY <1>3, <1>4, MoveFacts
  <1>6. LockOK'
    BY <1>3, <1>4, LockStays, LockReturned
  <1>7. CacheOK' /\ HistoryOK' /\ CacheInv'
    <2>1. UNCHANGED <<answers, documents, seen, calm>>
      BY DEF cache
    <2> QED BY <1>1, <1>5, <2>1 DEF KnowledgeInv, CacheOK, HistoryOK, CacheInv
  <1>8. SnapshotInv(p)'
    BY <1>2 DEF SnapshotInv
  <1>9. CASE p \in Requests
    <2>1. RequestInv(p)
      BY <1>9 DEF KnowledgeInv
    <2>2. Undisturbed(p)' = Undisturbed(p)
      BY <1>2, <1>5, <1>9 DEF Undisturbed
    <2>3. Undisturbed(p) => announced
      BY <2>1 DEF Undisturbed, RequestInv
    <2>4. Undisturbed(p) => mem'[p].got = {} \/ Findable \subseteq mem'[p].got
      BY <1>2, <1>9, <2>1, <2>3 DEF RequestInv
    <2>5. /\ UNCHANGED <<seen, calm>> /\ pc[p] # "idle" /\ mem'[p].answer = mem[p].answer
          /\ step \notin {"put documents", "put answer"}
      BY <1>2, <1>9 DEF RefreshSteps
    <2> QED BY <1>3, <1>4, <1>6, <1>7, <1>8, <1>9, <2>2, <2>4, <2>5, QuestionMoves
  <1>10. CASE p \notin Requests
    <2>1. \A r \in Requests \ {p} : seen'[r] = seen[r] /\ calm'[r] = calm[r]
      OBVIOUS
    <2> QED BY <1>3, <1>4, <1>6, <1>7, <1>8, <1>10, <2>1, MoveKeeps
  <1> QED BY <1>9, <1>10

LEMMA KeywordLegKeeps ==
    ASSUME KnowledgeInv, NEW r \in Requests, KeywordLeg(r)
    PROVE  KnowledgeInv'
  <1>1. /\ pc[r] = "keyword" /\ r \in Procs /\ ServerOf(r) \in Servers
        /\ UNCHANGED <<writers, index, cache, seen, calm>>
        /\ UNCHANGED <<keyword, fresh, lock, published, points, announced>>
    BY Processes DEF KeywordLeg, At, index, writers
  <1>2. pc[r] \notin Holding
    BY <1>1 DEF Holding
  <1>3. IndexOK' /\ CurrentMeansCurrent'
    BY <1>1, SameKnowledge, TypeParts DEF KnowledgeInv, IndexOK, CurrentMeansCurrent
  <1>4. CASE Search(r, {})
    BY <1>1, <1>2, <1>3, <1>4, SearchMoves
  <1>5. CASE fresh[ServerOf(r)] /\ Search(r, keyword[ServerOf(r)])
    <2>1. keyword[ServerOf(r)] \in SUBSET Evidence
      BY <1>1, TypeParts DEF KnowledgeInv, IndexOK
    <2>2. announced => Findable \subseteq keyword[ServerOf(r)]
      BY <1>1, <1>5 DEF KnowledgeInv, CurrentMeansCurrent
    <2> QED BY <1>1, <1>2, <1>3, <1>5, <2>1, <2>2, SearchMoves
  <1>6. CASE Goto(r, "lock") /\ UNCHANGED mem
    <2>1. mem' = [mem EXCEPT ![r] = mem'[r]] /\ mem'[r] \in Mem /\ mem'[r] = mem[r]
      BY <1>1, <1>6, Unmoved
    <2>2. Moves(r, "lock") /\ "lock" \in Steps
      BY <1>1, <1>6, <2>1 DEF Moves, Goto, Steps, RefreshSteps
    <2>3. RequestInv(r)
      BY DEF KnowledgeInv
    <2>4. Undisturbed(r)' => mem'[r].got = {} \/ Findable \subseteq mem'[r].got
      BY <1>1, <2>1, <2>3 DEF RequestInv, Undisturbed
    <2> QED BY <1>1, <1>2, <2>1, <2>2, <2>4, QuestionReads DEF Holding, Filtered
  <1> QED BY <1>4, <1>5, <1>6 DEF KeywordLeg

LEMMA RefreshDueKeeps ==
    ASSUME KnowledgeInv, NEW s \in Refreshers, RefreshDue(s)
    PROVE  KnowledgeInv'
  <1>1. /\ pc[s] = "idle" /\ Goto(s, "lock") /\ s \in Procs /\ s \notin Requests
        /\ UNCHANGED <<writers, keyword, fresh, lock, answers, documents, mem, seen, calm>>
    BY Processes DEF RefreshDue, At, index, cache
  <1>2. mem' = [mem EXCEPT ![s] = mem'[s]] /\ mem'[s] \in Mem
    BY <1>1, Unmoved
  <1>3. Moves(s, "lock") /\ "lock" \in Steps
    BY <1>1, <1>2 DEF Moves, Goto, Steps, RefreshSteps
  <1>4. pc'[s] = "lock" /\ announced' = announced /\ Findable' = Findable
    BY <1>1, <1>3, MoveFacts
  <1>5. LockOK'
    BY <1>1, <1>3, LockStays DEF Holding
  <1>6. IndexOK' /\ CacheOK' /\ HistoryOK'
    BY <1>1, TypeParts DEF KnowledgeInv, IndexOK, CacheOK, HistoryOK
  <1>7. CurrentMeansCurrent' /\ CacheInv' /\ SnapshotInv(s)'
    BY <1>1, <1>4 DEF KnowledgeInv, CurrentMeansCurrent, CacheInv, SnapshotInv
  <1> QED BY <1>1, <1>3, <1>5, <1>6, <1>7, MoveKeeps

\* A step of a rebuild under the lock, for a question or a refresher.
LEMMA RefreshMoves ==
    ASSUME KnowledgeInv, NEW p \in Procs, NEW step \in RefreshSteps, Moves(p, step),
           pc[p] \in RefreshSteps,
           mem'[p].got = mem[p].got, mem'[p].answer = mem[p].answer,
           mem'[p].docs = mem[p].docs,
           UNCHANGED <<keyword, fresh, cache, seen, calm>>, LockOK', SnapshotInv(p)'
    PROVE  KnowledgeInv'
  <1>1. step \in Steps /\ step \notin Filtered /\ step \notin {"put documents", "put answer"}
    BY DEF Steps, RefreshSteps, Filtered
  <1>2. announced' = announced /\ Findable' = Findable
    BY <1>1, MoveFacts
  <1>3. UNCHANGED <<answers, documents>>
    BY DEF cache
  <1>4. IndexOK' /\ CacheOK' /\ HistoryOK'
    BY <1>3, TypeParts DEF KnowledgeInv, IndexOK, CacheOK, HistoryOK
  <1>5. CurrentMeansCurrent' /\ CacheInv'
    BY <1>2, <1>3 DEF KnowledgeInv, CurrentMeansCurrent, CacheInv
  <1>6. CASE p \in Requests
    <2>1. RequestInv(p)
      BY <1>6 DEF KnowledgeInv
    <2>2. Undisturbed(p)' = Undisturbed(p)
      BY <1>2 DEF Undisturbed
    <2>3. Undisturbed(p)' => mem'[p].got = {} \/ Findable \subseteq mem'[p].got
      BY <2>1, <2>2 DEF RequestInv
    <2>4. pc[p] # "idle" /\ UNCHANGED <<seen, calm>>
      BY DEF RefreshSteps
    <2> QED BY <1>1, <1>4, <1>5, <1>6, <2>3, <2>4, QuestionMoves
  <1>7. CASE p \notin Requests
    <2>1. \A r \in Requests \ {p} : seen'[r] = seen[r] /\ calm'[r] = calm[r]
      OBVIOUS
    <2> QED BY <1>1, <1>4, <1>5, <1>7, <2>1, MoveKeeps
  <1> QED BY <1>6, <1>7

LEMMA LockIndexKeeps ==
    ASSUME KnowledgeInv, NEW p \in Procs, LockIndex(p)
    PROVE  KnowledgeInv'
  <1>1. /\ pc[p] = "lock" /\ lock[ServerOf(p)] = None /\ ServerOf(p) \in Servers
        /\ UNCHANGED <<writers, keyword, fresh, cache, seen, calm>>
        /\ UNCHANGED <<published, points, announced>>
    BY Processes DEF LockIndex, At, writers
  <1>2. pc[p] \notin Holding /\ pc[p] \in RefreshSteps
    BY <1>1 DEF Holding, RefreshSteps
  <1>3. IndexOK' /\ CurrentMeansCurrent'
    BY <1>1, SameKnowledge, TypeParts DEF KnowledgeInv, IndexOK, CurrentMeansCurrent
  <1>4. CASE Search(p, {}) /\ UNCHANGED lock
    BY <1>1, <1>2, <1>3, <1>4, SearchMoves
  <1>5. CASE fresh[ServerOf(p)] /\ Search(p, keyword[ServerOf(p)]) /\ UNCHANGED lock
    <2>1. keyword[ServerOf(p)] \in SUBSET Evidence
      BY <1>1, TypeParts DEF KnowledgeInv, IndexOK
    <2>2. announced => Findable \subseteq keyword[ServerOf(p)]
      BY <1>1, <1>5 DEF KnowledgeInv, CurrentMeansCurrent
    <2> QED BY <1>1, <1>2, <1>3, <1>5, <2>1, <2>2, SearchMoves
  <1>6. ASSUME NEW e \in ReadEpoch, lock' = [lock EXCEPT ![ServerOf(p)] = p],
               Goto(p, "list"), mem' = [mem EXCEPT ![p].snapshot = e]
        PROVE  KnowledgeInv'
    <2>1. /\ mem' = [mem EXCEPT ![p] = mem'[p]] /\ mem'[p] \in Mem
          /\ mem'[p].got = mem[p].got /\ mem'[p].answer = mem[p].answer
          /\ mem'[p].docs = mem[p].docs
      BY <1>6, SnapshotAt
    <2>2. Moves(p, "list") /\ "list" \in RefreshSteps /\ "list" \in Steps /\ "list" \in Holding
      BY <1>1, <1>6, <2>1 DEF Moves, Goto, Steps, RefreshSteps, Holding
    <2>3. LockOK'
      BY <1>1, <1>2, <1>6, <2>2, LockTaken
    <2>4. pc'[p] = "list"
      BY <2>2, MoveFacts
    <2>5. SnapshotInv(p)'
      BY <2>4 DEF SnapshotInv
    <2> QED BY <1>1, <1>2, <2>1, <2>2, <2>3, <2>5, RefreshMoves
  <1> QED BY <1>4, <1>5, <1>6 DEF LockIndex

LEMMA ListChunksKeeps ==
    ASSUME KnowledgeInv, NEW p \in Procs, ListChunks(p)
    PROVE  KnowledgeInv'
  <1>1. /\ pc[p] = "list" /\ TakeChunks(p, Vectors) /\ Goto(p, "filter chunks")
        /\ UNCHANGED <<writers, keyword, fresh, lock, cache, seen, calm>>
    BY DEF ListChunks, At, index
  <1>2. Vectors \in SUBSET Evidence
    BY VectorsFilter
  <1>3. /\ mem' = [mem EXCEPT ![p] = mem'[p]] /\ mem'[p] \in Mem
        /\ mem'[p].chunks = Vectors
        /\ mem'[p].got = mem[p].got /\ mem'[p].answer = mem[p].answer
        /\ mem'[p].docs = mem[p].docs
    BY <1>1, <1>2, TakeChunksAt
  <1>4. Moves(p, "filter chunks") /\ "filter chunks" \in RefreshSteps
        /\ "filter chunks" \in Steps /\ "filter chunks" \in Holding
        /\ pc[p] \in Holding /\ pc[p] \in RefreshSteps
    BY <1>1, <1>3 DEF Moves, Goto, Steps, RefreshSteps, Holding
  <1>5. LockOK'
    BY <1>1, <1>4, LockStays
  <1>6. pc'[p] = "filter chunks" /\ Published' = Published /\ Findable' = Findable
    BY <1>4, MoveFacts
  <1>7. SnapshotInv(p)'
    BY <1>3, <1>6, VectorsFilter DEF SnapshotInv
  <1> QED BY <1>1, <1>3, <1>4, <1>5, <1>7, RefreshMoves

LEMMA FilterChunksKeeps ==
    ASSUME KnowledgeInv, NEW p \in Procs, FilterChunks(p)
    PROVE  KnowledgeInv'
  <1>1. /\ pc[p] = "filter chunks" /\ TakeChunks(p, mem[p].chunks \cap Published)
        /\ Goto(p, "rebuild")
        /\ UNCHANGED <<writers, keyword, fresh, lock, cache, seen, calm>>
    BY DEF FilterChunks, At, index
  <1>2. mem[p].chunks \cap Published \in SUBSET Evidence
    BY FindableAt
  <1>3. /\ mem' = [mem EXCEPT ![p] = mem'[p]] /\ mem'[p] \in Mem
        /\ mem'[p].chunks = mem[p].chunks \cap Published
        /\ mem'[p].snapshot = mem[p].snapshot
        /\ mem'[p].got = mem[p].got /\ mem'[p].answer = mem[p].answer
        /\ mem'[p].docs = mem[p].docs
    BY <1>1, <1>2, TakeChunksAt
  <1>4. Moves(p, "rebuild") /\ "rebuild" \in RefreshSteps
        /\ "rebuild" \in Steps /\ "rebuild" \in Holding
        /\ pc[p] \in Holding /\ pc[p] \in RefreshSteps
    BY <1>1, <1>3 DEF Moves, Goto, Steps, RefreshSteps, Holding
  <1>5. LockOK'
    BY <1>1, <1>4, LockStays
  <1>6. pc'[p] = "rebuild" /\ Findable' = Findable /\ announced' = announced
    BY <1>4, MoveFacts
  <1>7. SnapshotInv(p)
    BY DEF KnowledgeInv
  <1>8. SnapshotInv(p)'
    BY <1>1, <1>3, <1>6, <1>7 DEF SnapshotInv
  <1> QED BY <1>1, <1>3, <1>4, <1>5, <1>8, RefreshMoves

\* An index is taken to be of the epoch only if the snapshot was taken in it.
LEMMA RebuildKeeps ==
    ASSUME KnowledgeInv, NEW p \in Procs, Rebuild(p)
    PROVE  KnowledgeInv'
  <1>1. PICK e \in ReadEpoch :
            /\ e = mem[p].snapshot
            /\ keyword' = [keyword EXCEPT ![ServerOf(p)] = mem[p].chunks]
            /\ fresh' = [fresh EXCEPT ![ServerOf(p)] = e = "current"]
            /\ lock' = [lock EXCEPT ![ServerOf(p)] = None]
            /\ Search(p, IF e = "unavailable" THEN {} ELSE mem[p].chunks)
    BY DEF Rebuild
  <1>2. /\ pc[p] = "rebuild" /\ ServerOf(p) \in Servers
        /\ UNCHANGED <<writers, cache, seen, calm>>
        /\ UNCHANGED <<published, points, announced>>
    BY Processes DEF Rebuild, At, writers
  <1>3. pc[p] \in Holding /\ pc[p] \in RefreshSteps
    BY <1>2 DEF Holding, RefreshSteps
  <1>4. /\ IndexOK /\ mem[p].chunks \in SUBSET Evidence
    BY TypeParts DEF KnowledgeInv, ProgramOK, Mem
  <1>5. announced /\ e = "current" => mem[p].chunks = Findable
    BY <1>1, <1>2 DEF KnowledgeInv, SnapshotInv
  <1>6. (e = "current") \in BOOLEAN
    OBVIOUS
  <1>7. IndexOK'
    BY <1>1, <1>4, <1>6 DEF IndexOK
  <1>8. CurrentMeansCurrent'
    <2>1. SUFFICES ASSUME NEW s \in Servers, announced, fresh'[s] PROVE keyword'[s] = Findable
      BY <1>2, SameKnowledge DEF CurrentMeansCurrent
    <2>2. CASE s = ServerOf(p)
      <3>1. keyword'[s] = mem[p].chunks /\ fresh'[s] = (e = "current")
        BY <1>1, <1>4, <2>2 DEF IndexOK
      <3> QED BY <1>5, <2>1, <3>1
    <2>3. CASE s # ServerOf(p)
      <3>1. keyword'[s] = keyword[s] /\ fresh'[s] = fresh[s]
        BY <1>1, <1>4, <2>3 DEF IndexOK
      <3> QED BY <2>1, <3>1 DEF KnowledgeInv, CurrentMeansCurrent
    <2> QED BY <2>2, <2>3
  <1>9. CASE e = "unavailable"
    <2>1. Search(p, {})
      BY <1>1, <1>9
    <2> QED BY <1>1, <1>2, <1>3, <1>7, <1>8, <2>1, SearchMoves
  <1>10. CASE e = "current"
    <2>1. Search(p, mem[p].chunks)
      BY <1>1, <1>10
    <2> QED BY <1>1, <1>2, <1>3, <1>4, <1>5, <1>7, <1>8, <1>10, <2>1, SearchMoves
  <1> QED BY <1>9, <1>10 DEF ReadEpoch

LEMMA TakeAnotherKeeps ==
    ASSUME KnowledgeInv, NEW p \in Procs, TakeAnother(p)
    PROVE  KnowledgeInv'
  <1>1. /\ pc[p] = "rebuild" /\ ServerOf(p) \in Servers
        /\ UNCHANGED <<writers, keyword, cache, seen, calm>>
        /\ UNCHANGED <<published, points, announced>>
    BY Processes DEF TakeAnother, At, writers
  <1>2. pc[p] \in Holding /\ pc[p] \in RefreshSteps
    BY <1>1 DEF Holding, RefreshSteps
  <1>3. ASSUME mem[p].tries + 1 < MaxTries, Goto(p, "list"), NEW next \in ReadEpoch,
               mem' = [mem EXCEPT ![p].snapshot = next, ![p].tries = @ + 1, ![p].chunks = {}],
               UNCHANGED <<fresh, lock>>
        PROVE  KnowledgeInv'
    <2>1. mem \in [Procs -> Mem] /\ mem[p] \in Mem
      BY TypeParts DEF KnowledgeInv, ProgramOK
    <2>2. mem'[p] = [mem[p] EXCEPT !.snapshot = next, !.tries = mem[p].tries + 1, !.chunks = {}]
      BY <1>3, <2>1
    <2>3. mem' = [mem EXCEPT ![p] = mem'[p]]
      BY <1>3, <2>1
    <2>4. mem[p].tries + 1 \in 0..MaxTries - 1
      <3>1. mem[p].tries \in 0..MaxTries - 1
        BY <2>1 DEF Mem
      <3> QED BY <1>3, <3>1, Bounds
    <2>5. /\ mem'[p] \in Mem /\ mem'[p].got = mem[p].got
          /\ mem'[p].answer = mem[p].answer /\ mem'[p].docs = mem[p].docs
      <3>1. mem'[p] = [answer |-> mem[p].answer, docs |-> mem[p].docs, snapshot |-> next,
                       tries |-> mem[p].tries + 1, chunks |-> {}, got |-> mem[p].got]
        BY <2>1, <2>2 DEF Mem
      <3>2. /\ mem[p].answer \in BOOLEAN /\ mem[p].docs \in BOOLEAN
            /\ mem[p].got \in SUBSET Evidence
        BY <2>1 DEF Mem
      <3> QED BY <2>4, <3>1, <3>2 DEF Mem, ReadEpoch
    <2>6. Moves(p, "list") /\ "list" \in RefreshSteps /\ "list" \in Steps /\ "list" \in Holding
      BY <1>1, <1>3, <2>3, <2>5 DEF Moves, Goto, Steps, RefreshSteps, Holding
    <2>7. LockOK'
      BY <1>2, <1>3, <2>6, LockStays
    <2>8. pc'[p] = "list"
      BY <2>6, MoveFacts
    <2>9. SnapshotInv(p)'
      BY <2>8 DEF SnapshotInv
    <2> QED BY <1>1, <1>2, <1>3, <2>5, <2>6, <2>7, <2>9, RefreshMoves
  <1>4. ASSUME fresh' = [fresh EXCEPT ![ServerOf(p)] = FALSE],
               lock' = [lock EXCEPT ![ServerOf(p)] = None], Search(p, {})
        PROVE  KnowledgeInv'
    <2>1. IndexOK
      BY TypeParts DEF KnowledgeInv
    <2>2. IndexOK' /\ CurrentMeansCurrent'
      <3>1. fresh' \in [Servers -> BOOLEAN] /\ \A s \in Servers : fresh'[s] => fresh[s]
        BY <1>4, <2>1 DEF IndexOK
      <3> QED BY <1>1, <2>1, <3>1, SameKnowledge DEF KnowledgeInv, IndexOK, CurrentMeansCurrent
    <2> QED BY <1>1, <1>2, <1>4, <2>2, SearchMoves
  <1> QED BY <1>3, <1>4 DEF TakeAnother

LEMMA RefreshFailsKeeps ==
    ASSUME KnowledgeInv, NEW p \in Procs, RefreshFails(p)
    PROVE  KnowledgeInv'
  <1>1. /\ pc[p] \in {"list", "filter chunks"} /\ Search(p, {})
        /\ lock' = [lock EXCEPT ![ServerOf(p)] = None]
        /\ UNCHANGED <<writers, keyword, fresh, cache, seen, calm>>
        /\ UNCHANGED <<published, points, announced>>
    BY DEF RefreshFails, writers
  <1>2. pc[p] \in Holding /\ pc[p] \in RefreshSteps
    BY <1>1 DEF Holding, RefreshSteps
  <1>3. IndexOK' /\ CurrentMeansCurrent'
    BY <1>1, SameKnowledge, TypeParts DEF KnowledgeInv, IndexOK, CurrentMeansCurrent
  <1> QED BY <1>1, <1>2, <1>3, SearchMoves

LEMMA AskKeeps ==
    ASSUME KnowledgeInv, NEW r \in Requests, Ask(r)
    PROVE  KnowledgeInv'
  <1>1. /\ pc[r] = "idle" /\ pc' = [pc EXCEPT ![r] = "find answer"]
        /\ mem' = [mem EXCEPT ![r] = [NoMem EXCEPT !.answer = TRUE]]
        /\ seen' = [seen EXCEPT ![r] = {published}] /\ calm' = [calm EXCEPT ![r] = announced]
        /\ UNCHANGED <<writers, keyword, fresh, lock, answers, documents>>
    BY DEF Ask, At, Goto, Unchanging, index, cache
  <1>2. r \in Procs /\ HistoryOK /\ ProgramOK /\ IndexOK /\ CacheOK /\ WritersOK
    BY Processes, TypeParts DEF KnowledgeInv
  <1>3. /\ mem'[r] = [NoMem EXCEPT !.answer = TRUE]
        /\ mem'[r] \in Mem /\ mem'[r].docs = FALSE /\ mem'[r].snapshot = "past"
    <2>1. mem'[r] = [NoMem EXCEPT !.answer = TRUE]
      BY <1>1, <1>2 DEF ProgramOK
    <2>2. 0 \in 0..MaxTries - 1
      BY Bounds
    <2> QED BY <2>1, <2>2 DEF NoMem, Mem
  <1>4. mem' = [mem EXCEPT ![r] = mem'[r]]
    BY <1>1, <1>3
  <1>5. Moves(r, "find answer") /\ "find answer" \in Steps
    BY <1>1, <1>3, <1>4 DEF Moves, Steps, TurnSteps
  <1>6. /\ pc'[r] = "find answer" /\ announced' = announced /\ published' = published
        /\ Findable' = Findable
    BY <1>2, <1>5, MoveFacts
  <1>7. LockOK'
    BY <1>1, <1>2, <1>5, LockStays DEF Holding
  <1>8. IndexOK' /\ CacheOK' /\ CurrentMeansCurrent' /\ CacheInv' /\ SnapshotInv(r)'
    BY <1>1, <1>2, <1>3, <1>6
    DEF KnowledgeInv, IndexOK, CacheOK, CurrentMeansCurrent, CacheInv, SnapshotInv
  <1>9. /\ HistoryOK' /\ seen'[r] = {published} /\ calm'[r] = announced
        /\ \A q \in Requests \ {r} : seen'[q] = seen[q] /\ calm'[q] = calm[q]
    BY <1>1, <1>2 DEF HistoryOK, WritersOK
  <1>10. RequestInv(r)'
    BY <1>6, <1>9 DEF RequestInv, Filtered, RefreshSteps
  <1> QED BY <1>2, <1>5, <1>7, <1>8, <1>9, <1>10, MoveKeeps

\* What a question knows of the registry and of its evidence as it moves on.
LEMMA QuestionFacts ==
    ASSUME KnowledgeInv, NEW r \in Requests
    PROVE  /\ r \in Procs /\ RequestInv(r) /\ mem[r] \in Mem /\ mem[r].got \in SUBSET Evidence
           /\ pc[r] # "idle" => published \in seen[r]
           /\ Undisturbed(r) => announced
           /\ mem[r].docs /\ announced => Undisturbed(r)
           /\ pc[r] # "idle" /\ mem[r].answer /\ announced => Undisturbed(r)
           /\ Undisturbed(r) /\ pc[r] \in Filtered => Findable \subseteq mem[r].got
  <1>1. r \in Procs /\ RequestInv(r)
    BY Processes DEF KnowledgeInv
  <1>2. mem[r] \in Mem
    BY <1>1, TypeParts DEF KnowledgeInv, ProgramOK
  <1>3. Undisturbed(r) => announced
    BY <1>1 DEF RequestInv, Undisturbed
  <1>4. /\ mem[r].docs /\ announced => Undisturbed(r)
        /\ pc[r] # "idle" /\ mem[r].answer /\ announced => Undisturbed(r)
    BY <1>1 DEF RequestInv, Undisturbed
  <1>5. mem[r].got \in SUBSET Evidence
    BY <1>2 DEF Mem
  <1> QED BY <1>1, <1>2, <1>3, <1>4, <1>5 DEF RequestInv

\* A step that leaves the evidence as it is.
LEMMA QuestionPasses ==
    ASSUME KnowledgeInv, NEW r \in Requests, NEW step \in Steps, Goto(r, step), UNCHANGED mem,
           UNCHANGED <<writers, index, cache, seen, calm>>, pc[r] # "idle",
           pc[r] \notin Holding, step \notin Holding \cup RefreshSteps \cup {"keyword", "filter"},
           step \in {"put documents", "put answer"} =>
               \E registry \in seen[r] : Holds(registry, mem[r].got),
           Undisturbed(r) /\ step \in Filtered => Findable \subseteq mem[r].got
    PROVE  KnowledgeInv'
  <1>1. r \in Procs /\ announced' = announced
    BY Processes DEF writers
  <1>2. mem' = [mem EXCEPT ![r] = mem'[r]] /\ mem'[r] \in Mem /\ mem'[r] = mem[r]
    BY <1>1, Unmoved
  <1>3. Moves(r, step)
    BY <1>2 DEF Moves, Goto
  <1>4. Undisturbed(r)' = Undisturbed(r)
    BY <1>1, <1>2 DEF Undisturbed
  <1> QED BY <1>2, <1>3, <1>4, QuestionReads

\* A step that takes new evidence.
LEMMA QuestionTakes ==
    ASSUME KnowledgeInv, NEW r \in Requests, NEW step \in Steps, Goto(r, step),
           NEW evidence \in SUBSET Evidence, Take(r, evidence),
           UNCHANGED <<writers, index, cache, seen, calm>>, pc[r] # "idle",
           pc[r] \notin Holding, step \notin RefreshSteps,
           step \in {"put documents", "put answer"} => Holds(published, evidence),
           Undisturbed(r) /\ step \in Filtered => Findable \subseteq evidence,
           Undisturbed(r) /\ step \in {"keyword", "filter"} =>
               evidence = {} \/ Findable \subseteq evidence
    PROVE  KnowledgeInv'
  <1>1. r \in Procs /\ announced' = announced /\ published \in seen[r]
    BY QuestionFacts DEF writers
  <1>2. /\ mem' = [mem EXCEPT ![r] = mem'[r]] /\ mem'[r] \in Mem
        /\ mem'[r].got = evidence /\ mem'[r].answer = mem[r].answer
        /\ mem'[r].docs = mem[r].docs
    BY <1>1, TakeAt
  <1>3. Moves(r, step) /\ step \notin Holding
    BY <1>2 DEF Moves, Goto, Holding, RefreshSteps
  <1>4. Undisturbed(r)' = Undisturbed(r)
    BY <1>1, <1>2 DEF Undisturbed
  <1>5. step \in {"put documents", "put answer"} =>
            \E registry \in seen[r] : Holds(registry, mem'[r].got)
    BY <1>1, <1>2
  <1> QED BY <1>2, <1>3, <1>4, <1>5, QuestionReads

LEMMA FindAnswerKeeps ==
    ASSUME KnowledgeInv, NEW r \in Requests, FindAnswer(r)
    PROVE  KnowledgeInv'
  <1>1. /\ pc[r] = "find answer" /\ pc[r] # "idle" /\ pc[r] \notin Holding
        /\ UNCHANGED <<writers, index, cache, seen, calm>>
    BY DEF FindAnswer, At, Unchanging, Holding
  <1>2. CASE Goto(r, "capture") /\ UNCHANGED mem
    <2>1. "capture" \in Steps
      BY DEF Steps, TurnSteps
    <2> QED BY <1>1, <1>2, <2>1, QuestionPasses DEF Holding, RefreshSteps, Filtered
  <1>3. CASE answers # {} /\ Goto(r, "check answer") /\ Take(r, answers)
    <2>1. answers \in SUBSET Evidence /\ (Undisturbed(r) => Findable \subseteq answers)
      BY <1>3, QuestionFacts DEF KnowledgeInv, TypeOK, CacheInv
    <2>2. "check answer" \in Steps
      BY DEF Steps, TurnSteps
    <2> QED BY <1>1, <1>3, <2>1, <2>2, QuestionTakes DEF RefreshSteps
  <1> QED BY <1>2, <1>3 DEF FindAnswer

\* What is found published is given, or put aside.
LEMMA CheckKeeps ==
    ASSUME KnowledgeInv, NEW r \in Requests, pc[r] \in {"check answer", "check documents"},
           NEW next \in {"capture", "vector"},
           \/ mem[r].got \subseteq Published /\ Goto(r, "put answer") /\ UNCHANGED mem
           \/ Goto(r, next) /\ Take(r, {}),
           UNCHANGED <<writers, index, cache, seen, calm>>
    PROVE  KnowledgeInv'
  <1>1. pc[r] # "idle" /\ pc[r] \notin Holding /\ pc[r] \in Filtered
    BY DEF Holding, Filtered
  <1>2. CASE mem[r].got \subseteq Published /\ Goto(r, "put answer") /\ UNCHANGED mem
    <2>1. "put answer" \in Steps
      BY DEF Steps, TurnSteps
    <2>2. published \in seen[r] /\ Holds(published, mem[r].got)
      BY <1>1, <1>2, QuestionFacts, PublishedHolds
    <2>3. Undisturbed(r) => Findable \subseteq mem[r].got
      BY <1>1, QuestionFacts
    <2> QED BY <1>1, <1>2, <2>1, <2>2, <2>3, QuestionPasses DEF Holding, RefreshSteps
  <1>3. CASE Goto(r, next) /\ Take(r, {})
    <2>1. next \in Steps /\ next \notin RefreshSteps
      BY DEF Steps, TurnSteps, RefreshSteps
    <2> QED BY <1>1, <1>3, <2>1, QuestionTakes DEF Filtered
  <1> QED BY <1>2, <1>3

LEMMA CaptureEpochKeeps ==
    ASSUME KnowledgeInv, NEW r \in Requests, CaptureEpoch(r)
    PROVE  KnowledgeInv'
  <1>1. /\ pc[r] = "capture" /\ pc[r] # "idle" /\ pc[r] \notin Holding
        /\ mem' = [mem EXCEPT ![r].docs = TRUE] /\ Goto(r, "find documents")
        /\ UNCHANGED <<writers, index, cache, seen, calm>>
    BY DEF CaptureEpoch, At, Unchanging, Holding
  <1>2. r \in Procs /\ mem[r] \in Mem /\ mem \in [Procs -> Mem]
    BY QuestionFacts, TypeParts DEF KnowledgeInv, ProgramOK
  <1>3. mem'[r] = [mem[r] EXCEPT !.docs = TRUE] /\ mem' = [mem EXCEPT ![r] = mem'[r]]
    BY <1>1, <1>2
  <1>4. mem'[r] \in Mem /\ mem'[r].answer = mem[r].answer
    BY <1>2, <1>3 DEF Mem
  <1>5. Moves(r, "find documents") /\ "find documents" \in Steps
    BY <1>1, <1>3, <1>4 DEF Moves, Goto, Steps, TurnSteps
  <1> QED BY <1>1, <1>4, <1>5, QuestionReads DEF Holding, Filtered, RefreshSteps

LEMMA FindDocumentsKeeps ==
    ASSUME KnowledgeInv, NEW r \in Requests, FindDocuments(r)
    PROVE  KnowledgeInv'
  <1>1. /\ pc[r] = "find documents" /\ pc[r] # "idle" /\ pc[r] \notin Holding
        /\ UNCHANGED <<writers, index, cache, seen, calm>>
    BY DEF FindDocuments, At, Unchanging, Holding
  <1>2. CASE Goto(r, "vector") /\ UNCHANGED mem
    <2>1. "vector" \in Steps
      BY DEF Steps, TurnSteps
    <2> QED BY <1>1, <1>2, <2>1, QuestionPasses DEF Holding, RefreshSteps, Filtered
  <1>3. CASE documents # {} /\ Goto(r, "check documents") /\ Take(r, documents)
    <2>1. documents \in SUBSET Evidence /\ (Undisturbed(r) => Findable \subseteq documents)
      BY <1>3, QuestionFacts DEF KnowledgeInv, TypeOK, CacheInv
    <2>2. "check documents" \in Steps
      BY DEF Steps, TurnSteps
    <2> QED BY <1>1, <1>3, <2>1, <2>2, QuestionTakes DEF RefreshSteps
  <1> QED BY <1>2, <1>3 DEF FindDocuments

LEMMA VectorLegKeeps ==
    ASSUME KnowledgeInv, NEW r \in Requests, VectorLeg(r)
    PROVE  KnowledgeInv'
  <1>1. PICK found \in {Vectors, {}} : Take(r, found)
    BY DEF VectorLeg
  <1>2. /\ pc[r] = "vector" /\ pc[r] # "idle" /\ pc[r] \notin Holding /\ Goto(r, "keyword")
        /\ UNCHANGED <<writers, index, cache, seen, calm>>
    BY DEF VectorLeg, At, Unchanging, Holding
  <1>3. found \in SUBSET Evidence /\ (found = {} \/ Findable \subseteq found)
    BY VectorsFilter
  <1>4. "keyword" \in Steps
    BY DEF Steps, TurnSteps
  <1> QED BY <1>1, <1>2, <1>3, <1>4, QuestionTakes DEF RefreshSteps, Filtered

\* The legs, and the node once more, keep of their hits what is published.
LEMMA FilterKeeps ==
    ASSUME KnowledgeInv, NEW r \in Requests, FilterLegs(r) \/ FilterHits(r)
    PROVE  KnowledgeInv'
  <1>1. /\ pc[r] \in {"filter", "filter again"} /\ pc[r] # "idle" /\ pc[r] \notin Holding
        /\ UNCHANGED <<writers, index, cache>> /\ UNCHANGED <<answers, documents>>
    BY DEF FilterLegs, FilterHits, At, Unchanging, Holding, cache
  <1>2. mem[r].got \cap Published \in SUBSET Evidence
        /\ Holds(published, mem[r].got \cap Published)
    BY FindableAt, PublishedHolds
  <1>3. CASE End(r)
    <2>1. announced' = announced /\ Findable' = Findable
      BY <1>1, SameKnowledge DEF writers
    <2>2. CacheOK' /\ CacheInv'
      BY <1>1, <2>1, TypeParts DEF KnowledgeInv, CacheOK, CacheInv
    <2> QED BY <1>1, <1>3, <2>2, EndKeeps
  <1>4. ASSUME NEW step \in {"filter again", "put documents"}, Goto(r, step),
               Take(r, mem[r].got \cap Published), UNCHANGED <<seen, calm>>,
               pc[r] = "filter" => mem[r].got # {}
        PROVE  KnowledgeInv'
    <2>1. Undisturbed(r) => Findable \subseteq mem[r].got
      BY <1>1, <1>4, QuestionFacts DEF RequestInv, Filtered
    <2>2. Undisturbed(r) => Findable \subseteq mem[r].got \cap Published
      BY <2>1, FindableAt
    <2>3. step \in Steps /\ step \notin RefreshSteps /\ step \notin {"keyword", "filter"}
      BY DEF Steps, TurnSteps, RefreshSteps
    <2> QED BY <1>1, <1>2, <1>4, <2>2, <2>3, QuestionTakes
  <1> QED BY <1>3, <1>4 DEF FilterLegs, FilterHits, At

\* Evidence is stored only if it was looked for under the epoch of now, and
\* then nothing changed since.
LEMMA PutDocumentsKeeps ==
    ASSUME KnowledgeInv, NEW r \in Requests, PutDocuments(r)
    PROVE  KnowledgeInv'
  <1>1. /\ pc[r] = "put documents" /\ pc[r] # "idle" /\ pc[r] \notin Holding /\ pc[r] \in Filtered
        /\ Goto(r, "put answer") /\ UNCHANGED <<mem, seen, calm, answers>>
        /\ UNCHANGED <<writers, keyword, fresh, lock>>
    BY DEF PutDocuments, At, Unchanging, Holding, Filtered, index
  <1>2. r \in Procs /\ mem[r].got \in SUBSET Evidence /\ RequestInv(r)
    BY QuestionFacts
  <1>3. mem' = [mem EXCEPT ![r] = mem'[r]] /\ mem'[r] \in Mem /\ mem'[r] = mem[r]
    BY <1>1, <1>2, Unmoved
  <1>4. Moves(r, "put answer") /\ "put answer" \in Steps /\ "put answer" \notin Holding
    BY <1>1, <1>3 DEF Moves, Goto, Steps, TurnSteps, Holding
  <1>5. pc'[r] = "put answer" /\ announced' = announced /\ Findable' = Findable
    BY <1>2, <1>4, MoveFacts
  <1>6. LockOK'
    BY <1>1, <1>2, <1>4, LockStays
  <1>7. CacheOK' /\ CacheInv'
    <2>1. CASE UNCHANGED documents
      BY <1>1, <1>5, <2>1, TypeParts DEF KnowledgeInv, CacheOK, CacheInv
    <2>2. CASE mem[r].docs /\ documents' = mem[r].got
      <3>1. announced => Findable \subseteq mem[r].got
        BY <1>1, <2>2, QuestionFacts
      <3>2. CacheOK /\ CacheInv
        BY TypeParts DEF KnowledgeInv
      <3>3. CacheOK'
        BY <1>1, <1>2, <2>2, <3>2 DEF CacheOK
      <3>4. CacheInv'
        BY <1>1, <1>5, <2>2, <3>1, <3>2 DEF CacheInv
      <3> QED BY <3>3, <3>4
    <2> QED BY <2>1, <2>2 DEF PutDocuments
  <1>8. IndexOK' /\ CurrentMeansCurrent' /\ SnapshotInv(r)'
    BY <1>1, <1>5, TypeParts DEF KnowledgeInv, IndexOK, CurrentMeansCurrent, SnapshotInv
  <1>9. \E registry \in seen[r] : Holds(registry, mem'[r].got)
    BY <1>1, <1>2, <1>3 DEF RequestInv
  <1>10. Undisturbed(r)' => Findable \subseteq mem'[r].got
    <2>1. Undisturbed(r)' = Undisturbed(r)
      BY <1>1, <1>3, <1>5 DEF Undisturbed
    <2> QED BY <1>1, <1>3, <2>1, QuestionFacts
  <1>11. "put answer" \notin RefreshSteps \cup {"keyword", "filter"} /\ UNCHANGED <<seen, calm>>
    BY <1>1 DEF RefreshSteps
  <1> QED BY <1>1, <1>3, <1>4, <1>6, <1>7, <1>8, <1>9, <1>10, <1>11, QuestionMoves

LEMMA PutAnswerKeeps ==
    ASSUME KnowledgeInv, NEW r \in Requests, PutAnswer(r)
    PROVE  KnowledgeInv'
  <1>1. /\ pc[r] = "put answer" /\ pc[r] # "idle" /\ pc[r] \notin Holding /\ pc[r] \in Filtered
        /\ End(r) /\ UNCHANGED <<writers, index, documents>>
    BY DEF PutAnswer, At, Unchanging, Holding, Filtered
  <1>2. announced' = announced /\ Findable' = Findable
    BY <1>1, SameKnowledge DEF writers
  <1>3. CacheOK /\ CacheInv
    BY TypeParts DEF KnowledgeInv
  <1>4. CacheOK' /\ CacheInv'
    <2>1. CASE UNCHANGED answers
      BY <1>1, <1>2, <1>3, <2>1 DEF CacheOK, CacheInv
    <2>2. CASE mem[r].answer /\ answers' = mem[r].got
      <3>1. mem[r].got \in SUBSET Evidence /\ (announced => Findable \subseteq mem[r].got)
        BY <1>1, <2>2, QuestionFacts
      <3>2. CacheOK'
        BY <1>1, <1>3, <2>2, <3>1 DEF CacheOK
      <3>3. CacheInv'
        BY <1>1, <1>2, <1>3, <2>2, <3>1 DEF CacheInv
      <3> QED BY <3>2, <3>3
    <2> QED BY <2>1, <2>2 DEF PutAnswer
  <1>5. UNCHANGED <<writers, index>>
    BY <1>1
  <1> QED BY <1>1, <1>4, <1>5, EndKeeps

LEMMA TurnKeeps ==
    ASSUME KnowledgeInv, NEW r \in Requests, Turn(r)
    PROVE  KnowledgeInv'
  <1>1. CASE CheckAnswer(r)
    <2>1. /\ pc[r] \in {"check answer", "check documents"}
          /\ UNCHANGED <<writers, index, cache, seen, calm>>
          /\ \/ mem[r].got \subseteq Published /\ Goto(r, "put answer") /\ UNCHANGED mem
             \/ Goto(r, "capture") /\ Take(r, {})
      BY <1>1 DEF CheckAnswer, At, Unchanging
    <2> QED BY <2>1, CheckKeeps
  <1>2. CASE CheckDocuments(r)
    <2>1. /\ pc[r] \in {"check answer", "check documents"}
          /\ UNCHANGED <<writers, index, cache, seen, calm>>
          /\ \/ mem[r].got \subseteq Published /\ Goto(r, "put answer") /\ UNCHANGED mem
             \/ Goto(r, "vector") /\ Take(r, {})
      BY <1>2 DEF CheckDocuments, At, Unchanging
    <2> QED BY <2>1, CheckKeeps
  <1> QED BY <1>1, <1>2, FindAnswerKeeps, CaptureEpochKeeps, FindDocumentsKeeps, VectorLegKeeps,
             KeywordLegKeeps, FilterKeeps, PutDocumentsKeeps, PutAnswerKeeps DEF Turn

LEMMA ChangeKeeps ==
    ASSUME KnowledgeInv, NEW d \in Docs, Change(d)
    PROVE  KnowledgeInv'
BY BeginKeeps, UpsertKeeps, RetireKeeps, ReplaceFailsKeeps, PublishKeywordKeeps,
   PurgeKeywordKeeps, DeletePointsKeeps, RotateKeeps, CommitKeeps, CommitDeletionKeeps,
   CrashKeeps DEF Change

LEMMA StutterKeeps ==
    ASSUME KnowledgeInv, UNCHANGED vars
    PROVE  KnowledgeInv'
  <1>1. UNCHANGED <<published, points, job, changes, keyword, fresh, lock, answers, documents,
                    pc, mem, announced, seen, calm>>
    BY DEF vars
  <1>2. UNCHANGED <<published, points, Reading, history>>
    BY <1>1 DEF Reading, history, cache
  <1>3. /\ job' \in [Docs -> [step : JobSteps, rev : 0..MaxRevision]]
        /\ changes' \in 0..MaxChanges /\ lock' = lock /\ IndexOK'
    BY <1>1 DEF KnowledgeInv, TypeOK, IndexOK
  <1>4. \A d \in Docs : JobInv(d)'
    BY <1>1 DEF KnowledgeInv, JobInv
  <1>5. CurrentMeansCurrent'
    BY <1>1, SameKnowledge DEF KnowledgeInv, CurrentMeansCurrent
  <1> QED BY <1>2, <1>3, <1>4, <1>5, QuietKeeps

LEMMA StepKeeps == KnowledgeInv /\ [Next]_vars => KnowledgeInv'
  <1> SUFFICES ASSUME KnowledgeInv, [Next]_vars PROVE KnowledgeInv' OBVIOUS
  <1>1. CASE UNCHANGED vars
    BY <1>1, StutterKeeps
  <1>2. CASE \E p \in Procs : Refresh(p) \/ RefreshFails(p)
    BY <1>2, LockIndexKeeps, ListChunksKeeps, FilterChunksKeeps, RebuildKeeps,
       TakeAnotherKeeps, RefreshFailsKeeps DEF Refresh
  <1>3. CASE \E r \in Requests : Ask(r) \/ Turn(r)
    BY <1>3, AskKeeps, TurnKeeps
  <1>4. CASE \E s \in Refreshers : RefreshDue(s)
    BY <1>4, RefreshDueKeeps
  <1>5. CASE (\E d \in Docs : Change(d)) \/ Flush
    BY <1>5, ChangeKeeps, FlushKeeps
  <1> QED BY <1>1, <1>2, <1>3, <1>4, <1>5 DEF Next

----------------------------------------------------------------------------
(* Theorems.                                                               *)

\* The inductive invariant: documents, indexes, caches, epochs and the
\* evidence of every question fit together at every step.
THEOREM KnowledgeInvariant == Spec => []KnowledgeInv
  <1>1. Init => KnowledgeInv
    BY Initially
  <1>2. KnowledgeInv /\ [Next]_vars => KnowledgeInv'
    BY StepKeeps
  <1> QED BY <1>1, <1>2, PTL DEF Spec

\* Every variable keeps its type, and an index is rebuilt by the holder of
\* its lock only (keyword_refresh.py, keyword_index_lock).
THEOREM TypesAreKept == Spec => []TypeOK
  <1>1. KnowledgeInv => TypeOK
    BY DEF KnowledgeInv
  <1> QED BY <1>1, KnowledgeInvariant, PTL

\* Whatever a turn is given was all published at one moment since the turn
\* began, from whichever cache or index it came (PublicationGuard and its
\* callers in nodes.py).
THEOREM HeldTogether == Spec => []EvidenceHeldTogether
  <1>1. KnowledgeInv => EvidenceHeldTogether
    BY DEF KnowledgeInv, RequestInv, EvidenceHeldTogether, Given, At
  <1> QED BY <1>1, KnowledgeInvariant, PTL

\* Keyword indexes and answers that are taken to be of the epoch of now miss
\* nothing (the epoch checks of the caches and of _refresh_locked).
THEOREM CurrentComplete == Spec => []CurrentIsComplete
  <1>1. KnowledgeInv => CurrentIsComplete
    BY DEF KnowledgeInv, RequestInv, Undisturbed, Filtered, CurrentIsComplete,
           CalmReadsAreComplete, Given, At
  <1> QED BY <1>1, KnowledgeInvariant, PTL
=============================================================================
