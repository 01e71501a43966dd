------------------------- MODULE DocumentRunsProofs -------------------------
(* Theorems about the runs of the workflow, for any workers, jobs and requests, and any *)
(* documents registered before. *)
EXTENDS DocumentRuns, NaturalLemmas, FiniteSetTheorems, SequenceTheorems, TLAPS

(* The types of what the variables hold. *)
JobsOrNone  == Jobs \cup {0}
ObjectType  == [job: JobsOrNone, run: Nat, docs: DocsCds, kind: {"docx", "json"}]
RequestType == [docs: DocsCds, udt: {"N", "Y"}, files: SUBSET FileNames, detail: Nat, dir: Jobs]
RunType     == [job: JobsOrNone, no: Nat, seen: Nat \X Nat, bases: SUBSET ObjectType,
                read: SUBSET JobsOrNone, tries: 0 .. MaxRender, picture: JobsOrNone,
                met: SUBSET Jobs]
TxType      == [seen: Nat, row: BOOLEAN, detail: BOOLEAN, json: BOOLEAN,
                status: {"none", "DONE"}]
RowType     == [docs: DocsCds, status: {"DONE"}]
DetailType  == [row: Nat, object: ObjectType, job: JobsOrNone, bases: SUBSET ObjectType,
                read: SUBSET JobsOrNone, picture: JobsOrNone, met: SUBSET Jobs]
DirType     == [files: [FileNames -> JobsOrNone], bases: SUBSET ObjectType]
DiagramType == [source: JobsOrNone \X Nat, image: JobsOrNone \X Nat]

\* A worker that is busy runs a job, draws only what is to be drawn and has seen nothing
\* that is not there.
TypeInv ==
  /\ request \in [Jobs -> RequestType]
  /\ jobs \in [Jobs -> {"new", "running", "retry", "ended"}]
  /\ attempt \in [Jobs -> Nat]
  /\ at \in [Workers -> Steps]
  /\ run \in [Workers -> RunType]
  /\ tx \in [Workers -> TxType]
  /\ rows \in Seq(RowType)
  /\ details \in Seq(DetailType)
  /\ files \in Seq(ObjectType)
  /\ dirs \in [Jobs -> DirType]
  /\ diagrams \in [Drawn -> DiagramType]
  /\ \A w \in Busy : run[w].job \in Jobs
  /\ \A w \in Workers : at[w] \in {"draw", "rendering"} => Docs(w) \in Drawn
  /\ \A w \in Workers : run[w].seen[1] <= Len(details) /\ run[w].seen[2] <= Len(files)

(* What holds in every reachable state. *)

\* The steps of an export that has begun to write; those at which it has looked at the rows;
\* those at which the document is uploaded.
Writing == {"docx", "upload", "register", "commit"}
Looked  == {"upload", "register", "commit"}
Up      == {"register", "commit"}

\* The steps of a run before it is over.
Working == {w \in Workers : at[w] \notin {"idle", "cleanup"}}

\* A session holds what its run has written and nothing else; whether it inserts a row
\* was decided by the rows it sees.
SessionOf(w) ==
  /\ at[w] \notin Writing => tx[w] = NoTx
  /\ at[w] = "json" => Docs(w) = "SRS"
  /\ at[w] \in Writing => (tx[w].json <=> Docs(w) = "SRS")
  /\ at[w] \in Looked => tx[w].seen <= Len(rows)
  /\ at[w] = "commit" => (tx[w].row <=> \A i \in 1 .. tx[w].seen : rows[i].docs # Docs(w))

TxInv == \A w \in Workers : SessionOf(w)

\* What a run is about to register was uploaded.
UploadInv ==
  /\ RowsNameUploads
  /\ \A w \in Workers : /\ at[w] \in Up => Document(w) \in stored
                        /\ at[w] \in Writing /\ Docs(w) = "SRS" => Json(w) \in stored

\* A detail belongs to a row of its document.
RowInv ==
  \A i \in DOMAIN details : /\ details[i].row \in DOMAIN rows
                            /\ rows[details[i].row].docs = details[i].object.docs

\* Runs that are under way at the same time have met.
MetInv == \A w \in Working, v \in Busy : v # w => run[v].job \in run[w].met

\* Every attempt of a job has its own number, and registers one document at most.
Version(x) == <<x.job, x.run>>

AttemptInv ==
  /\ \A w \in Working : run[w].no <= attempt[run[w].job]
  /\ \A w, v \in Working : v # w => Run(v) # Run(w)
  /\ \A i \in DOMAIN details :
       LET x == details[i].object IN x.job # 0 => x.run <= attempt[x.job]
  /\ \A i \in DOMAIN details, w \in Working : Version(details[i].object) # Run(w)
  /\ \A i, k \in DOMAIN details :
       i # k => Version(details[i].object) # Version(details[k].object)

\* While a run meets nobody, its diagram is its own.
PictureOf(w) ==
  run[w].met = {} =>
    /\ at[w] = "rendering" => /\ diagrams[Docs(w)].source = Run(w)
                              /\ diagrams[Docs(w)].image = <<0, 0>>
    /\ at[w] = "docx" /\ Docs(w) \in Drawn => diagrams[Docs(w)].image = Run(w)
    /\ at[w] \in Looked /\ Docs(w) \in Drawn => run[w].picture = run[w].job

PictureInv == PictureIsOwn /\ \A w \in Working : PictureOf(w)

\* While a run meets nobody in its directory, what is there is its own.
Shared(w) == \E j \in run[w].met \ {run[w].job} : request[j].dir = Dir(w)

Unread == {"base", "mark", "merge"}

InputOf(w) ==
  \/ Shared(w)
  \/ at[w] = "inputs"
  \/ at[w] \in Unread /\ \A n \in Request(w).files : dirs[Dir(w)].files[n] \in {0, run[w].job}
  \/ at[w] \notin Unread /\ at[w] # "inputs" /\ run[w].read \subseteq {run[w].job}

InputInv == InputsAreOwn /\ \A w \in Working : InputOf(w)

\* A run meets those who insert a row that its session does not see.
Met(w, d) == \E j \in run[w].met : request[j].docs = d

RowsOf(w) ==
  at[w] \in Looked =>
    \A i \in DOMAIN rows : tx[w].seen < i /\ rows[i].docs = Docs(w) => Met(w, Docs(w))

OneRowInv == OneRowPerDocument /\ \A w \in Working : RowsOf(w)

\* Among the first n of the details dt there is a later one of document d than version x.
Newer(dt, x, d, n) ==
  \E p, k \in 1 .. n : /\ p < k
                       /\ dt[p].object.docs = d /\ dt[k].object.docs = d
                       /\ Version(dt[p].object) = Version(x)

\* The m-th requirement JSON is that of the latest SRS among the first n details.
Newest(n, m) == m # 0 => files[m].docs = "SRS" /\ ~Newer(details, files[m], "SRS", n)

\* A session sees the latest of what was there when it began, and its run meets those who
\* register something later.
BasesOf(w) ==
  IF at[w] \in {"inputs", "base"}
  THEN /\ Newest(run[w].seen[1], run[w].seen[2])
       /\ \A k \in DOMAIN details : run[w].seen[1] < k => Met(w, details[k].object.docs)
  ELSE Request(w).detail = 0 =>
         \A b \in run[w].bases : Newer(details, b, b.docs, Len(details)) => Met(w, b.docs)

BasesInv ==
  /\ BasesAreLatest
  /\ Newest(Len(details), Len(files))
  /\ \A w \in Working : BasesOf(w)

\* The inductive invariant.
RunsInv ==
  /\ TypeInv /\ TxInv /\ UploadInv /\ RowInv /\ MetInv /\ AttemptInv /\ PictureInv
  /\ InputInv /\ OneRowInv /\ BasesInv /\ NothingLeftBehind

-----------------------------------------------------------------------------
(* The operators *)

\* The last of a set of positions.
LEMMA LastPosition ==
  ASSUME NEW n \in Nat, NEW H \in SUBSET (1 .. n), H # {}
  PROVE  /\ (CHOOSE i \in H : \A k \in H : k <= i) \in H
         /\ \A k \in H : k <= (CHOOSE i \in H : \A k2 \in H : k2 <= i)
<1>1. H \in SUBSET (0 .. n)
  OBVIOUS
<1>2. \E i \in H : \A k \in H : k <= i
  BY <1>1, GreatestNatural
<1> QED BY <1>2

\* The current row of a code is the latest one, or there is none.
LEMMA CurrentRowProperties ==
  ASSUME NEW r \in Seq(RowType), NEW d
  PROVE  /\ CurrentRow(r, d) \in 0 .. Len(r)
         /\ CurrentRow(r, d) = 0 <=> \A i \in 1 .. Len(r) : r[i].docs # d
         /\ CurrentRow(r, d) # 0 => r[CurrentRow(r, d)].docs = d
<1> DEFINE H == {i \in DOMAIN r : r[i].docs = d}
           c == CHOOSE i \in H : \A k \in H : k <= i
<1>1. CurrentRow(r, d) = IF H = {} THEN 0 ELSE c
  BY DEF CurrentRow, Latest
<1>2. Len(r) \in Nat /\ DOMAIN r = 1 .. Len(r) /\ H \in SUBSET (1 .. Len(r))
  OBVIOUS
<1>3. H # {} => c \in H
  BY <1>2, LastPosition
<1> HIDE DEF c
<1> QED BY <1>1, <1>2, <1>3

\* The rows after a session's writes: at most one more, and the others keep their document.
LEMMA WrittenProperties ==
  ASSUME TypeInv, NEW t \in TxType, NEW d \in DocsCds
  PROVE  /\ Written(t, d) \in Seq(RowType)
         /\ Len(Written(t, d)) = IF t.row THEN Len(rows) + 1 ELSE Len(rows)
         /\ \A i \in 1 .. Len(rows) : Written(t, d)[i].docs = rows[i].docs
         /\ t.row => Written(t, d)[Len(rows) + 1].docs = d
<1> DEFINE r == IF t.row THEN Append(rows, [docs |-> d, status |-> "DONE"]) ELSE rows
           c == CurrentRow(r, d)
<1>1. rows \in Seq(RowType) /\ [docs |-> d, status |-> "DONE"] \in RowType
  BY DEF TypeInv, RowType
<1>2. /\ r \in Seq(RowType)
      /\ Len(r) = IF t.row THEN Len(rows) + 1 ELSE Len(rows)
      /\ \A i \in 1 .. Len(rows) : r[i] = rows[i]
      /\ t.row => r[Len(rows) + 1].docs = d
  BY <1>1
<1>3. c \in 0 .. Len(r)
  BY <1>2, CurrentRowProperties
<1>4. Written(t, d) = IF t.status = "none" \/ c = 0 THEN r ELSE [r EXCEPT ![c].status = t.status]
  BY DEF Written
<1> HIDE DEF r, c
<1>5. CASE t.status = "none" \/ c = 0
  <2>1. Written(t, d) = r
    BY <1>4, <1>5
  <2> QED BY <1>2, <2>1
<1>6. CASE ~(t.status = "none" \/ c = 0)
  <2>1. t.status = "DONE" /\ c \in 1 .. Len(r) /\ Len(r) \in Nat
    BY <1>2, <1>3, <1>6 DEF TxType
  <2>2. Written(t, d) = [r EXCEPT ![c].status = "DONE"]
    BY <1>4, <1>6, <2>1
  <2>3. \A i \in 1 .. Len(r) : r[i] \in RowType
    BY <1>2
  <2>4. [r[c] EXCEPT !.status = "DONE"] \in RowType /\ [r[c] EXCEPT !.status = "DONE"].docs = r[c].docs
    BY <2>1, <2>3 DEF RowType
  <2>5. Written(t, d) = [r EXCEPT ![c] = [r[c] EXCEPT !.status = "DONE"]]
    BY <2>2
  <2>6. /\ Written(t, d) \in Seq(RowType) /\ Len(Written(t, d)) = Len(r)
        /\ \A i \in 1 .. Len(r) : Written(t, d)[i].docs = r[i].docs
    BY <1>2, <2>1, <2>4, <2>5
  <2>7. 1 .. Len(rows) \subseteq 1 .. Len(r) /\ (t.row => Len(rows) + 1 \in 1 .. Len(r))
    BY <1>1, <1>2
  <2> QED BY <1>2, <2>6, <2>7
<1> QED BY <1>5, <1>6

\* What is found for a document is among the details and the files looked at.
LEMMA SourcesType ==
  ASSUME TypeInv, NEW q \in RequestType, NEW dt \in Seq(DetailType), NEW f \in Seq(ObjectType)
  PROVE  UNION Sources(q, dt, f) \subseteq ObjectType
<1>0. \A i \in DOMAIN dt : dt[i].object \in ObjectType
  <2>1. \A i \in DOMAIN dt : dt[i] \in DetailType
    OBVIOUS
  <2> QED BY <2>1 DEF DetailType
<1>1. ActiveSrs(f) \subseteq ObjectType
  BY DEF ActiveSrs
<1>2. ASSUME NEW d PROVE ActiveDoc(dt, d) \subseteq ObjectType
  <2> DEFINE H == {i \in DOMAIN dt : rows[dt[i].row].docs = d}
             c == CHOOSE i \in H : \A k \in H : k <= i
             n == IF H = {} THEN 0 ELSE c
  <2>1. ActiveDoc(dt, d) = IF n = 0 THEN {} ELSE {dt[n].object}
    BY DEF ActiveDoc, Latest
  <2>2. Len(dt) \in Nat /\ DOMAIN dt = 1 .. Len(dt) /\ H \in SUBSET (1 .. Len(dt))
    OBVIOUS
  <2>3. n = 0 \/ n \in DOMAIN dt
    BY <2>2, LastPosition
  <2> HIDE DEF n
  <2>4. n \in DOMAIN dt => dt[n].object \in ObjectType
    BY <1>0
  <2> QED BY <2>1, <2>3, <2>4
<1>3. ASSUME NEW d, NEW sn PROVE DetailContext(dt, d, sn) \subseteq ObjectType
  <2> DEFINE s == SubSeq(dt, 1, sn - 1)
             H == {i \in DOMAIN s : s[i].row = dt[sn].row}
             c == CHOOSE i \in H : \A k \in H : k <= i
             n == IF H = {} THEN 0 ELSE c
  <2>1. DetailContext(dt, d, sn) =
          IF sn \notin DOMAIN dt THEN {}
          ELSE IF rows[dt[sn].row].docs # d \/ n = 0 THEN {}
          ELSE {dt[n].object, dt[sn].object}
    BY DEF DetailContext, Latest
  <2>2. CASE sn \notin DOMAIN dt
    BY <2>1, <2>2
  <2>3. CASE sn \in DOMAIN dt
    <3>1. sn \in 1 .. Len(dt) /\ Len(dt) \in Nat /\ sn - 1 \in Nat /\ sn - 1 <= Len(dt)
      BY <2>3
    <3>2. s \in Seq(DetailType) /\ Len(s) = sn - 1
      BY <3>1
    <3>3. H \in SUBSET (1 .. sn - 1)
      BY <3>2
    <3>4. n = 0 \/ n \in 1 .. sn - 1
      BY <3>1, <3>3, LastPosition
    <3> HIDE DEF n
    <3>5. n = 0 \/ n \in DOMAIN dt
      BY <3>1, <3>4
    <3> QED BY <1>0, <2>1, <2>3, <3>5
  <2> QED BY <2>2, <2>3
<1> HIDE DEF ObjectType
<1>4. \A x \in Sources(q, dt, f) : \/ x = DetailContext(dt, q.docs, q.detail)
                                   \/ x = ActiveSrs(f)
                                   \/ \E d \in DocsCds : x = ActiveDoc(dt, d)
  <2>1. q.docs \in DocsCds /\ "ERD" \in DocsCds /\ "INTERFACE" \in DocsCds
    BY DEF RequestType, DocsCds
  <2> QED BY <2>1 DEF Sources
<1>5. \A x \in Sources(q, dt, f) : x \subseteq ObjectType
  BY <1>1, <1>2, <1>3, <1>4
<1> QED BY <1>5

-----------------------------------------------------------------------------
(* The types of the parts of a step *)

LEMMA NothingTyped ==
  /\ \A j \in JobsOrNone : [NoRun EXCEPT !.job = j] \in RunType
  /\ NoRun \in RunType /\ NoTx \in TxType /\ NoDir \in DirType
  /\ NoDiagram \in DiagramType
  /\ NoRun.job = 0 /\ NoRun.met = {} /\ NoRun.bases = {} /\ NoRun.read = {}
<1>1. MaxRender \in Nat /\ 0 \in 0 .. MaxRender
  BY ConstantsAssumption
<1>2. NoRun \in RunType
  BY <1>1 DEF NoRun, RunType, JobsOrNone
<1> QED BY <1>1, <1>2 DEF NoRun, RunType, JobsOrNone, NoTx, TxType, NoDir, DirType, NoDiagram, DiagramType

\* What a worker that is busy runs.
LEMMA BusyRuns ==
  ASSUME TypeInv, NEW w \in Workers, at[w] # "idle"
  PROVE  /\ run[w] \in RunType /\ run[w].job \in Jobs /\ run[w].job # 0 /\ run[w].no \in Nat
         /\ run[w].met \in SUBSET Jobs /\ tx[w] \in TxType
         /\ Request(w) \in RequestType /\ Docs(w) \in DocsCds /\ Dir(w) \in Jobs
         /\ w \in Busy
<1>1. run[w] \in RunType /\ tx[w] \in TxType /\ run[w].job \in Jobs /\ w \in Busy
  BY DEF TypeInv, Busy
<1>2. Request(w) \in RequestType
  BY <1>1 DEF TypeInv, Request
<1>3. run[w].job # 0
  BY <1>1, ConstantsAssumption
<1> QED BY <1>1, <1>2, <1>3 DEF RunType, RequestType, Docs, Dir

LEMMA ObjectsTyped ==
  ASSUME TypeInv, NEW w \in Workers, at[w] # "idle"
  PROVE  Document(w) \in ObjectType /\ Json(w) \in ObjectType
BY BusyRuns DEF Document, Json, Object, ObjectType, JobsOrNone

LEMMA GotoType ==
  ASSUME TypeInv, NEW w \in Workers, NEW s \in Steps, Goto(w, s)
  PROVE  /\ at' \in [Workers -> Steps] /\ at'[w] = s
         /\ \A v \in Workers \ {w} : at'[v] = at[v]
BY DEF TypeInv, Goto

\* The run of one worker is replaced.
LEMMA RunType1 ==
  ASSUME TypeInv, NEW w \in Workers, NEW r \in RunType, run' = [run EXCEPT ![w] = r]
  PROVE  /\ run' \in [Workers -> RunType] /\ run'[w] = r
         /\ \A v \in Workers \ {w} : run'[v] = run[v]
BY DEF TypeInv

LEMMA TxType1 ==
  ASSUME TypeInv, NEW w \in Workers, NEW t \in TxType, tx' = [tx EXCEPT ![w] = t]
  PROVE  /\ tx' \in [Workers -> TxType] /\ tx'[w] = t
         /\ \A v \in Workers \ {w} : tx'[v] = tx[v]
BY DEF TypeInv

LEMMA CleanupType ==
  ASSUME TypeInv, NEW w \in Workers, at[w] # "idle", GotoCleanup(w)
  PROVE  /\ at' \in [Workers -> Steps] /\ at'[w] = "cleanup"
         /\ run' \in [Workers -> RunType] /\ run'[w] = [NoRun EXCEPT !.job = run[w].job]
         /\ run'[w].job = run[w].job
         /\ \A v \in Workers \ {w} : at'[v] = at[v] /\ run'[v] = run[v]
<1>1. "cleanup" \in Steps
  BY DEF Steps
<1>2. [NoRun EXCEPT !.job = run[w].job] \in RunType
  BY BusyRuns, NothingTyped DEF JobsOrNone
<1>3. [NoRun EXCEPT !.job = run[w].job].job = run[w].job
  BY DEF NoRun
<1> QED BY <1>1, <1>2, <1>3, GotoType, RunType1 DEF GotoCleanup

\* The rest of the type invariant, from what a step does to the worker that takes it.
LEMMA OneWorker ==
  ASSUME TypeInv, NEW w \in Workers, request' = request,
         at' \in [Workers -> Steps], run' \in [Workers -> RunType],
         at'[w] # "idle" => run'[w].job \in Jobs,
         at'[w] \in {"draw", "rendering"} => request[run'[w].job].docs \in Drawn,
         \A v \in Workers \ {w} : at'[v] = at[v] /\ run'[v].job = run[v].job
  PROVE  /\ request' \in [Jobs -> RequestType]
         /\ \A v \in Busy' : run'[v].job \in Jobs
         /\ \A v \in Workers : at'[v] \in {"draw", "rendering"} => Docs(v)' \in Drawn
<1>1. \A v \in Workers : at'[v] # "idle" => run'[v].job \in Jobs
  BY DEF TypeInv, Busy
<1>2. ASSUME NEW v \in Workers, at'[v] \in {"draw", "rendering"} PROVE Docs(v)' \in Drawn
  <2>1. CASE v = w
    BY <1>2, <2>1 DEF Docs, Request
  <2>2. CASE v # w
    <3>1. Docs(v) \in Drawn /\ run'[v].job = run[v].job
      BY <1>2, <2>2 DEF TypeInv
    <3> QED BY <3>1 DEF Docs, Request
  <2> QED BY <2>1, <2>2
<1> QED BY <1>1, <1>2 DEF TypeInv, Busy

-----------------------------------------------------------------------------
(* What every step does *)

\* No other worker is touched.
Alone(w) == \A v \in Workers \ {w} : at'[v] = at[v] /\ run'[v] = run[v] /\ tx'[v] = tx[v]

\* The run that w is at goes on.
SameRun(w) == run'[w].job = run[w].job /\ run'[w].no = run[w].no /\ run'[w].met = run[w].met

LEMMA BeginStep ==
  ASSUME TypeInv, NEW w \in Workers, NEW j \in Jobs, Begin(w, j)
  PROVE  /\ TypeInv'
         /\ at[w] = "idle" /\ at'[w] = "inputs" /\ \A v \in Workers \ {w} : at'[v] = at[v]
         /\ attempt' = [attempt EXCEPT ![j] = attempt[j] + 1] /\ attempt[j] \in Nat
         /\ run'[w].job = j /\ run'[w].no = attempt[j] + 1
         /\ run'[w].seen = <<Len(details), Len(files)>> /\ run'[w].bases = {}
         /\ run'[w].met = {run[u].job : u \in Busy}
         /\ \A v \in Workers \ {w} :
              IF v \in Busy THEN run'[v] = [run[v] EXCEPT !.met = run[v].met \cup {j}]
              ELSE run'[v] = run[v]
         /\ UNCHANGED <<request, tx, rows, details, files, stored, dirs, diagrams, uncleaned>>
<1> DEFINE r == [NoRun EXCEPT !.job = j, !.no = attempt[j] + 1,
                              !.seen = <<Len(details), Len(files)>>,
                              !.met = {run[u].job : u \in Busy}]
<1>1. /\ at[w] = "idle" /\ Goto(w, "inputs") /\ "inputs" \in Steps
      /\ UNCHANGED <<request, tx, rows, details, files, stored, dirs, diagrams, uncleaned>>
  BY DEF Begin, database, disk, Steps
<1>2. /\ at' \in [Workers -> Steps] /\ at'[w] = "inputs"
      /\ \A v \in Workers \ {w} : at'[v] = at[v]
  BY <1>1, GotoType
<1>3. /\ attempt' = [attempt EXCEPT ![j] = attempt[j] + 1] /\ attempt[j] \in Nat
      /\ attempt' \in [Jobs -> Nat] /\ attempt'[j] = attempt[j] + 1
  <2>1. attempt' = [attempt EXCEPT ![j] = attempt[j] + 1]
    BY DEF Begin
  <2> QED BY <2>1 DEF TypeInv
<1>4. jobs' \in [Jobs -> {"new", "running", "retry", "ended"}]
  <2>1. jobs' = [jobs EXCEPT ![j] = "running"]
    BY DEF Begin
  <2> QED BY <2>1 DEF TypeInv
<1>5. run' = [v \in Workers |->
                IF v = w THEN r
                ELSE IF v \in Busy THEN [run[v] EXCEPT !.met = run[v].met \cup {j}] ELSE run[v]]
  BY <1>3 DEF Begin
<1>6. r \in RunType
  <2>1. {run[u].job : u \in Busy} \in SUBSET Jobs
    BY DEF TypeInv
  <2>2. Len(details) \in Nat /\ Len(files) \in Nat
    BY DEF TypeInv
  <2> QED BY <1>3, <2>1, <2>2, NothingTyped DEF RunType, NoRun, JobsOrNone
<1>7. /\ r.job = j /\ r.no = attempt[j] + 1 /\ r.seen = <<Len(details), Len(files)>>
      /\ r.met = {run[u].job : u \in Busy} /\ r.bases = {}
  BY DEF NoRun
<1> HIDE DEF r
<1>8. run'[w] = r
  BY <1>5
<1>9. ASSUME NEW v \in Workers \ {w}
      PROVE  /\ run'[v] = IF v \in Busy THEN [run[v] EXCEPT !.met = run[v].met \cup {j}]
                          ELSE run[v]
             /\ run'[v] \in RunType /\ run'[v].job = run[v].job /\ run'[v].seen = run[v].seen
  <2>1. run'[v] = IF v \in Busy THEN [run[v] EXCEPT !.met = run[v].met \cup {j}] ELSE run[v]
    BY <1>5
  <2>2. run[v] \in RunType
    BY DEF TypeInv
  <2> QED BY <2>1, <2>2 DEF RunType
<1>10. run' \in [Workers -> RunType]
  <2>1. \A v \in Workers : run'[v] \in RunType
    BY <1>6, <1>8, <1>9
  <2>2. run' = [v \in Workers |-> run'[v]]
    BY <1>5
  <2> QED BY <2>1, <2>2
<1>11. TypeInv'
  <2>1. /\ request' \in [Jobs -> RequestType]
        /\ \A v \in Busy' : run'[v].job \in Jobs
        /\ \A v \in Workers : at'[v] \in {"draw", "rendering"} => Docs(v)' \in Drawn
    BY <1>1, <1>2, <1>7, <1>8, <1>9, <1>10, OneWorker
  <2>2. /\ tx' \in [Workers -> TxType] /\ rows' \in Seq(RowType) /\ details' \in Seq(DetailType)
        /\ files' \in Seq(ObjectType) /\ dirs' \in [Jobs -> DirType]
        /\ diagrams' \in [Drawn -> DiagramType]
    BY <1>1 DEF TypeInv
  <2>3. Len(details) \in Nat /\ Len(files) \in Nat
    BY DEF TypeInv
  <2>4. \A v \in Workers : run'[v].seen[1] <= Len(details') /\ run'[v].seen[2] <= Len(files')
    <3>1. run'[w].seen[1] = Len(details) /\ run'[w].seen[2] = Len(files)
      BY <1>7, <1>8
    <3>2. \A v \in Workers \ {w} : run'[v].seen = run[v].seen
      BY <1>9
    <3>3. \A v \in Workers : run[v].seen[1] <= Len(details) /\ run[v].seen[2] <= Len(files)
      BY DEF TypeInv
    <3>4. Len(details') = Len(details) /\ Len(files') = Len(files)
      BY <1>1
    <3> QED BY <2>3, <3>1, <3>2, <3>3, <3>4
  <2> QED BY <1>2, <1>3, <1>4, <1>10, <2>1, <2>2, <2>4 DEF TypeInv
<1> QED BY <1>1, <1>2, <1>3, <1>7, <1>8, <1>9, <1>11

\* The type invariant after a step of one worker that begins nothing.
LEMMA StepTyped ==
  ASSUME TypeInv, NEW w \in Workers, UNCHANGED <<request, attempt>>, Alone(w),
         jobs' \in [Jobs -> {"new", "running", "retry", "ended"}],
         at' \in [Workers -> Steps], run' \in [Workers -> RunType], tx' \in [Workers -> TxType],
         rows' \in Seq(RowType), details' \in Seq(DetailType), files' \in Seq(ObjectType),
         dirs' \in [Jobs -> DirType], diagrams' \in [Drawn -> DiagramType],
         at'[w] # "idle" => run'[w].job \in Jobs,
         at'[w] \in {"draw", "rendering"} => request[run'[w].job].docs \in Drawn,
         Len(details) <= Len(details'), Len(files) <= Len(files'),
         run'[w].seen \in {run[w].seen, <<0, 0>>}
  PROVE  TypeInv'
<1>1. /\ request' \in [Jobs -> RequestType]
      /\ \A v \in Busy' : run'[v].job \in Jobs
      /\ \A v \in Workers : at'[v] \in {"draw", "rendering"} => Docs(v)' \in Drawn
  BY OneWorker DEF Alone
<1>2. attempt' \in [Jobs -> Nat]
  BY DEF TypeInv
<1>3. \A v \in Workers : run'[v].seen[1] <= Len(details') /\ run'[v].seen[2] <= Len(files')
  <2>1. \A v \in Workers : run'[v].seen \in {run[v].seen, <<0, 0>>}
    BY DEF Alone
  <2>2. \A v \in Workers : /\ run[v].seen[1] \in Nat /\ run[v].seen[1] <= Len(details)
                           /\ run[v].seen[2] \in Nat /\ run[v].seen[2] <= Len(files)
    BY DEF TypeInv, RunType
  <2>3. /\ Len(details) \in Nat /\ Len(files) \in Nat
        /\ Len(details') \in Nat /\ Len(files') \in Nat
    BY DEF TypeInv
  <2> TAKE v \in Workers
  <2>4. CASE run'[v].seen = run[v].seen
    BY <2>2, <2>3, <2>4
  <2>5. CASE run'[v].seen = <<0, 0>>
    BY <2>3, <2>5
  <2> QED BY <2>1, <2>4, <2>5
<1> QED BY <1>1, <1>2, <1>3 DEF TypeInv

LEMMA DownloadStep ==
  ASSUME TypeInv, NEW w \in Workers, DownloadInputs(w)
  PROVE  /\ TypeInv' /\ Alone(w) /\ run'[w] = run[w] /\ tx'[w] = tx[w]
         /\ at[w] = "inputs" /\ at'[w] = "base"
         /\ \A d \in Jobs \ {Dir(w)} : dirs'[d] = dirs[d]
         /\ \A n \in FileNames : dirs'[Dir(w)].files[n] =
              IF n \in Request(w).files THEN run[w].job ELSE dirs[Dir(w)].files[n]
         /\ UNCHANGED <<request, attempt, rows, details, files, stored, diagrams, uncleaned>>
<1> DEFINE fs == [n \in FileNames |-> IF n \in Request(w).files THEN run[w].job
                                      ELSE dirs[Dir(w)].files[n]]
           y == [dirs[Dir(w)] EXCEPT !.files = fs]
<1>1. /\ at[w] = "inputs" /\ Goto(w, "base") /\ "base" \in Steps
      /\ UNCHANGED <<request, jobs, attempt, run, tx, rows, details, files, stored, diagrams,
                     uncleaned>>
  BY DEF DownloadInputs, queue, database, Steps
<1>2. dirs' = [dirs EXCEPT ![Dir(w)] = y]
  BY DEF DownloadInputs
<1>3. Dir(w) \in Jobs /\ dirs[Dir(w)] \in DirType /\ run[w].job \in Jobs
  BY <1>1, BusyRuns DEF TypeInv
<1>4. fs \in [FileNames -> JobsOrNone]
  BY <1>3 DEF DirType, JobsOrNone
<1>5. y \in DirType /\ y.files = fs
  BY <1>3, <1>4 DEF DirType
<1>6. /\ dirs' \in [Jobs -> DirType] /\ dirs'[Dir(w)] = y
      /\ \A d \in Jobs \ {Dir(w)} : dirs'[d] = dirs[d]
  BY <1>2, <1>3, <1>5 DEF TypeInv
<1>7. /\ at' \in [Workers -> Steps] /\ at'[w] = "base"
      /\ \A v \in Workers \ {w} : at'[v] = at[v]
  BY <1>1, GotoType
<1>8. Alone(w) /\ run'[w] = run[w] /\ tx'[w] = tx[w]
  BY <1>1, <1>7 DEF Alone
<1>9. TypeInv'
  <2>1. /\ jobs' \in [Jobs -> {"new", "running", "retry", "ended"}]
        /\ run' \in [Workers -> RunType] /\ tx' \in [Workers -> TxType]
        /\ rows' \in Seq(RowType) /\ details' \in Seq(DetailType) /\ files' \in Seq(ObjectType)
        /\ diagrams' \in [Drawn -> DiagramType]
    BY <1>1 DEF TypeInv
  <2>2. Len(details) <= Len(details') /\ Len(files) <= Len(files')
    BY <1>1 DEF TypeInv
  <2> QED BY <1>1, <1>3, <1>6, <1>7, <1>8, <2>1, <2>2, StepTyped
<1> QED BY <1>1, <1>5, <1>6, <1>7, <1>8, <1>9

LEMMA ResolveStep ==
  ASSUME TypeInv, NEW w \in Workers, ResolveRequired(w)
  PROVE  /\ TypeInv' /\ Alone(w) /\ SameRun(w) /\ tx'[w] = tx[w]
         /\ at[w] = "base" /\ at'[w] = "mark"
         /\ run'[w].bases = UNION Sources(Request(w), SubSeq(details, 1, run[w].seen[1]),
                                                      SubSeq(files, 1, run[w].seen[2]))
         /\ run'[w].read = run[w].read
         /\ \A d \in Jobs : dirs'[d].files = dirs[d].files
         /\ \A d \in Jobs \ {Dir(w)} : dirs'[d] = dirs[d]
         /\ UNCHANGED <<request, attempt, rows, details, files, stored, diagrams, uncleaned>>
<1> DEFINE s1 == SubSeq(details, 1, run[w].seen[1])
           s2 == SubSeq(files, 1, run[w].seen[2])
           bs == UNION Sources(Request(w), s1, s2)
           r == [[run[w] EXCEPT !.bases = bs] EXCEPT !.seen = <<0, 0>>]
           y == [dirs[Dir(w)] EXCEPT !.bases = dirs[Dir(w)].bases \cup bs]
<1>1. /\ at[w] = "base" /\ Goto(w, "mark") /\ "mark" \in Steps
      /\ UNCHANGED <<request, jobs, attempt, tx, rows, details, files, stored, diagrams,
                     uncleaned>>
  BY DEF ResolveRequired, queue, database, Steps
<1>2. /\ dirs' = [dirs EXCEPT ![Dir(w)].bases = @ \cup bs]
      /\ run' = [run EXCEPT ![w].bases = bs, ![w].seen = <<0, 0>>]
  BY DEF ResolveRequired
<1>3. /\ Dir(w) \in Jobs /\ dirs[Dir(w)] \in DirType /\ run[w].job \in Jobs
      /\ run[w] \in RunType /\ Request(w) \in RequestType
  BY <1>1, BusyRuns DEF TypeInv
<1>4. bs \subseteq ObjectType
  <2>1. /\ run[w].seen[1] \in Nat /\ run[w].seen[1] <= Len(details)
        /\ run[w].seen[2] \in Nat /\ run[w].seen[2] <= Len(files)
    BY <1>3 DEF RunType, TypeInv
  <2>2. ASSUME NEW S, NEW s \in Seq(S), NEW n \in Nat, n <= Len(s)
        PROVE  SubSeq(s, 1, n) \in Seq(S)
    <3>1. 1 \in 1 .. Len(s) + 1 /\ n \in 1 - 1 .. Len(s)
      BY <2>2
    <3> QED BY <3>1, SubSeqProperties
  <2>3. s1 \in Seq(DetailType) /\ s2 \in Seq(ObjectType)
    BY <2>1, <2>2 DEF TypeInv
  <2> QED BY <1>3, <2>3, SourcesType
<1> HIDE DEF bs
<1>5. /\ y \in DirType /\ y.files = dirs[Dir(w)].files
      /\ r \in RunType /\ r.job = run[w].job /\ r.no = run[w].no /\ r.met = run[w].met
      /\ r.bases = bs /\ r.read = run[w].read /\ r.seen = <<0, 0>>
  BY <1>3, <1>4 DEF DirType, RunType
<1>6. dirs' = [dirs EXCEPT ![Dir(w)] = y]
  BY <1>2
<1>7. run' = [run EXCEPT ![w] = r]
  BY <1>2, <1>3 DEF RunType, TypeInv
<1> HIDE DEF r, y
<1>8. /\ dirs' \in [Jobs -> DirType] /\ dirs'[Dir(w)] = y
      /\ \A d \in Jobs \ {Dir(w)} : dirs'[d] = dirs[d]
  BY <1>3, <1>5, <1>6 DEF TypeInv
<1>9. /\ run' \in [Workers -> RunType] /\ run'[w] = r
      /\ \A v \in Workers \ {w} : run'[v] = run[v]
  BY <1>5, <1>7, RunType1
<1>10. /\ at' \in [Workers -> Steps] /\ at'[w] = "mark"
       /\ \A v \in Workers \ {w} : at'[v] = at[v]
  BY <1>1, GotoType
<1>11. Alone(w) /\ SameRun(w)
  BY <1>1, <1>5, <1>9, <1>10 DEF Alone, SameRun
<1>12. TypeInv'
  <2>1. /\ jobs' \in [Jobs -> {"new", "running", "retry", "ended"}]
        /\ tx' \in [Workers -> TxType]
        /\ rows' \in Seq(RowType) /\ details' \in Seq(DetailType) /\ files' \in Seq(ObjectType)
        /\ diagrams' \in [Drawn -> DiagramType]
    BY <1>1 DEF TypeInv
  <2>2. Len(details) <= Len(details') /\ Len(files) <= Len(files')
    BY <1>1 DEF TypeInv
  <2> QED BY <1>1, <1>3, <1>5, <1>8, <1>9, <1>10, <1>11, <2>1, <2>2, StepTyped
<1> QED BY <1>1, <1>5, <1>8, <1>9, <1>10, <1>11, <1>12 DEF bs

\* A session that is closed leaves nothing.
LEMMA CloseStep ==
  ASSUME TypeInv, NEW w \in Workers, NEW status, MarkAndClose(w, status)
  PROVE  /\ rows' = rows /\ tx' \in [Workers -> TxType] /\ tx'[w] = NoTx
         /\ \A v \in Workers \ {w} : tx'[v] = tx[v]
BY NothingTyped, TxType1 DEF MarkAndClose, Closed

LEMMA MarkStep ==
  ASSUME TypeInv, NEW w \in Workers, MarkGenerating(w)
  PROVE  /\ TypeInv' /\ Alone(w) /\ run'[w] = run[w] /\ tx'[w] = NoTx
         /\ at[w] = "mark" /\ at'[w] = "merge"
         /\ UNCHANGED <<request, attempt, rows, details, files, stored, dirs, diagrams,
                        uncleaned>>
<1>1. /\ at[w] = "mark" /\ Goto(w, "merge") /\ "merge" \in Steps
      /\ UNCHANGED <<request, jobs, attempt, run, details, files, stored, dirs, diagrams,
                     uncleaned>>
      /\ MarkAndClose(w, "GENERATING")
  BY DEF MarkGenerating, queue, disk, Steps
<1>2. /\ at' \in [Workers -> Steps] /\ at'[w] = "merge"
      /\ \A v \in Workers \ {w} : at'[v] = at[v]
  BY <1>1, GotoType
<1>3. /\ rows' = rows /\ tx' \in [Workers -> TxType] /\ tx'[w] = NoTx
      /\ \A v \in Workers \ {w} : tx'[v] = tx[v]
  BY <1>1, CloseStep
<1>4. Alone(w) /\ run'[w] = run[w]
  BY <1>1, <1>2, <1>3 DEF Alone
<1>5. TypeInv'
  <2>1. /\ jobs' \in [Jobs -> {"new", "running", "retry", "ended"}]
        /\ run' \in [Workers -> RunType]
        /\ rows' \in Seq(RowType) /\ details' \in Seq(DetailType) /\ files' \in Seq(ObjectType)
        /\ diagrams' \in [Drawn -> DiagramType] /\ dirs' \in [Jobs -> DirType]
    BY <1>1, <1>3 DEF TypeInv
  <2>2. Len(details) <= Len(details') /\ Len(files) <= Len(files') /\ run'[w].job \in Jobs
    BY <1>1, BusyRuns DEF TypeInv
  <2> QED BY <1>1, <1>2, <1>3, <1>4, <2>1, <2>2, StepTyped
<1> QED BY <1>1, <1>2, <1>3, <1>4, <1>5

\* A run is over, without a document.
LEMMA LeaveStep ==
  ASSUME TypeInv, NEW w \in Workers, PreprocessFails(w) \/ GenerationFails(w) \/ ExportFails(w)
  PROVE  /\ TypeInv' /\ Alone(w) /\ run'[w].job = run[w].job /\ tx'[w] \in {tx[w], NoTx}
         /\ at[w] \in Writing \/ at[w] = "json" => tx'[w] = NoTx
         /\ at[w] # "idle" /\ at[w] # "cleanup" /\ at'[w] = "cleanup"
         /\ UNCHANGED <<request, attempt, rows, details, files, stored, dirs, diagrams,
                        uncleaned>>
<1>1. /\ at[w] # "idle" /\ at[w] # "cleanup" /\ GotoCleanup(w)
      /\ UNCHANGED <<request, jobs, attempt, details, files, stored, dirs, diagrams, uncleaned>>
  BY DEF PreprocessFails, GenerationFails, ExportFails, queue, database, disk, Export
<1>2. /\ at' \in [Workers -> Steps] /\ at'[w] = "cleanup"
      /\ run' \in [Workers -> RunType] /\ run'[w] = [NoRun EXCEPT !.job = run[w].job]
      /\ run'[w].job = run[w].job
      /\ \A v \in Workers \ {w} : at'[v] = at[v] /\ run'[v] = run[v]
  BY <1>1, CleanupType
<1>3. /\ rows' = rows /\ tx' \in [Workers -> TxType] /\ tx'[w] \in {tx[w], NoTx}
      /\ \A v \in Workers \ {w} : tx'[v] = tx[v]
      /\ at[w] \in Writing \/ at[w] = "json" => tx'[w] = NoTx
  <2>1. ASSUME NEW status, MarkAndClose(w, status)
        PROVE  /\ rows' = rows /\ tx' \in [Workers -> TxType] /\ tx'[w] = NoTx
               /\ \A v \in Workers \ {w} : tx'[v] = tx[v]
    BY <2>1, CloseStep
  <2>2. CASE PreprocessFails(w) \/ ExportFails(w)
    BY <2>1, <2>2 DEF PreprocessFails, ExportFails
  <2>3. CASE GenerationFails(w)
    BY <2>3 DEF GenerationFails, database, TypeInv, Writing
  <2> QED BY <2>2, <2>3
<1>4. Alone(w)
  BY <1>2, <1>3 DEF Alone
<1>5. TypeInv'
  <2>1. /\ jobs' \in [Jobs -> {"new", "running", "retry", "ended"}]
        /\ rows' \in Seq(RowType) /\ details' \in Seq(DetailType) /\ files' \in Seq(ObjectType)
        /\ diagrams' \in [Drawn -> DiagramType] /\ dirs' \in [Jobs -> DirType]
    BY <1>1, <1>3 DEF TypeInv
  <2>2. Len(details) <= Len(details') /\ Len(files) <= Len(files') /\ run'[w].job \in Jobs
    BY <1>1, <1>2, BusyRuns DEF TypeInv
  <2>3. run'[w].seen = <<0, 0>>
    BY <1>2 DEF NoRun
  <2> QED BY <1>1, <1>2, <1>3, <1>4, <2>1, <2>2, <2>3, StepTyped
<1> QED BY <1>1, <1>2, <1>3, <1>4, <1>5

LEMMA ReadStep ==
  ASSUME TypeInv, NEW w \in Workers, ReadInputs(w)
  PROVE  /\ TypeInv' /\ Alone(w) /\ SameRun(w) /\ tx'[w] = tx[w]
         /\ run'[w].bases = run[w].bases
         /\ run'[w].read = {dirs[Dir(w)].files[n] : n \in Request(w).files}
         /\ 0 \notin run'[w].read
         /\ at[w] = "merge"
         /\ at'[w] = IF Docs(w) \in Drawn THEN "draw"
                     ELSE IF Docs(w) = "SRS" THEN "json" ELSE "docx"
         /\ UNCHANGED <<request, attempt, rows, details, files, stored, dirs, diagrams,
                        uncleaned>>
<1> DEFINE in == {dirs[Dir(w)].files[n] : n \in Request(w).files}
           r == [run[w] EXCEPT !.read = in]
           s == IF Docs(w) \in Drawn THEN "draw" ELSE IF Docs(w) = "SRS" THEN "json" ELSE "docx"
<1>1. /\ at[w] = "merge" /\ Goto(w, s) /\ 0 \notin in
      /\ UNCHANGED <<request, jobs, attempt, tx, rows, details, files, stored, dirs, diagrams,
                     uncleaned>>
      /\ run' = [run EXCEPT ![w] = r]
  BY DEF ReadInputs, queue, database, disk, ExportStart
<1>2. /\ run[w] \in RunType /\ Request(w) \in RequestType /\ dirs[Dir(w)] \in DirType
      /\ run[w].job \in Jobs
  BY <1>1, BusyRuns DEF TypeInv
<1>3. in \subseteq JobsOrNone
  BY <1>2 DEF DirType, RequestType
<1>4. /\ r \in RunType /\ r.job = run[w].job /\ r.no = run[w].no /\ r.met = run[w].met
      /\ r.bases = run[w].bases /\ r.seen = run[w].seen /\ r.read = in
  BY <1>2, <1>3 DEF RunType
<1>5. s \in Steps /\ (s \in {"draw", "rendering"} => Docs(w) \in Drawn)
  BY DEF Steps, Export
<1> HIDE DEF r, s, in
<1>6. /\ at' \in [Workers -> Steps] /\ at'[w] = s
      /\ \A v \in Workers \ {w} : at'[v] = at[v]
  BY <1>1, <1>5, GotoType
<1>7. /\ run' \in [Workers -> RunType] /\ run'[w] = r
      /\ \A v \in Workers \ {w} : run'[v] = run[v]
  BY <1>1, <1>4, RunType1
<1>8. Alone(w) /\ SameRun(w)
  BY <1>1, <1>4, <1>6, <1>7 DEF Alone, SameRun
<1>9. TypeInv'
  <2>1. /\ jobs' \in [Jobs -> {"new", "running", "retry", "ended"}]
        /\ tx' \in [Workers -> TxType]
        /\ rows' \in Seq(RowType) /\ details' \in Seq(DetailType) /\ files' \in Seq(ObjectType)
        /\ diagrams' \in [Drawn -> DiagramType] /\ dirs' \in [Jobs -> DirType]
    BY <1>1 DEF TypeInv
  <2>2. Len(details) <= Len(details') /\ Len(files) <= Len(files') /\ run'[w].job \in Jobs
    BY <1>1, <1>2, <1>4, <1>7 DEF TypeInv
  <2>3. at'[w] \in {"draw", "rendering"} => request[run'[w].job].docs \in Drawn
    BY <1>4, <1>5, <1>6, <1>7 DEF Docs, Request
  <2>4. run'[w].seen = run[w].seen
    BY <1>4, <1>7
  <2> QED BY <1>1, <1>6, <1>7, <1>8, <2>1, <2>2, <2>3, <2>4, StepTyped
<1> QED BY <1>1, <1>4, <1>6, <1>7, <1>8, <1>9 DEF s, in

\* A step that leaves the database alone.
LEMMA PlainStep ==
  ASSUME TypeInv, NEW w \in Workers, at[w] # "idle",
         NEW s \in Steps, Goto(w, s), s \in {"draw", "rendering"} => Docs(w) \in Drawn,
         NEW r \in RunType, run' = [run EXCEPT ![w] = r],
         r.job = run[w].job, r.seen = run[w].seen,
         NEW t \in TxType, tx' = [tx EXCEPT ![w] = t],
         UNCHANGED <<request, jobs, attempt, rows, details, files>>,
         dirs' \in [Jobs -> DirType], diagrams' \in [Drawn -> DiagramType]
  PROVE  TypeInv' /\ Alone(w) /\ at'[w] = s /\ run'[w] = r /\ tx'[w] = t
<1>1. at' \in [Workers -> Steps] /\ at'[w] = s /\ \A v \in Workers \ {w} : at'[v] = at[v]
  BY GotoType
<1>2. /\ run' \in [Workers -> RunType] /\ run'[w] = r
      /\ \A v \in Workers \ {w} : run'[v] = run[v]
  BY RunType1
<1>3. /\ tx' \in [Workers -> TxType] /\ tx'[w] = t
      /\ \A v \in Workers \ {w} : tx'[v] = tx[v]
  BY TxType1
<1>4. Alone(w)
  BY <1>1, <1>2, <1>3 DEF Alone
<1>5. /\ jobs' \in [Jobs -> {"new", "running", "retry", "ended"}]
      /\ rows' \in Seq(RowType) /\ details' \in Seq(DetailType) /\ files' \in Seq(ObjectType)
      /\ Len(details) <= Len(details') /\ Len(files) <= Len(files') /\ run'[w].job \in Jobs
  BY <1>2, BusyRuns DEF TypeInv
<1>6. at'[w] \in {"draw", "rendering"} => request[run'[w].job].docs \in Drawn
  BY <1>1, <1>2 DEF Docs, Request
<1> QED BY <1>1, <1>2, <1>3, <1>4, <1>5, <1>6, StepTyped

LEMMA Same ==
  ASSUME TypeInv, NEW w \in Workers
  PROVE  /\ run = [run EXCEPT ![w] = run[w]] /\ run[w] \in RunType
         /\ tx = [tx EXCEPT ![w] = tx[w]] /\ tx[w] \in TxType
         /\ dirs \in [Jobs -> DirType] /\ diagrams \in [Drawn -> DiagramType]
BY DEF TypeInv

LEMMA StartStep ==
  ASSUME TypeInv, NEW w \in Workers, StartRender(w)
  PROVE  /\ TypeInv' /\ Alone(w) /\ SameRun(w) /\ tx'[w] = tx[w]
         /\ run'[w].bases = run[w].bases /\ run'[w].read = run[w].read
         /\ at[w] = "draw" /\ at'[w] = "rendering" /\ Docs(w) \in Drawn
         /\ diagrams'[Docs(w)].source = Run(w) /\ diagrams'[Docs(w)].image = <<0, 0>>
         /\ UNCHANGED <<request, attempt, rows, details, files, stored, dirs, uncleaned>>
<1> DEFINE r == [run[w] EXCEPT !.tries = run[w].tries + 1]
<1>1. /\ at[w] = "draw" /\ Goto(w, "rendering") /\ "rendering" \in Steps
      /\ run[w].tries < MaxRender /\ run' = [run EXCEPT ![w] = r]
      /\ diagrams' = [diagrams EXCEPT ![Docs(w)] = [source |-> Run(w), image |-> <<0, 0>>]]
      /\ UNCHANGED <<request, jobs, attempt, tx, rows, details, files, stored, dirs, uncleaned>>
  BY DEF StartRender, Start, queue, database, Steps
<1>2. /\ run[w] \in RunType /\ run[w].job \in Jobs /\ Docs(w) \in Drawn /\ run[w].no \in Nat
  BY <1>1, BusyRuns DEF TypeInv
<1>3. r \in RunType
  <2>1. run[w].tries \in 0 .. MaxRender /\ MaxRender \in Nat
    BY <1>2, ConstantsAssumption DEF RunType
  <2>2. run[w].tries + 1 \in 0 .. MaxRender
    BY <1>1, <2>1
  <2> QED BY <1>2, <2>2 DEF RunType
<1>4. /\ r.job = run[w].job /\ r.no = run[w].no /\ r.met = run[w].met /\ r.seen = run[w].seen
      /\ r.bases = run[w].bases /\ r.read = run[w].read
  BY <1>2 DEF RunType
<1> HIDE DEF r
<1>5. [source |-> Run(w), image |-> <<0, 0>>] \in DiagramType
  BY <1>2 DEF DiagramType, Run, JobsOrNone
<1>6. /\ diagrams' \in [Drawn -> DiagramType]
      /\ diagrams'[Docs(w)] = [source |-> Run(w), image |-> <<0, 0>>]
  BY <1>1, <1>2, <1>5, Same
<1>7. TypeInv' /\ Alone(w) /\ at'[w] = "rendering" /\ run'[w] = r /\ tx'[w] = tx[w]
  <2>1. tx' = [tx EXCEPT ![w] = tx[w]] /\ tx[w] \in TxType /\ dirs' \in [Jobs -> DirType]
    BY <1>1, Same
  <2> QED BY <1>1, <1>2, <1>3, <1>4, <1>6, <2>1, PlainStep
<1> QED BY <1>1, <1>2, <1>4, <1>6, <1>7 DEF SameRun

LEMMA RenderStep ==
  ASSUME TypeInv, NEW w \in Workers, Render(w)
  PROVE  /\ TypeInv' /\ Alone(w) /\ SameRun(w) /\ tx'[w] = tx[w]
         /\ run'[w].bases = run[w].bases /\ run'[w].read = run[w].read
         /\ at[w] = "rendering" /\ Docs(w) \in Drawn
         /\ \/ at'[w] = "draw"
            \/ at'[w] = "docx" /\ diagrams'[Docs(w)].image # <<0, 0>>
         /\ diagrams'[Docs(w)].image \in {diagrams[Docs(w)].image, diagrams[Docs(w)].source}
         /\ UNCHANGED <<request, attempt, rows, details, files, stored, dirs, uncleaned>>
<1> DEFINE r0 == [run[w] EXCEPT !.tries = 0]
           d  == diagrams[Docs(w)]
           y  == [d EXCEPT !.image = d.source]
<1>1. /\ at[w] = "rendering"
      /\ \/ diagrams' = [diagrams EXCEPT ![Docs(w)] = y]
         \/ diagrams' = diagrams
      /\ UNCHANGED <<request, jobs, attempt, tx, rows, details, files, stored, dirs, uncleaned>>
  BY DEF Render, queue, database
<1>2. /\ run[w] \in RunType /\ run[w].job \in Jobs /\ Docs(w) \in Drawn /\ Docs(w) # "SRS"
      /\ d \in DiagramType /\ diagrams \in [Drawn -> DiagramType]
  BY <1>1, BusyRuns DEF TypeInv, Drawn
<1>3. /\ y \in DiagramType /\ y.image = d.source
      /\ diagrams' \in [Drawn -> DiagramType]
      /\ diagrams'[Docs(w)].image \in {d.image, d.source}
  <2>1. y \in DiagramType /\ y.image = d.source
    BY <1>2 DEF DiagramType
  <2> HIDE DEF y, d
  <2> QED BY <1>1, <1>2, <2>1 DEF d
<1>4. \/ Goto(w, "draw") /\ run' = run
      \/ /\ Goto(w, "docx") /\ diagrams'[Docs(w)].image # <<0, 0>>
         /\ run' = [run EXCEPT ![w] = r0]
  BY <1>2 DEF Render, ExportStart
<1>5. r0 \in RunType
  <2>1. 0 \in 0 .. MaxRender
    BY ConstantsAssumption
  <2> QED BY <1>2, <2>1 DEF RunType
<1>6. PICK r \in {run[w], r0} : run' = [run EXCEPT ![w] = r]
  BY <1>4, Same
<1>7. /\ r \in RunType
      /\ r.job = run[w].job /\ r.no = run[w].no /\ r.met = run[w].met /\ r.seen = run[w].seen
      /\ r.bases = run[w].bases /\ r.read = run[w].read
  BY <1>2, <1>5, <1>6 DEF RunType
<1> HIDE DEF r0, y, d
<1>8. PICK s \in {"draw", "docx"} :
        Goto(w, s) /\ (s = "docx" => diagrams'[Docs(w)].image # <<0, 0>>)
  BY <1>4
<1>9. TypeInv' /\ Alone(w) /\ at'[w] = s /\ run'[w] = r /\ tx'[w] = tx[w]
  <2>1. tx' = [tx EXCEPT ![w] = tx[w]] /\ tx[w] \in TxType /\ dirs' \in [Jobs -> DirType]
    BY <1>1, Same
  <2>2. s \in Steps
    BY <1>8 DEF Steps, Export
  <2> QED BY <1>1, <1>2, <1>3, <1>6, <1>7, <1>8, <2>1, <2>2, PlainStep
<1> QED BY <1>1, <1>2, <1>3, <1>7, <1>8, <1>9 DEF SameRun, d

LEMMA JsonStep ==
  ASSUME TypeInv, NEW w \in Workers, ExportRequirementJson(w)
  PROVE  /\ TypeInv' /\ Alone(w) /\ run'[w] = run[w]
         /\ tx'[w].json /\ at[w] = "json" /\ at'[w] = "docx"
         /\ stored' = stored \cup {Json(w)}
         /\ UNCHANGED <<request, attempt, rows, details, files, dirs, diagrams, uncleaned>>
<1> DEFINE t == [tx[w] EXCEPT !.json = TRUE]
<1>1. /\ at[w] = "json" /\ Goto(w, "docx") /\ "docx" \in Steps
      /\ stored' = stored \cup {Json(w)} /\ tx' = [tx EXCEPT ![w] = t]
      /\ UNCHANGED <<request, jobs, attempt, run, rows, details, files, dirs, diagrams, uncleaned>>
  BY DEF ExportRequirementJson, queue, database, disk, Steps, Export
<1>2. t \in TxType /\ t.json
  BY Same DEF TxType
<1> HIDE DEF t
<1>3. TypeInv' /\ Alone(w) /\ at'[w] = "docx" /\ run'[w] = run[w] /\ tx'[w] = t
  <2>1. /\ run' = [run EXCEPT ![w] = run[w]] /\ run[w] \in RunType
        /\ dirs' \in [Jobs -> DirType] /\ diagrams' \in [Drawn -> DiagramType]
    BY <1>1, Same
  <2> QED BY <1>1, <1>2, <2>1, PlainStep
<1> QED BY <1>1, <1>2, <1>3

LEMMA WriteStep ==
  ASSUME TypeInv, NEW w \in Workers, WriteDocx(w)
  PROVE  /\ TypeInv' /\ Alone(w) /\ SameRun(w)
         /\ run'[w].bases = run[w].bases /\ run'[w].read = run[w].read
         /\ run'[w].picture = Picture(w)
         /\ tx'[w].seen = Len(rows) /\ (tx'[w].json <=> tx[w].json)
         /\ at[w] = "docx" /\ at'[w] = "upload"
         /\ UNCHANGED <<request, attempt, rows, details, files, stored, dirs, diagrams,
                        uncleaned>>
<1> DEFINE t == [tx[w] EXCEPT !.seen = Len(rows)]
           r == [run[w] EXCEPT !.picture = Picture(w)]
<1>1. /\ at[w] = "docx" /\ Goto(w, "upload") /\ "upload" \in Steps
      /\ tx' = [tx EXCEPT ![w] = t] /\ run' = [run EXCEPT ![w] = r]
      /\ UNCHANGED <<request, jobs, attempt, rows, details, files, stored, dirs, diagrams,
                     uncleaned>>
  BY DEF WriteDocx, queue, database, disk, Steps, Export
<1>2. Picture(w) \in JobsOrNone
  BY Same DEF Picture, JobsOrNone, DiagramType
<1>3. /\ t \in TxType /\ t.seen = Len(rows) /\ t.json = tx[w].json
      /\ r \in RunType /\ r.picture = Picture(w)
      /\ r.job = run[w].job /\ r.no = run[w].no /\ r.met = run[w].met /\ r.seen = run[w].seen
      /\ r.bases = run[w].bases /\ r.read = run[w].read
  <2>1. Len(rows) \in Nat
    BY DEF TypeInv
  <2>2. run[w] \in RunType /\ tx[w] \in TxType
    BY Same
  <2> QED BY <1>2, <2>1, <2>2 DEF TxType, RunType
<1> HIDE DEF t, r
<1>4. TypeInv' /\ Alone(w) /\ at'[w] = "upload" /\ run'[w] = r /\ tx'[w] = t
  <2>1. dirs' \in [Jobs -> DirType] /\ diagrams' \in [Drawn -> DiagramType]
    BY <1>1, Same
  <2> QED BY <1>1, <1>3, <2>1, PlainStep
<1> QED BY <1>1, <1>3, <1>4 DEF SameRun

LEMMA UploadStep ==
  ASSUME TypeInv, NEW w \in Workers, UploadDocument(w)
  PROVE  /\ TypeInv' /\ Alone(w) /\ run'[w] = run[w] /\ tx'[w] = tx[w]
         /\ at[w] = "upload" /\ at'[w] = "register"
         /\ stored' = stored \cup {Document(w)}
         /\ UNCHANGED <<request, attempt, rows, details, files, dirs, diagrams, uncleaned>>
<1>1. /\ at[w] = "upload" /\ Goto(w, "register") /\ "register" \in Steps
      /\ stored' = stored \cup {Document(w)}
      /\ UNCHANGED <<request, jobs, attempt, run, tx, rows, details, files, dirs, diagrams,
                     uncleaned>>
  BY DEF UploadDocument, Uploaded, queue, database, disk, Steps, Export
<1>2. TypeInv' /\ Alone(w) /\ at'[w] = "register" /\ run'[w] = run[w] /\ tx'[w] = tx[w]
  <2>1. /\ run' = [run EXCEPT ![w] = run[w]] /\ run[w] \in RunType
        /\ tx' = [tx EXCEPT ![w] = tx[w]] /\ tx[w] \in TxType
        /\ dirs' \in [Jobs -> DirType] /\ diagrams' \in [Drawn -> DiagramType]
    BY <1>1, Same
  <2> QED BY <1>1, <2>1, PlainStep
<1> QED BY <1>1, <1>2

LEMMA RegisterStep ==
  ASSUME TypeInv, NEW w \in Workers, Register(w)
  PROVE  /\ TypeInv' /\ Alone(w) /\ run'[w] = run[w]
         /\ tx'[w].seen = tx[w].seen /\ (tx'[w].json <=> tx[w].json)
         /\ tx'[w].row = NoRowSeen(w)
         /\ at[w] = "register" /\ at'[w] = "commit"
         /\ UNCHANGED <<request, attempt, rows, details, files, stored, dirs, diagrams,
                        uncleaned>>
<1> DEFINE t == [[[tx[w] EXCEPT !.row = NoRowSeen(w)] EXCEPT !.detail = TRUE]
                   EXCEPT !.status = "DONE"]
<1>1. /\ at[w] = "register" /\ Goto(w, "commit") /\ "commit" \in Steps
      /\ tx' = [tx EXCEPT ![w].row = NoRowSeen(w), ![w].detail = TRUE, ![w].status = "DONE"]
      /\ UNCHANGED <<request, jobs, attempt, run, rows, details, files, stored, dirs, diagrams,
                     uncleaned>>
  BY DEF Register, queue, database, disk, Steps, Export
<1>2. /\ t \in TxType /\ t.seen = tx[w].seen /\ t.json = tx[w].json /\ t.row = NoRowSeen(w)
  <2>1. NoRowSeen(w) \in BOOLEAN
    BY DEF NoRowSeen
  <2> QED BY <2>1, Same DEF TxType
<1>3. tx' = [tx EXCEPT ![w] = t]
  BY <1>1 DEF TxType, TypeInv
<1>t. t \in TxType
  BY <1>2
<1> HIDE DEF t
<1>4. TypeInv' /\ Alone(w) /\ at'[w] = "commit" /\ run'[w] = run[w] /\ tx'[w] = t
  <2>1. /\ run' = [run EXCEPT ![w] = run[w]] /\ run[w] \in RunType
        /\ dirs' \in [Jobs -> DirType] /\ diagrams' \in [Drawn -> DiagramType]
    BY <1>1, Same
  <2>2. /\ at[w] # "idle" /\ "commit" \in Steps /\ "commit" \notin {"draw", "rendering"}
        /\ Goto(w, "commit") /\ UNCHANGED <<request, jobs, attempt, rows, details, files>>
    BY <1>1
  <2> QED BY <1>t, <1>3, <2>1, <2>2, PlainStep
<1> QED BY <1>1, <1>2, <1>4

\* The row a session finds among those it sees.
LEMMA SeenRow ==
  ASSUME TypeInv, NEW n \in Nat, n <= Len(rows), NEW d
  PROVE  /\ CurrentRow(SubSeq(rows, 1, n), d) \in 0 .. n
         /\ CurrentRow(SubSeq(rows, 1, n), d) = 0 <=> \A i \in 1 .. n : rows[i].docs # d
         /\ CurrentRow(SubSeq(rows, 1, n), d) # 0 =>
              rows[CurrentRow(SubSeq(rows, 1, n), d)].docs = d
<1> DEFINE s == SubSeq(rows, 1, n)
<1>1. rows \in Seq(RowType) /\ \A i \in 1 .. n : rows[i] \in RowType
  BY DEF TypeInv
<1>2. s \in Seq(RowType) /\ Len(s) = n /\ \A i \in 1 .. n : s[i] = rows[i]
  BY <1>1, SubSeqProperties
<1> HIDE DEF s
<1>3. /\ CurrentRow(s, d) \in 0 .. n
      /\ CurrentRow(s, d) = 0 <=> \A i \in 1 .. n : rows[i].docs # d
      /\ CurrentRow(s, d) # 0 => rows[CurrentRow(s, d)].docs = d
  <2>1. /\ CurrentRow(s, d) \in 0 .. Len(s)
        /\ CurrentRow(s, d) = 0 <=> \A i \in 1 .. Len(s) : s[i].docs # d
        /\ CurrentRow(s, d) # 0 => s[CurrentRow(s, d)].docs = d
    BY <1>2, CurrentRowProperties
  <2> QED BY <1>2, <2>1
<1> QED BY <1>3 DEF s

LEMMA CommitStep ==
  ASSUME TypeInv, TxInv, NEW w \in Workers, Commit(w)
  PROVE  /\ TypeInv' /\ Alone(w) /\ run'[w].job = run[w].job /\ tx'[w] = NoTx
         /\ at[w] = "commit" /\ at'[w] = "cleanup"
         /\ Len(rows) \in Nat /\ Len(details) \in Nat /\ Len(files) \in Nat
         /\ Len(rows') = IF tx[w].row THEN Len(rows) + 1 ELSE Len(rows)
         /\ \A i \in 1 .. Len(rows) : rows'[i].docs = rows[i].docs
         /\ tx[w].row => rows'[Len(rows) + 1].docs = Docs(w)
         /\ Len(details') = Len(details) + 1
         /\ \A i \in 1 .. Len(details) : details'[i] = details[i]
         /\ details'[Len(details) + 1] = Detail(w)
         /\ Detail(w).row \in 1 .. Len(rows') /\ rows'[Detail(w).row].docs = Docs(w)
         /\ Len(files') = IF Docs(w) = "SRS" THEN Len(files) + 1 ELSE Len(files)
         /\ \A i \in 1 .. Len(files) : files'[i] = files[i]
         /\ Docs(w) = "SRS" => files'[Len(files) + 1] = Json(w)
         /\ UNCHANGED <<request, attempt, stored, dirs, diagrams, uncleaned>>
<1>1. /\ at[w] = "commit" /\ GotoCleanup(w)
      /\ rows' = Written(tx[w], Docs(w)) /\ details' = Append(details, Detail(w))
      /\ files' = IF tx[w].json THEN Append(files, Json(w)) ELSE files
      /\ tx' = [tx EXCEPT ![w] = NoTx]
      /\ UNCHANGED <<request, jobs, attempt, stored, dirs, diagrams, uncleaned>>
  BY DEF Commit, queue, disk
<1>2. /\ run[w] \in RunType /\ run[w].job \in Jobs /\ tx[w] \in TxType /\ Docs(w) \in DocsCds
      /\ Document(w) \in ObjectType /\ Json(w) \in ObjectType
  BY <1>1, BusyRuns, ObjectsTyped
<1>3. /\ at' \in [Workers -> Steps] /\ at'[w] = "cleanup"
      /\ run' \in [Workers -> RunType] /\ run'[w] = [NoRun EXCEPT !.job = run[w].job]
      /\ run'[w].job = run[w].job
      /\ \A v \in Workers \ {w} : at'[v] = at[v] /\ run'[v] = run[v]
  BY <1>1, CleanupType
<1>4. /\ tx' \in [Workers -> TxType] /\ tx'[w] = NoTx
      /\ \A v \in Workers \ {w} : tx'[v] = tx[v]
  BY <1>1, NothingTyped, TxType1
<1>5. /\ rows' \in Seq(RowType)
      /\ Len(rows') = IF tx[w].row THEN Len(rows) + 1 ELSE Len(rows)
      /\ \A i \in 1 .. Len(rows) : rows'[i].docs = rows[i].docs
      /\ tx[w].row => rows'[Len(rows) + 1].docs = Docs(w)
      /\ Len(rows) \in Nat /\ Len(details) \in Nat /\ Len(files) \in Nat
  BY <1>1, <1>2, WrittenProperties DEF TypeInv
<1>6. /\ Detail(w).row \in 1 .. Len(rows') /\ rows'[Detail(w).row].docs = Docs(w)
  <2>1. /\ tx[w].seen \in Nat /\ tx[w].seen <= Len(rows)
        /\ tx[w].row <=> \A i \in 1 .. tx[w].seen : rows[i].docs # Docs(w)
    BY <1>1, <1>2 DEF TxInv, SessionOf, TxType, Looked
  <2> DEFINE c == CurrentRow(SubSeq(rows, 1, tx[w].seen), Docs(w))
  <2>2. /\ c \in 0 .. tx[w].seen
        /\ c = 0 <=> \A i \in 1 .. tx[w].seen : rows[i].docs # Docs(w)
        /\ c # 0 => rows[c].docs = Docs(w)
    BY <2>1, SeenRow
  <2>3. Detail(w).row = IF tx[w].row THEN Len(rows) + 1 ELSE c
    BY DEF Detail
  <2> HIDE DEF c
  <2>4. CASE tx[w].row
    BY <1>5, <2>3, <2>4
  <2>5. CASE ~tx[w].row
    <3>1. c \in 1 .. Len(rows) /\ rows[c].docs = Docs(w)
      BY <1>5, <2>1, <2>2, <2>5
    <3> QED BY <1>5, <2>3, <2>5, <3>1
  <2> QED BY <2>4, <2>5
<1>7. Detail(w) \in DetailType
  <2>1. Len(rows') \in Nat
    BY <1>5
  <2>2. Detail(w).row \in Nat
    BY <1>6, <2>1
  <2> QED BY <1>2, <2>2 DEF Detail, DetailType, RunType
<1>8. /\ details' \in Seq(DetailType) /\ Len(details') = Len(details) + 1
      /\ \A i \in 1 .. Len(details) : details'[i] = details[i]
      /\ details'[Len(details) + 1] = Detail(w)
  <2>1. details \in Seq(DetailType)
    BY DEF TypeInv
  <2> QED BY <1>1, <1>7, <2>1
<1>9. /\ files' \in Seq(ObjectType)
      /\ Len(files') = IF Docs(w) = "SRS" THEN Len(files) + 1 ELSE Len(files)
      /\ \A i \in 1 .. Len(files) : files'[i] = files[i]
      /\ Docs(w) = "SRS" => files'[Len(files) + 1] = Json(w)
  <2>1. files \in Seq(ObjectType)
    BY DEF TypeInv
  <2>2. tx[w].json <=> Docs(w) = "SRS"
    BY <1>1 DEF TxInv, SessionOf, Writing
  <2> HIDE DEF ObjectType
  <2>3. CASE Docs(w) = "SRS"
    <3>1. files' = Append(files, Json(w))
      BY <1>1, <2>2, <2>3
    <3> QED BY <1>2, <2>1, <2>3, <3>1
  <2>4. CASE Docs(w) # "SRS"
    <3>1. files' = files
      BY <1>1, <2>2, <2>4
    <3> QED BY <2>1, <2>4, <3>1
  <2> QED BY <2>3, <2>4
<1>10. Alone(w)
  BY <1>3, <1>4 DEF Alone
<1>11. TypeInv'
  <2>1. /\ jobs' \in [Jobs -> {"new", "running", "retry", "ended"}]
        /\ diagrams' \in [Drawn -> DiagramType] /\ dirs' \in [Jobs -> DirType]
    BY <1>1 DEF TypeInv
  <2>2. Len(details) <= Len(details') /\ Len(files) <= Len(files') /\ run'[w].job \in Jobs
    BY <1>2, <1>3, <1>5, <1>8, <1>9
  <2>3. run'[w].seen = <<0, 0>>
    BY <1>3 DEF NoRun
  <2> QED BY <1>1, <1>3, <1>4, <1>5, <1>8, <1>9, <1>10, <2>1, <2>2, <2>3, StepTyped
<1> QED BY <1>1, <1>3, <1>4, <1>5, <1>6, <1>8, <1>9, <1>10, <1>11

\* A run ends: it is cleaned up, or its worker dies.
LEMMA EndStep ==
  ASSUME TypeInv, NEW w \in Workers, Cleanup(w) \/ Crash(w)
  PROVE  /\ TypeInv' /\ Alone(w) /\ at[w] # "idle" /\ at'[w] = "idle"
         /\ tx'[w] \in {tx[w], NoTx} /\ (at[w] # "cleanup" => tx'[w] = NoTx)
         /\ \/ dirs' = [dirs EXCEPT ![Dir(w)] = NoDir] /\ uncleaned' = uncleaned \ {Dir(w)}
            \/ dirs' = dirs /\ uncleaned' = uncleaned \cup {Dir(w)}
         /\ UNCHANGED <<request, attempt, rows, details, files, stored>>
         /\ at[w] # "cleanup" => diagrams' = diagrams
<1>1. /\ at[w] # "idle" /\ Goto(w, "idle") /\ "idle" \in Steps
      /\ run' = [run EXCEPT ![w] = NoRun]
      /\ tx' = tx \/ tx' = [tx EXCEPT ![w] = NoTx]
      /\ at[w] # "cleanup" => tx' = [tx EXCEPT ![w] = NoTx] /\ diagrams' = diagrams
      /\ UNCHANGED <<request, attempt, rows, details, files, stored>>
  BY DEF Cleanup, Crash, database, disk, Steps
<1>2. /\ \/ dirs' = [dirs EXCEPT ![Dir(w)] = NoDir] /\ uncleaned' = uncleaned \ {Dir(w)}
         \/ dirs' = dirs /\ uncleaned' = uncleaned \cup {Dir(w)}
      /\ diagrams' = diagrams \/ diagrams' = [d \in Drawn |-> NoDiagram]
  BY DEF Cleanup, Crash, disk, Removed
<1>3. run[w].job \in Jobs /\ Dir(w) \in Jobs
  BY <1>1, BusyRuns
<1>4. jobs' \in [Jobs -> {"new", "running", "retry", "ended"}]
  <2>1. jobs' = [jobs EXCEPT ![run[w].job] = "ended"] \/
        jobs' = [jobs EXCEPT ![run[w].job] = IF jobs[run[w].job] = "running" THEN "retry"
                                             ELSE jobs[run[w].job]]
    BY DEF Cleanup, Crash
  <2> QED BY <1>3, <2>1 DEF TypeInv
<1>5. /\ at' \in [Workers -> Steps] /\ at'[w] = "idle"
      /\ \A v \in Workers \ {w} : at'[v] = at[v]
  BY <1>1, GotoType
<1>6. /\ run' \in [Workers -> RunType] /\ run'[w] = NoRun
      /\ \A v \in Workers \ {w} : run'[v] = run[v]
  BY <1>1, NothingTyped, RunType1
<1>7. /\ tx' \in [Workers -> TxType] /\ tx'[w] \in {tx[w], NoTx}
      /\ at[w] # "cleanup" => tx'[w] = NoTx
      /\ \A v \in Workers \ {w} : tx'[v] = tx[v]
  BY <1>1, NothingTyped, TxType1 DEF TypeInv
<1>8. dirs' \in [Jobs -> DirType] /\ diagrams' \in [Drawn -> DiagramType]
  BY <1>2, <1>3, NothingTyped DEF TypeInv
<1>9. Alone(w)
  BY <1>5, <1>6, <1>7 DEF Alone
<1>10. TypeInv'
  <2>1. rows' \in Seq(RowType) /\ details' \in Seq(DetailType) /\ files' \in Seq(ObjectType)
    BY <1>1 DEF TypeInv
  <2>2. Len(details) <= Len(details') /\ Len(files) <= Len(files')
    BY <1>1 DEF TypeInv
  <2>3. run'[w].seen = <<0, 0>>
    BY <1>6 DEF NoRun
  <2> QED BY <1>1, <1>4, <1>5, <1>6, <1>7, <1>8, <1>9, <2>1, <2>2, <2>3, StepTyped
<1> QED BY <1>1, <1>2, <1>5, <1>7, <1>9, <1>10

LEMMA OtherStep ==
  ASSUME TypeInv, (\E j \in Jobs : TakenOver(j)) \/ Quiet \/ UNCHANGED vars
  PROVE  /\ TypeInv'
         /\ UNCHANGED <<request, attempt, at, run, tx, rows, details, files, stored, dirs,
                        diagrams, uncleaned>>
<1>1. UNCHANGED <<request, attempt, at, run, tx, rows, details, files, stored, dirs, diagrams,
                  uncleaned>>
  BY DEF TakenOver, Quiet, vars, database, disk
<1>2. jobs' \in [Jobs -> {"new", "running", "retry", "ended"}]
  BY DEF TakenOver, Quiet, vars, TypeInv
<1>3. Busy' = Busy /\ \A w \in Workers : Docs(w)' = Docs(w)
  BY <1>1 DEF Busy, Docs, Request
<1> QED BY <1>1, <1>2, <1>3 DEF TypeInv

\* A step of the run that w is at.
RunStep(w) ==
  /\ Alone(w) /\ UNCHANGED <<request, attempt>> /\ w \in Busy
  /\ w \in Working' => w \in Working /\ SameRun(w)
  /\ w \in Busy' => run'[w].job = run[w].job
  /\ Commit(w) \/ UNCHANGED <<rows, details, files>>

\* All that the worker of a run may do.
Moves(w) ==
  \/ DownloadInputs(w) \/ ResolveRequired(w) \/ MarkGenerating(w) \/ PreprocessFails(w)
  \/ ReadInputs(w) \/ GenerationFails(w) \/ StartRender(w) \/ Render(w)
  \/ ExportRequirementJson(w) \/ WriteDocx(w) \/ UploadDocument(w) \/ Register(w)
  \/ Commit(w) \/ ExportFails(w) \/ Cleanup(w) \/ Crash(w)

LEMMA MoveIsRunStep ==
  ASSUME TypeInv, TxInv, NEW w \in Workers, Moves(w)
  PROVE  TypeInv' /\ RunStep(w)
<1>1. ASSUME \/ DownloadInputs(w) \/ MarkGenerating(w)
             \/ ExportRequirementJson(w) \/ UploadDocument(w) \/ Register(w)
      PROVE  TypeInv' /\ RunStep(w)
  BY <1>1, DownloadStep, MarkStep, JsonStep, UploadStep, RegisterStep
     DEF RunStep, Busy, Working, SameRun
<1>2. ASSUME \/ ResolveRequired(w) \/ ReadInputs(w) \/ StartRender(w)
             \/ Render(w) \/ WriteDocx(w)
      PROVE  TypeInv' /\ RunStep(w)
  BY <1>2, ResolveStep, ReadStep, StartStep, RenderStep, WriteStep
     DEF RunStep, Busy, Working, SameRun
<1>3. ASSUME PreprocessFails(w) \/ GenerationFails(w) \/ ExportFails(w)
      PROVE  TypeInv' /\ RunStep(w)
  BY <1>3, LeaveStep DEF RunStep, Busy, Working
<1>4. ASSUME Commit(w) PROVE TypeInv' /\ RunStep(w)
  BY <1>4, CommitStep DEF RunStep, Busy, Working
<1>5. ASSUME Cleanup(w) \/ Crash(w) PROVE TypeInv' /\ RunStep(w)
  BY <1>5, EndStep DEF RunStep, Busy, Working
<1> QED BY <1>1, <1>2, <1>3, <1>4, <1>5 DEF Moves

LEMMA NextSteps ==
  ASSUME TypeInv, TxInv, [Next]_vars
  PROVE  /\ TypeInv'
         /\ \/ \E w \in Workers, j \in Jobs : Begin(w, j)
            \/ \E w \in Workers : Moves(w) /\ RunStep(w)
            \/ UNCHANGED <<request, attempt, at, run, tx, rows, details, files, stored, dirs,
                           diagrams, uncleaned>>
<1>1. ASSUME NEW w \in Workers, NEW j \in Jobs, Begin(w, j) PROVE TypeInv'
  BY <1>1, BeginStep
<1>2. ASSUME NEW w \in Workers, Moves(w) PROVE TypeInv' /\ RunStep(w)
  BY <1>2, MoveIsRunStep
<1>3. ASSUME (\E j \in Jobs : TakenOver(j)) \/ Quiet \/ UNCHANGED vars
      PROVE  /\ TypeInv'
             /\ UNCHANGED <<request, attempt, at, run, tx, rows, details, files, stored, dirs,
                            diagrams, uncleaned>>
  BY <1>3, OtherStep
<1> QED BY <1>1, <1>2, <1>3 DEF Next, Moves

\* The rows stay, with the document they are of.
LEMMA RowsStay ==
  ASSUME TypeInv, TxInv, [Next]_vars
  PROVE  /\ Len(rows) \in Nat /\ Len(rows') \in Nat /\ Len(rows) <= Len(rows')
         /\ \A i \in 1 .. Len(rows) : rows'[i].docs = rows[i].docs
<1>1. Len(rows) \in Nat /\ Len(rows') \in Nat
  BY NextSteps DEF TypeInv
<1>2. ASSUME NEW w \in Workers, NEW j \in Jobs, Begin(w, j) PROVE rows' = rows
  BY <1>2, BeginStep
<1>3. ASSUME NEW w \in Workers, Commit(w)
      PROVE  Len(rows) <= Len(rows') /\ \A i \in 1 .. Len(rows) : rows'[i].docs = rows[i].docs
  <2>1. /\ Len(rows') = IF tx[w].row THEN Len(rows) + 1 ELSE Len(rows)
        /\ \A i \in 1 .. Len(rows) : rows'[i].docs = rows[i].docs
    BY <1>3, CommitStep
  <2> QED BY <1>1, <2>1
<1>4. rows' = rows \/ \E w \in Workers : Commit(w)
  BY <1>2, NextSteps DEF RunStep
<1>5. CASE rows' = rows
  BY <1>1, <1>5
<1> QED BY <1>1, <1>3, <1>4, <1>5

-----------------------------------------------------------------------------
(* Sessions *)

LEMMA SessionKept ==
  ASSUME TypeInv, TxInv, [Next]_vars, NEW v \in Workers, request' = request,
         at'[v] = at[v], run'[v].job = run[v].job, tx'[v] = tx[v]
  PROVE  SessionOf(v)'
<1>1. SessionOf(v) /\ Docs(v)' = Docs(v)
  BY DEF TxInv, Docs, Request
<1>2. tx[v].seen \in Nat
  BY DEF TypeInv, TxType
<1>3. ASSUME tx[v].seen <= Len(rows)
      PROVE  /\ tx[v].seen <= Len(rows')
             /\ \A i \in 1 .. tx[v].seen : rows'[i].docs = rows[i].docs
  BY <1>2, <1>3, RowsStay
<1>4. at[v] = "commit" => at[v] \in Looked
  BY DEF Looked
<1> QED BY <1>1, <1>3, <1>4 DEF SessionOf

LEMMA NextTxInv == TypeInv /\ TxInv /\ [Next]_vars => TxInv'
<1> SUFFICES ASSUME TypeInv, TxInv, [Next]_vars PROVE TxInv'
  OBVIOUS
<1>0. TypeInv'
  BY NextSteps
<1>a. ASSUME NEW w \in Workers, Alone(w), request' = request, SessionOf(w)' PROVE TxInv'
  <2>1. \A v \in Workers \ {w} : SessionOf(v)'
    BY <1>a, SessionKept DEF Alone
  <2> QED BY <1>a, <2>1 DEF TxInv
<1>b. ASSUME NEW w \in Workers, at'[w] \notin Writing, at'[w] # "json", tx'[w] = NoTx
      PROVE  SessionOf(w)'
  BY <1>b DEF SessionOf, Writing, Looked
<1>c. ASSUME NEW w \in Workers, request' = request, run'[w].job = run[w].job
      PROVE  Docs(w)' = Docs(w)
  BY <1>c DEF Docs, Request
<1>d. \A w \in Workers : SessionOf(w)
  BY DEF TxInv
<1>1. ASSUME NEW w \in Workers, NEW j \in Jobs, Begin(w, j) PROVE TxInv'
  <2>1. /\ at[w] = "idle" /\ at'[w] = "inputs" /\ tx' = tx /\ request' = request
        /\ \A v \in Workers \ {w} : at'[v] = at[v] /\ run'[v].job = run[v].job
    <3>1. /\ at[w] = "idle" /\ at'[w] = "inputs" /\ tx' = tx /\ request' = request
          /\ \A v \in Workers \ {w} : at'[v] = at[v]
      BY <1>1, BeginStep
    <3>2. ASSUME NEW v \in Workers \ {w} PROVE run'[v].job = run[v].job
      <4>1. \/ run'[v] = [run[v] EXCEPT !.met = run[v].met \cup {j}]
            \/ run'[v] = run[v]
        BY <1>1, BeginStep
      <4>2. run[v] \in RunType
        BY Same
      <4> QED BY <4>1, <4>2 DEF RunType
    <3> QED BY <3>1, <3>2
  <2>2. \A v \in Workers \ {w} : SessionOf(v)'
    BY <2>1, SessionKept
  <2>3. SessionOf(w)'
    BY <1>b, <1>d, <2>1 DEF SessionOf, Writing
  <2> QED BY <2>2, <2>3 DEF TxInv
<1>2. ASSUME NEW w \in Workers, \/ DownloadInputs(w) \/ ResolveRequired(w) \/ MarkGenerating(w)
                                \/ StartRender(w)
      PROVE  TxInv'
  <2>1. /\ Alone(w) /\ request' = request /\ tx'[w] \in {tx[w], NoTx}
        /\ at[w] \in {"inputs", "base", "mark", "draw"}
        /\ at'[w] \in {"base", "mark", "merge", "rendering"}
    BY <1>2, DownloadStep, ResolveStep, MarkStep, StartStep
  <2>2. tx'[w] = NoTx
    BY <1>d, <2>1 DEF SessionOf, Writing
  <2> QED BY <1>a, <1>b, <2>1, <2>2 DEF Writing
<1>3. ASSUME NEW w \in Workers, \/ PreprocessFails(w) \/ GenerationFails(w) \/ ExportFails(w)
                                \/ Cleanup(w) \/ Crash(w)
      PROVE  TxInv'
  <2>1. /\ Alone(w) /\ request' = request /\ tx'[w] \in {tx[w], NoTx}
        /\ at[w] \in Writing => tx'[w] = NoTx
        /\ at'[w] \in {"idle", "cleanup"}
    BY <1>3, LeaveStep, EndStep DEF Writing
  <2>2. tx'[w] = NoTx
    BY <1>d, <2>1 DEF SessionOf
  <2> QED BY <1>a, <1>b, <2>1, <2>2 DEF Writing
<1>4. ASSUME NEW w \in Workers, ReadInputs(w) \/ Render(w) PROVE TxInv'
  <2>1. /\ Alone(w) /\ request' = request /\ tx'[w] = tx[w] /\ SameRun(w)
        /\ at[w] \in {"merge", "rendering"}
        /\ at'[w] \in {"draw", "json", "docx"}
        /\ at'[w] = "json" => Docs(w) = "SRS"
        /\ at'[w] = "docx" => Docs(w) # "SRS"
    BY <1>4, ReadStep, RenderStep DEF Drawn
  <2>2. tx'[w] = NoTx
    BY <1>d, <2>1 DEF SessionOf, Writing
  <2>3. Docs(w)' = Docs(w)
    BY <1>c, <2>1 DEF SameRun
  <2>4. SessionOf(w)'
    BY <2>1, <2>2, <2>3 DEF SessionOf, Writing, Looked, NoTx
  <2> QED BY <1>a, <2>1, <2>4
<1>5. ASSUME NEW w \in Workers, ExportRequirementJson(w) PROVE TxInv'
  <2>1. /\ Alone(w) /\ request' = request /\ run'[w] = run[w] /\ tx'[w].json
        /\ at[w] = "json" /\ at'[w] = "docx"
    BY <1>5, JsonStep
  <2>2. Docs(w)' = "SRS"
    BY <1>c, <1>d, <2>1 DEF SessionOf
  <2>3. SessionOf(w)'
    BY <2>1, <2>2 DEF SessionOf, Writing, Looked
  <2> QED BY <1>a, <2>1, <2>3
<1>6. ASSUME NEW w \in Workers, WriteDocx(w) \/ UploadDocument(w) PROVE TxInv'
  <2>1. /\ Alone(w) /\ request' = request /\ run'[w].job = run[w].job /\ rows' = rows
        /\ (tx'[w].json <=> tx[w].json) /\ tx'[w].seen \in {tx[w].seen, Len(rows)}
        /\ at[w] = "docx" => tx'[w].seen = Len(rows)
        /\ at[w] \in {"docx", "upload"} /\ at'[w] \in {"upload", "register"}
    BY <1>6, WriteStep, UploadStep DEF SameRun
  <2>2. Docs(w)' = Docs(w) /\ Len(rows) \in Nat
    BY <1>c, <2>1 DEF TypeInv
  <2>3. SessionOf(w)'
    BY <1>d, <2>1, <2>2 DEF SessionOf, Writing, Looked
  <2> QED BY <1>a, <2>1, <2>3
<1>7. ASSUME NEW w \in Workers, Register(w) PROVE TxInv'
  <2>1. /\ Alone(w) /\ request' = request /\ run'[w] = run[w] /\ rows' = rows
        /\ tx'[w].seen = tx[w].seen /\ (tx'[w].json <=> tx[w].json)
        /\ tx'[w].row = NoRowSeen(w)
        /\ at[w] = "register" /\ at'[w] = "commit"
    BY <1>7, RegisterStep
  <2>2. Docs(w)' = Docs(w)
    BY <1>c, <2>1
  <2>3. tx[w].seen \in Nat /\ tx[w].seen <= Len(rows) /\ (tx[w].json <=> Docs(w) = "SRS")
    BY <1>d, <2>1 DEF SessionOf, Writing, Looked, TypeInv, TxType
  <2>4. NoRowSeen(w) <=> \A i \in 1 .. tx[w].seen : rows[i].docs # Docs(w)
    BY <2>3, SeenRow DEF NoRowSeen
  <2>5. SessionOf(w)'
    BY <2>1, <2>2, <2>3, <2>4 DEF SessionOf, Writing, Looked
  <2> QED BY <1>a, <2>1, <2>5
<1>8. ASSUME NEW w \in Workers, Commit(w) PROVE TxInv'
  <2>1. /\ Alone(w) /\ request' = request /\ tx'[w] = NoTx /\ at'[w] = "cleanup"
    BY <1>8, CommitStep
  <2> QED BY <1>a, <1>b, <2>1 DEF Writing
<1>9. CASE (\E j \in Jobs : TakenOver(j)) \/ Quiet \/ UNCHANGED vars
  <2>1. UNCHANGED <<request, at, run, tx>>
    BY <1>9, OtherStep
  <2> QED BY <2>1, SessionKept DEF TxInv
<1> QED BY <1>1, <1>2, <1>3, <1>4, <1>5, <1>6, <1>7, <1>8, <1>9 DEF Next

-----------------------------------------------------------------------------
(* Rows, uploads, and runs that meet *)

\* The details stay as they are.
LEMMA DetailsStay ==
  ASSUME TypeInv, TxInv, [Next]_vars
  PROVE  /\ Len(details) \in Nat /\ DOMAIN details = 1 .. Len(details)
         /\ \/ details' = details /\ files' = files
            \/ \E w \in Workers : /\ Commit(w) /\ Len(details') = Len(details) + 1
                                  /\ DOMAIN details' = 1 .. Len(details) + 1
         /\ \A i \in DOMAIN details : i \in DOMAIN details' /\ details'[i] = details[i]
<1>1. /\ Len(details) \in Nat /\ DOMAIN details = 1 .. Len(details)
      /\ DOMAIN details' = 1 .. Len(details')
  BY NextSteps DEF TypeInv
<1>2. ASSUME NEW w \in Workers, Commit(w)
      PROVE  /\ Len(details') = Len(details) + 1
             /\ \A i \in 1 .. Len(details) : details'[i] = details[i]
  BY <1>2, CommitStep
<1>3. ASSUME NEW w \in Workers, NEW j \in Jobs, Begin(w, j)
      PROVE  details' = details /\ files' = files
  BY <1>3, BeginStep
<1>4. (details' = details /\ files' = files) \/ \E w \in Workers : Commit(w)
  BY <1>3, NextSteps DEF RunStep
<1>5. CASE details' = details /\ files' = files
  BY <1>1, <1>5
<1>6. ASSUME NEW w \in Workers, Commit(w)
      PROVE  /\ Len(details') = Len(details) + 1 /\ DOMAIN details' = 1 .. Len(details) + 1
             /\ \A i \in DOMAIN details : i \in DOMAIN details' /\ details'[i] = details[i]
  <2>1. /\ Len(details') = Len(details) + 1
        /\ \A i \in 1 .. Len(details) : details'[i] = details[i]
    BY <1>2, <1>6
  <2>2. DOMAIN details' = 1 .. Len(details) + 1 /\ DOMAIN details \subseteq DOMAIN details'
    BY <1>1, <2>1
  <2> QED BY <1>1, <2>1, <2>2
<1> QED BY <1>1, <1>4, <1>5, <1>6

LEMMA NextRowInv == TypeInv /\ TxInv /\ RowInv /\ [Next]_vars => RowInv'
<1> SUFFICES ASSUME TypeInv, TxInv, RowInv, [Next]_vars,
                    NEW i \in DOMAIN details'
             PROVE  /\ details'[i].row \in DOMAIN rows'
                    /\ rows'[details'[i].row].docs = details'[i].object.docs
  BY DEF RowInv
<1>1. DOMAIN rows = 1 .. Len(rows) /\ DOMAIN rows' = 1 .. Len(rows')
  BY NextSteps DEF TypeInv
<1>2. CASE i \in DOMAIN details
  <2>1. details'[i] = details[i]
    BY <1>2, DetailsStay
  <2>2. details[i].row \in 1 .. Len(rows) /\ rows[details[i].row].docs = details[i].object.docs
    BY <1>1, <1>2 DEF RowInv
  <2> QED BY <1>1, <2>1, <2>2, RowsStay
<1>3. CASE i \notin DOMAIN details
  <2>1. PICK w \in Workers : Commit(w) /\ i = Len(details) + 1
    BY <1>3, DetailsStay
  <2>2. /\ details'[i] = Detail(w)
        /\ Detail(w).row \in 1 .. Len(rows') /\ rows'[Detail(w).row].docs = Docs(w)
    BY <2>1, CommitStep
  <2>3. Detail(w).object.docs = Docs(w)
    BY DEF Detail, Document, Object
  <2> QED BY <1>1, <2>2, <2>3
<1> QED BY <1>2, <1>3

\* A run that is under way was under way before, or begins, and is the same.
LEMMA WorkingStays ==
  ASSUME TypeInv, TxInv, [Next]_vars, NEW v \in Working'
  PROVE  /\ v \in Workers /\ v \in Busy'
         /\ \/ v \in Working /\ run'[v].job = run[v].job /\ run'[v].no = run[v].no
               /\ run[v].met \subseteq run'[v].met /\ Run(v)' = Run(v)
            \/ \E j \in Jobs : Begin(v, j)
<1>0. v \in Workers /\ v \in Busy'
  BY DEF Working, Busy
<1>1. ASSUME NEW w \in Workers, NEW j \in Jobs, Begin(w, j), v # w
      PROVE  /\ v \in Working /\ run'[v].job = run[v].job /\ run'[v].no = run[v].no
             /\ run[v].met \subseteq run'[v].met
  <2>1. /\ at'[v] = at[v]
        /\ \/ run'[v] = [run[v] EXCEPT !.met = run[v].met \cup {j}]
           \/ run'[v] = run[v]
    BY <1>0, <1>1, BeginStep
  <2>2. run[v] \in RunType
    BY <1>0, Same
  <2>3. v \in Working
    BY <1>0, <2>1 DEF Working
  <2> QED BY <2>1, <2>2, <2>3 DEF RunType
<1>2. ASSUME NEW w \in Workers, RunStep(w)
      PROVE  /\ v \in Working /\ run'[v].job = run[v].job /\ run'[v].no = run[v].no
             /\ run[v].met \subseteq run'[v].met
  BY <1>0, <1>2 DEF RunStep, Alone, Working, SameRun
<1>3. ASSUME UNCHANGED <<at, run>>
      PROVE  /\ v \in Working /\ run'[v].job = run[v].job /\ run'[v].no = run[v].no
             /\ run[v].met \subseteq run'[v].met
  BY <1>0, <1>3 DEF Working
<1>4. \/ v \in Working /\ run'[v].job = run[v].job /\ run'[v].no = run[v].no
         /\ run[v].met \subseteq run'[v].met
      \/ \E j \in Jobs : Begin(v, j)
  BY <1>1, <1>2, <1>3, NextSteps
<1> QED BY <1>0, <1>4 DEF Run

LEMMA NextMetInv == TypeInv /\ TxInv /\ MetInv /\ [Next]_vars => MetInv'
<1> SUFFICES ASSUME TypeInv, TxInv, MetInv, [Next]_vars,
                    NEW w1 \in Working', NEW v \in Busy', v # w1
             PROVE  run'[v].job \in run'[w1].met
  BY DEF MetInv
<1>0. w1 \in Workers /\ v \in Workers /\ Working \subseteq Workers /\ Busy \subseteq Workers
  BY DEF Working, Busy
<1>1. ASSUME NEW w \in Workers, NEW j \in Jobs, Begin(w, j)
      PROVE  run'[v].job \in run'[w1].met
  <2>1. /\ at[w] = "idle" /\ at'[w] = "inputs" /\ \A u \in Workers \ {w} : at'[u] = at[u]
        /\ run'[w].job = j /\ run'[w].met = {run[u].job : u \in Busy}
        /\ \A u \in Workers \ {w} :
             IF u \in Busy THEN run'[u] = [run[u] EXCEPT !.met = run[u].met \cup {j}]
             ELSE run'[u] = run[u]
    BY <1>1, BeginStep
  <2>2. \A u \in Workers \ {w} : u \in Busy' => u \in Busy
    BY <2>1 DEF Busy
  <2>3. \A u \in Workers \ {w} : u \in Working' => u \in Working /\ u \in Busy
    BY <2>1 DEF Busy, Working
  <2>4. \A u \in Busy \ {w} : run'[u].job = run[u].job /\ run'[u].met = run[u].met \cup {j}
    <3>1. \A u \in Busy \ {w} : /\ run[u] \in RunType
                                /\ run'[u] = [run[u] EXCEPT !.met = run[u].met \cup {j}]
      BY <1>0, <2>1, Same
    <3> QED BY <3>1 DEF RunType
  <2>5. CASE w1 = w
    BY <1>0, <2>1, <2>2, <2>4, <2>5
  <2>6. CASE v = w
    BY <1>0, <2>1, <2>3, <2>4, <2>6
  <2>7. CASE w1 # w /\ v # w
    BY <1>0, <2>2, <2>3, <2>4, <2>7 DEF MetInv
  <2> QED BY <2>5, <2>6, <2>7
<1>2. ASSUME NEW w \in Workers, RunStep(w) PROVE run'[v].job \in run'[w1].met
  <2>1. w1 \in Working /\ run'[w1].met = run[w1].met
    BY <1>0, <1>2 DEF RunStep, Alone, Working, SameRun
  <2>2. v \in Busy /\ run'[v].job = run[v].job
    BY <1>0, <1>2 DEF RunStep, Alone, Busy
  <2> QED BY <2>1, <2>2 DEF MetInv
<1>3. CASE UNCHANGED <<request, attempt, at, run, tx, rows, details, files, stored, dirs,
                       diagrams, uncleaned>>
  BY <1>3 DEF Working, Busy, MetInv
<1> QED BY <1>1, <1>2, <1>3, NextSteps

LEMMA NextUploadInv == TypeInv /\ TxInv /\ UploadInv /\ [Next]_vars => UploadInv'
<1> SUFFICES ASSUME TypeInv, TxInv, UploadInv, [Next]_vars PROVE UploadInv'
  OBVIOUS
<1> DEFINE Sure(w) == /\ at[w] \in Up => Document(w) \in stored
                      /\ at[w] \in Writing /\ Docs(w) = "SRS" => Json(w) \in stored
<1>a. /\ \A v \in Workers : Sure(v)
      /\ \A i \in DOMAIN details : details[i].object \in stored
      /\ \A i \in DOMAIN files : files[i] \in stored
  BY DEF UploadInv, RowsNameUploads, Objects
<1>b. stored \subseteq stored'
  <2>1. ASSUME NEW w \in Workers, NEW j \in Jobs, Begin(w, j) PROVE stored' = stored
    BY <2>1, BeginStep
  <2>2. CASE UNCHANGED stored
    BY <2>2
  <2> QED BY <2>1, <2>2, OtherStep
          DEF Next, DownloadInputs, ResolveRequired, MarkGenerating, PreprocessFails, ReadInputs,
              GenerationFails, StartRender, Render, ExportRequirementJson, WriteDocx,
              UploadDocument, Uploaded, Register, Commit, ExportFails, Cleanup, Crash
<1>c. ASSUME NEW v \in Workers, request' = request, run'[v].job = run[v].job,
             run'[v].no = run[v].no
      PROVE  Docs(v)' = Docs(v) /\ Document(v)' = Document(v) /\ Json(v)' = Json(v)
  BY <1>c DEF Docs, Request, Document, Json
<1>d. ASSUME \A v \in Workers : Sure(v)' PROVE UploadInv'
  <2>1. ASSUME NEW i \in DOMAIN details' PROVE details'[i].object \in stored'
    <3>1. CASE i \in DOMAIN details
      BY <1>a, <1>b, <3>1, DetailsStay
    <3>2. CASE i \notin DOMAIN details
      <4>1. PICK w \in Workers : Commit(w) /\ i = Len(details) + 1
        BY <3>2, DetailsStay
      <4>2. at[w] = "commit" /\ details'[i] = Detail(w) /\ stored' = stored
        BY <4>1, CommitStep
      <4>3. Document(w) \in stored
        BY <1>a, <4>2 DEF Up
      <4> QED BY <4>2, <4>3 DEF Detail
    <3> QED BY <3>1, <3>2
  <2>2. ASSUME NEW i \in DOMAIN files' PROVE files'[i] \in stored'
    <3>1. CASE files' = files
      BY <1>a, <1>b, <2>2, <3>1
    <3>2. ASSUME NEW w \in Workers, Commit(w) PROVE files'[i] \in stored'
      <4>1. /\ at[w] = "commit" /\ stored' = stored /\ Len(files) \in Nat
            /\ Len(files') = IF Docs(w) = "SRS" THEN Len(files) + 1 ELSE Len(files)
            /\ \A k \in 1 .. Len(files) : files'[k] = files[k]
            /\ Docs(w) = "SRS" => files'[Len(files) + 1] = Json(w)
        BY <3>2, CommitStep
      <4>2. DOMAIN files' = 1 .. Len(files') /\ DOMAIN files = 1 .. Len(files)
        BY NextSteps DEF TypeInv
      <4>3. Docs(w) = "SRS" => Json(w) \in stored
        BY <1>a, <4>1 DEF Writing
      <4>4. i \in 1 .. Len(files) \/ (Docs(w) = "SRS" /\ i = Len(files) + 1)
        BY <2>2, <4>1, <4>2
      <4> QED BY <1>a, <4>1, <4>2, <4>3, <4>4
    <3> QED BY <3>1, <3>2, DetailsStay
  <2> QED BY <1>d, <2>1, <2>2 DEF UploadInv, RowsNameUploads, Objects
<1>e. ASSUME NEW v \in Workers, at'[v] = at[v], request' = request, run'[v].job = run[v].job,
             run'[v].no = run[v].no
      PROVE  Sure(v)'
  BY <1>a, <1>b, <1>c, <1>e
<1>f. ASSUME NEW w \in Workers, Alone(w), request' = request, Sure(w)' PROVE UploadInv'
  <2>1. \A v \in Workers \ {w} : Sure(v)'
    BY <1>e, <1>f DEF Alone
  <2> QED BY <1>d, <1>f, <2>1
<1>1. ASSUME NEW w \in Workers, NEW j \in Jobs, Begin(w, j) PROVE UploadInv'
  <2>1. /\ at'[w] = "inputs" /\ request' = request
        /\ \A v \in Workers \ {w} : at'[v] = at[v]
    BY <1>1, BeginStep
  <2>2. \A v \in Workers \ {w} : run'[v].job = run[v].job /\ run'[v].no = run[v].no
    <3>1. \A v \in Workers \ {w} : /\ run[v] \in RunType
                                   /\ \/ run'[v] = [run[v] EXCEPT !.met = run[v].met \cup {j}]
                                      \/ run'[v] = run[v]
      <4>1. \A v \in Workers \ {w} : \/ run'[v] = [run[v] EXCEPT !.met = run[v].met \cup {j}]
                                       \/ run'[v] = run[v]
        BY <1>1, BeginStep
      <4>2. \A v \in Workers : run[v] \in RunType
        BY Same
      <4> QED BY <4>1, <4>2
    <3> QED BY <3>1 DEF RunType
  <2>3. Sure(w)'
    BY <2>1 DEF Up, Writing
  <2> QED BY <1>d, <1>e, <2>1, <2>2, <2>3
<1>2. ASSUME NEW w \in Workers, \/ DownloadInputs(w) \/ ResolveRequired(w) \/ MarkGenerating(w)
                                \/ StartRender(w) \/ PreprocessFails(w) \/ GenerationFails(w)
                                \/ ExportFails(w) \/ Cleanup(w) \/ Crash(w) \/ Commit(w)
      PROVE  UploadInv'
  <2>1. /\ Alone(w) /\ request' = request /\ at'[w] \notin Writing
    BY <1>2, DownloadStep, ResolveStep, MarkStep, StartStep, LeaveStep, EndStep, CommitStep
       DEF Writing
  <2>2. Sure(w)'
    BY <2>1 DEF Up, Writing
  <2> QED BY <1>f, <2>1, <2>2
<1>3. ASSUME NEW w \in Workers, ReadInputs(w) \/ Render(w) PROVE UploadInv'
  <2>1. /\ Alone(w) /\ request' = request /\ SameRun(w)
        /\ at'[w] \in {"draw", "json", "docx"} /\ (at'[w] = "docx" => Docs(w) # "SRS")
    BY <1>3, ReadStep, RenderStep DEF Drawn
  <2>2. Sure(w)'
    BY <1>c, <2>1 DEF Up, Writing, SameRun
  <2> QED BY <1>f, <2>1, <2>2
<1>4. ASSUME NEW w \in Workers, ExportRequirementJson(w) \/ WriteDocx(w) \/ Register(w)
      PROVE  UploadInv'
  <2>1. /\ Alone(w) /\ request' = request /\ run'[w].job = run[w].job /\ run'[w].no = run[w].no
        /\ \/ at[w] = "json" /\ at'[w] = "docx" /\ Json(w) \in stored'
           \/ at[w] = "docx" /\ at'[w] = "upload"
           \/ at[w] = "register" /\ at'[w] = "commit"
    BY <1>4, JsonStep, WriteStep, RegisterStep DEF SameRun
  <2>2. Sure(w)'
    BY <1>a, <1>b, <1>c, <2>1 DEF Up, Writing
  <2> QED BY <1>f, <2>1, <2>2
<1>5. ASSUME NEW w \in Workers, UploadDocument(w) PROVE UploadInv'
  <2>1. /\ Alone(w) /\ request' = request /\ run'[w] = run[w]
        /\ at[w] = "upload" /\ at'[w] = "register" /\ Document(w) \in stored'
    BY <1>5, UploadStep
  <2>2. Sure(w)'
    BY <1>a, <1>b, <1>c, <2>1 DEF Up, Writing
  <2> QED BY <1>f, <2>1, <2>2
<1>6. CASE (\E j \in Jobs : TakenOver(j)) \/ Quiet \/ UNCHANGED vars
  <2>1. UNCHANGED <<request, at, run>>
    BY <1>6, OtherStep
  <2> QED BY <1>d, <1>e, <2>1
<1> QED BY <1>1, <1>2, <1>3, <1>4, <1>5, <1>6 DEF Next

LEMMA NextAttemptInv == TypeInv /\ TxInv /\ AttemptInv /\ [Next]_vars => AttemptInv'
<1> SUFFICES ASSUME TypeInv, TxInv, AttemptInv, [Next]_vars PROVE AttemptInv'
  OBVIOUS
<1>0. /\ Working \subseteq Workers /\ \A v \in Working : run[v].job \in Jobs /\ run[v].no \in Nat
      /\ \A v \in Working : attempt[run[v].job] \in Nat
  <2>1. ASSUME NEW v \in Working PROVE v \in Workers /\ at[v] # "idle"
    BY DEF Working
  <2>2. \A v \in Working : run[v].job \in Jobs /\ run[v].no \in Nat
    BY <2>1, BusyRuns
  <2> QED BY <2>1, <2>2 DEF TypeInv
<1>a. \A i \in DOMAIN details : /\ details[i].object.job \in JobsOrNone
                                /\ details[i].object.run \in Nat
  <2>1. \A i \in DOMAIN details : details[i] \in DetailType
    BY DEF TypeInv
  <2> QED BY <2>1 DEF DetailType, ObjectType
<1>1. ASSUME NEW w \in Workers, NEW j \in Jobs, Begin(w, j) PROVE AttemptInv'
  <2>1. /\ at[w] = "idle" /\ at'[w] = "inputs" /\ \A v \in Workers \ {w} : at'[v] = at[v]
        /\ attempt' = [attempt EXCEPT ![j] = attempt[j] + 1] /\ attempt[j] \in Nat
        /\ run'[w].job = j /\ run'[w].no = attempt[j] + 1 /\ details' = details
    BY <1>1, BeginStep
  <2>2. \A k \in Jobs : /\ attempt[k] \in Nat /\ attempt'[k] \in Nat /\ attempt[k] <= attempt'[k]
                        /\ k # j => attempt'[k] = attempt[k]
    BY <2>1 DEF TypeInv
  <2>3. \A v \in Working' : \/ v = w
                            \/ v \in Working /\ run'[v].job = run[v].job /\ run'[v].no = run[v].no
    <3>1. ASSUME NEW v \in Working', v # w PROVE ~ \E k \in Jobs : Begin(v, k)
      <4>1. at'[v] # "idle" /\ at[v] = at'[v]
        BY <2>1, <3>1 DEF Working
      <4> QED BY <4>1 DEF Begin
    <3> QED BY <3>1, WorkingStays
  <2>4. attempt'[j] = attempt[j] + 1
    BY <2>1 DEF TypeInv
  <2>5. ASSUME NEW v \in Working' PROVE run'[v].no <= attempt'[run'[v].job]
    <3>1. CASE v = w
      BY <2>1, <2>4, <3>1
    <3>2. CASE v \in Working /\ run'[v].job = run[v].job /\ run'[v].no = run[v].no
      BY <1>0, <2>2, <3>2 DEF AttemptInv
    <3> QED BY <2>3, <3>1, <3>2
  <2>6. ASSUME NEW v \in Working, run'[v].job = run[v].job, run'[v].no = run[v].no
        PROVE  Run(v)' # Run(w)'
    <3>1. run[v].no <= attempt[run[v].job]
      BY <2>6 DEF AttemptInv
    <3>2. ~(run[v].job = j /\ run[v].no = attempt[j] + 1)
      BY <1>0, <2>1, <3>1
    <3> QED BY <2>1, <2>6, <3>2 DEF Run
  <2>7. ASSUME NEW u \in Working', NEW v \in Working', v # u PROVE Run(v)' # Run(u)'
    <3>1. CASE u = w \/ v = w
      BY <2>3, <2>6, <2>7, <3>1
    <3>2. CASE u # w /\ v # w
      <4>1. /\ u \in Working /\ run'[u].job = run[u].job /\ run'[u].no = run[u].no
            /\ v \in Working /\ run'[v].job = run[v].job /\ run'[v].no = run[v].no
        BY <2>3, <3>2
      <4>2. Run(v) # Run(u) /\ Run(v)' = Run(v) /\ Run(u)' = Run(u)
        BY <2>7, <4>1 DEF AttemptInv, Run
      <4> QED BY <4>2
    <3> QED BY <3>1, <3>2
  <2>8. ASSUME NEW i \in DOMAIN details, details[i].object.job # 0
        PROVE  /\ details[i].object.run <= attempt[details[i].object.job]
               /\ details[i].object.run <= attempt'[details[i].object.job]
    <3>1. details[i].object.job \in Jobs /\ details[i].object.run \in Nat
      BY <1>a, <2>8 DEF JobsOrNone
    <3>2. details[i].object.run <= attempt[details[i].object.job]
      BY <2>8 DEF AttemptInv
    <3> QED BY <2>2, <3>1, <3>2
  <2>9. ASSUME NEW i \in DOMAIN details, NEW v \in Working'
        PROVE  Version(details[i].object) # Run(v)'
    <3>1. CASE v = w
      <4>1. ~(details[i].object.job = j /\ details[i].object.run = attempt[j] + 1)
        BY <1>a, <2>1, <2>8, ConstantsAssumption
      <4> QED BY <2>1, <3>1, <4>1 DEF Version, Run
    <3>2. CASE v \in Working /\ run'[v].job = run[v].job /\ run'[v].no = run[v].no
      <4>1. Run(v)' = Run(v) /\ Version(details[i].object) # Run(v)
        BY <3>2 DEF Run, AttemptInv
      <4> QED BY <4>1
    <3> QED BY <2>3, <3>1, <3>2
  <2>10. \A i \in DOMAIN details' :
           LET x == details'[i].object IN x.job # 0 => x.run <= attempt'[x.job]
    BY <2>1, <2>8
  <2>11. \A i \in DOMAIN details', v \in Working' : Version(details'[i].object) # Run(v)'
    BY <2>1, <2>9
  <2>12. \A i, k \in DOMAIN details' :
           i # k => Version(details'[i].object) # Version(details'[k].object)
    BY <2>1 DEF AttemptInv
  <2> QED BY <2>5, <2>7, <2>10, <2>11, <2>12 DEF AttemptInv, Version
<1>2. ASSUME attempt' = attempt,
             \A v \in Working' : v \in Working /\ run'[v].job = run[v].job /\ run'[v].no = run[v].no
      PROVE  AttemptInv'
  <2>1. \A v \in Working' : v \in Working /\ Run(v)' = Run(v)
    BY <1>2 DEF Run
  <2>2. \A v \in Working' : run'[v].no <= attempt'[run'[v].job]
    BY <1>2 DEF AttemptInv
  <2>3. \A u, v \in Working' : v # u => Run(v)' # Run(u)'
    BY <2>1 DEF AttemptInv
  <2>4. CASE details' = details
    <3>1. \A i \in DOMAIN details', v \in Working' : Version(details'[i].object) # Run(v)'
      BY <2>1, <2>4 DEF AttemptInv
    <3>2. /\ \A i \in DOMAIN details' :
               LET x == details'[i].object IN x.job # 0 => x.run <= attempt'[x.job]
          /\ \A i, k \in DOMAIN details' :
               i # k => Version(details'[i].object) # Version(details'[k].object)
      BY <1>2, <2>4 DEF AttemptInv
    <3> QED BY <2>2, <2>3, <3>1, <3>2 DEF AttemptInv, Version
  <2>5. ASSUME NEW w \in Workers, Commit(w),
               DOMAIN details' = 1 .. Len(details) + 1
        PROVE  AttemptInv'
    <3>1. /\ at[w] = "commit" /\ at'[w] = "cleanup" /\ details'[Len(details) + 1] = Detail(w)
          /\ DOMAIN details = 1 .. Len(details) /\ Len(details) \in Nat
          /\ \A i \in DOMAIN details : details'[i] = details[i]
      BY <2>5, CommitStep, DetailsStay
    <3>2. /\ w \in Working /\ w \notin Working'
          /\ \A i \in DOMAIN details' : i \in DOMAIN details \/ i = Len(details) + 1
      BY <2>5, <3>1 DEF Working
    <3>3. /\ Detail(w).object.job = run[w].job /\ Detail(w).object.run = run[w].no
          /\ Version(Detail(w).object) = Run(w)
      BY DEF Detail, Document, Object, Version, Run
    <3>4. ASSUME NEW i \in DOMAIN details', NEW v \in Working'
          PROVE  Version(details'[i].object) # Run(v)'
      <4>1. v \in Working /\ Run(v)' = Run(v) /\ v # w
        BY <2>1, <3>2
      <4>2. CASE i \in DOMAIN details
        BY <3>1, <4>1, <4>2 DEF AttemptInv, Version
      <4>3. CASE i = Len(details) + 1
        <5>1. Run(v) # Run(w)
          BY <3>2, <4>1 DEF AttemptInv
        <5> QED BY <3>1, <3>3, <4>1, <4>3, <5>1
      <4> QED BY <3>2, <4>2, <4>3
    <3>5. ASSUME NEW i \in DOMAIN details', details'[i].object.job # 0
          PROVE  details'[i].object.run <= attempt'[details'[i].object.job]
      <4>1. CASE i \in DOMAIN details
        BY <1>2, <3>1, <3>5, <4>1 DEF AttemptInv
      <4>2. CASE i = Len(details) + 1
        BY <1>2, <3>1, <3>2, <3>3, <4>2 DEF AttemptInv
      <4> QED BY <3>2, <4>1, <4>2
    <3>6. ASSUME NEW i \in DOMAIN details
          PROVE  Version(details'[i].object) # Version(details'[Len(details) + 1].object)
      BY <3>1, <3>2, <3>3 DEF AttemptInv
    <3>7. ASSUME NEW i \in DOMAIN details', NEW k \in DOMAIN details', i # k
          PROVE  Version(details'[i].object) # Version(details'[k].object)
      <4>1. CASE i \in DOMAIN details /\ k \in DOMAIN details
        BY <3>1, <3>7, <4>1 DEF AttemptInv
      <4> QED BY <3>2, <3>6, <3>7, <4>1
    <3> QED BY <2>2, <2>3, <3>4, <3>5, <3>7 DEF AttemptInv, Version
  <2> QED BY <2>4, <2>5, DetailsStay
<1>3. ASSUME NEW w \in Workers, RunStep(w) PROVE AttemptInv'
  <2>1. \A v \in Working' : v \in Working /\ run'[v].job = run[v].job /\ run'[v].no = run[v].no
    BY <1>3 DEF RunStep, Alone, Working, SameRun
  <2> QED BY <1>2, <1>3, <2>1 DEF RunStep
<1>4. CASE UNCHANGED <<request, attempt, at, run, tx, rows, details, files, stored, dirs,
                       diagrams, uncleaned>>
  BY <1>2, <1>4 DEF Working
<1> QED BY <1>1, <1>3, <1>4, NextSteps

-----------------------------------------------------------------------------
(* What a run that met nobody has made *)

\* Those who are at work when another one takes a step have met it.
LEMMA OthersMeet ==
  ASSUME TypeInv, TxInv, MetInv, [Next]_vars, NEW v \in Working', NEW w \in Workers, v # w,
         (\E j \in Jobs : Begin(w, j)) \/ RunStep(w)
  PROVE  run'[v].met # {}
<1>1. MetInv'
  BY NextMetInv
<1>2. ASSUME NEW j \in Jobs, Begin(w, j) PROVE w \in Busy'
  BY <1>2, BeginStep DEF Busy
<1>3. ASSUME RunStep(w) PROVE run[w].job \in run'[v].met
  <2>1. v \in Working /\ run'[v] = run[v] /\ w \in Busy
    BY <1>3 DEF RunStep, Alone, Working
  <2> QED BY <2>1 DEF MetInv
<1> QED BY <1>1, <1>2, <1>3 DEF MetInv

\* What was known of a step's own run is used for its detail.
LEMMA NewDetail ==
  ASSUME TypeInv, TxInv, [Next]_vars, NEW i \in DOMAIN details', i \notin DOMAIN details
  PROVE  \E w \in Working : /\ w \in Workers /\ Commit(w) /\ at[w] = "commit"
                            /\ i = Len(details) + 1 /\ details'[i] = Detail(w)
                            /\ request' = request
<1>1. PICK w \in Workers : Commit(w) /\ i = Len(details) + 1
  BY DetailsStay
<1>2. at[w] = "commit" /\ details'[i] = Detail(w) /\ request' = request
  BY <1>1, CommitStep
<1> QED BY <1>1, <1>2 DEF Working

LEMMA DetailFields ==
  ASSUME NEW w
  PROVE  /\ Detail(w).object = Document(w) /\ Detail(w).object.docs = Docs(w)
         /\ Detail(w).object.job = run[w].job /\ Detail(w).object.run = run[w].no
         /\ Version(Detail(w).object) = Run(w)
         /\ Detail(w).job = run[w].job /\ Detail(w).bases = run[w].bases
         /\ Detail(w).read = run[w].read /\ Detail(w).picture = run[w].picture
         /\ Detail(w).met = run[w].met
BY DEF Detail, Document, Object, Version, Run

\* Requests never change.
LEMMA RequestsStay == TypeInv /\ TxInv /\ [Next]_vars => request' = request
<1>1. ASSUME TypeInv, NEW w \in Workers, NEW j \in Jobs, Begin(w, j) PROVE request' = request
  BY <1>1, BeginStep
<1> QED BY <1>1, NextSteps DEF RunStep

\* What holds of the worker that takes a step, and of those who did not meet it.
LEMMA NextPictureIsOwn ==
  TypeInv /\ TxInv /\ PictureInv /\ [Next]_vars => PictureIsOwn'
<1> SUFFICES ASSUME TypeInv, TxInv, PictureInv, [Next]_vars, NEW i \in DOMAIN details',
                    details'[i].job # 0, details'[i].object.docs \in Drawn,
                    details'[i].picture # details'[i].job
             PROVE  details'[i].met # {}
  BY DEF PictureIsOwn, Registered
<1>1. CASE i \in DOMAIN details
  <2>1. details'[i] = details[i]
    BY <1>1, DetailsStay
  <2> QED BY <1>1, <2>1 DEF PictureInv, PictureIsOwn, Registered
<1>2. CASE i \notin DOMAIN details
  <2>1. PICK w \in Working : at[w] = "commit" /\ details'[i] = Detail(w)
    BY <1>2, NewDetail
  <2>2. run[w].picture # run[w].job /\ Docs(w) \in Drawn /\ details'[i].met = run[w].met
    BY <2>1, DetailFields
  <2> QED BY <2>1, <2>2 DEF PictureInv, PictureOf, Looked
<1> QED BY <1>1, <1>2

LEMMA NextPictureInv == TypeInv /\ TxInv /\ MetInv /\ PictureInv /\ [Next]_vars => PictureInv'
<1> SUFFICES ASSUME TypeInv, TxInv, MetInv, PictureInv, [Next]_vars,
                    NEW v \in Working', run'[v].met = {}
             PROVE  PictureOf(v)'
  BY NextPictureIsOwn DEF PictureInv, PictureOf
<1>0. v \in Workers /\ at'[v] # "idle" /\ at'[v] # "cleanup"
  BY DEF Working
<1>a. ASSUME NEW w \in Workers, v # w, (\E j \in Jobs : Begin(w, j)) \/ RunStep(w) PROVE FALSE
  BY <1>a, OthersMeet
<1>b. \A w \in Working : PictureOf(w)
  BY DEF PictureInv
<1>1. CASE \E j \in Jobs : Begin(v, j)
  <2>1. at'[v] = "inputs"
    BY <1>0, <1>1, BeginStep
  <2> QED BY <2>1 DEF PictureOf, Looked
<1>c. ASSUME SameRun(v), request' = request
      PROVE  Docs(v)' = Docs(v) /\ Run(v)' = Run(v) /\ run[v].met = {} /\ run'[v].job = run[v].job
  BY <1>c DEF Docs, Request, Run, SameRun
<1>2. ASSUME \/ DownloadInputs(v) \/ ResolveRequired(v) \/ MarkGenerating(v) PROVE PictureOf(v)'
  <2>1. at'[v] \in {"base", "mark", "merge"}
    BY <1>0, <1>2, DownloadStep, ResolveStep, MarkStep
  <2> QED BY <2>1 DEF PictureOf, Looked
<1>3. ASSUME ReadInputs(v) PROVE PictureOf(v)'
  <2>1. /\ at'[v] \in {"draw", "json", "docx"} /\ (at'[v] = "docx" => Docs(v) \notin Drawn)
        /\ SameRun(v) /\ request' = request
    BY <1>0, <1>3, ReadStep
  <2> QED BY <1>c, <2>1 DEF PictureOf, Looked
<1>4. ASSUME StartRender(v) PROVE PictureOf(v)'
  <2>1. /\ at'[v] = "rendering" /\ SameRun(v) /\ request' = request
        /\ diagrams'[Docs(v)].source = Run(v) /\ diagrams'[Docs(v)].image = <<0, 0>>
    BY <1>0, <1>4, StartStep
  <2> QED BY <1>c, <2>1 DEF PictureOf, Looked
<1>5. ASSUME Render(v) PROVE PictureOf(v)'
  <2>1. /\ SameRun(v) /\ request' = request /\ at[v] = "rendering"
        /\ \/ at'[v] = "draw"
           \/ at'[v] = "docx" /\ diagrams'[Docs(v)].image # <<0, 0>>
        /\ diagrams'[Docs(v)].image \in {diagrams[Docs(v)].image, diagrams[Docs(v)].source}
    BY <1>0, <1>5, RenderStep
  <2>2. v \in Working
    BY <1>0, <2>1 DEF Working
  <2>3. diagrams[Docs(v)].image = <<0, 0>> /\ diagrams[Docs(v)].source = Run(v)
    BY <1>b, <1>c, <2>1, <2>2 DEF PictureOf
  <2>4. at'[v] = "docx" => diagrams'[Docs(v)].image = Run(v)
    BY <2>1, <2>3
  <2> QED BY <1>c, <2>1, <2>4 DEF PictureOf, Looked
<1>6. ASSUME ExportRequirementJson(v) PROVE PictureOf(v)'
  <2>1. at[v] = "json" /\ at'[v] = "docx" /\ run'[v] = run[v] /\ request' = request
    BY <1>0, <1>6, JsonStep
  <2>2. Docs(v)' \notin Drawn
    BY <1>0, <2>1 DEF TxInv, SessionOf, Docs, Request, Drawn
  <2> QED BY <2>1, <2>2 DEF PictureOf, Looked
<1>7. ASSUME WriteDocx(v) PROVE PictureOf(v)'
  <2>1. /\ at[v] = "docx" /\ at'[v] = "upload" /\ SameRun(v) /\ request' = request
        /\ run'[v].picture = Picture(v)
    BY <1>0, <1>7, WriteStep
  <2>2. v \in Working
    BY <1>0, <2>1 DEF Working
  <2>3. Docs(v) \in Drawn => diagrams[Docs(v)].image = Run(v)
    BY <1>b, <1>c, <2>1, <2>2 DEF PictureOf
  <2>4. Docs(v) \in Drawn => Picture(v) = run[v].job
    BY <2>3 DEF Picture, Run
  <2> QED BY <1>c, <2>1, <2>4 DEF PictureOf, Looked
<1>8. ASSUME UploadDocument(v) \/ Register(v) PROVE PictureOf(v)'
  <2>1. /\ at[v] \in {"upload", "register"} /\ at'[v] \in {"register", "commit"}
        /\ run'[v] = run[v] /\ request' = request
    BY <1>0, <1>8, UploadStep, RegisterStep
  <2>2. v \in Working
    BY <1>0, <2>1 DEF Working
  <2>3. Docs(v) \in Drawn => run[v].picture = run[v].job
    BY <1>b, <2>1, <2>2 DEF PictureOf, Looked
  <2>4. Docs(v)' = Docs(v)
    BY <2>1 DEF Docs, Request
  <2> QED BY <2>1, <2>3, <2>4 DEF PictureOf, Looked
<1>9. ASSUME \/ PreprocessFails(v) \/ GenerationFails(v) \/ ExportFails(v) \/ Commit(v)
             \/ Cleanup(v) \/ Crash(v)
      PROVE  FALSE
  BY <1>0, <1>9, LeaveStep, CommitStep, EndStep
<1>10. ASSUME UNCHANGED <<request, at, run, diagrams>> PROVE PictureOf(v)'
  <2>1. v \in Working /\ PictureOf(v) /\ Docs(v)' = Docs(v) /\ Run(v)' = Run(v)
    BY <1>0, <1>b, <1>10 DEF Working, Docs, Request, Run
  <2> QED BY <1>10, <2>1 DEF PictureOf
<1>11. CASE Moves(v)
  BY <1>2, <1>3, <1>4, <1>5, <1>6, <1>7, <1>8, <1>9, <1>11 DEF Moves
<1> QED BY <1>0, <1>a, <1>1, <1>10, <1>11, NextSteps

-----------------------------------------------------------------------------
(* What a run that goes on keeps *)

Late == {"draw", "rendering", "json", "docx", "upload", "register", "commit"}

\* Where a run was told what to make its document of, and of what it made it.
Going(v) ==
  /\ run'[v].bases = run[v].bases /\ run'[v].read = run[v].read
  /\ at'[v] \in Looked => at[v] \in Looked /\ tx'[v].seen = tx[v].seen
  /\ \/ at'[v] = at[v] /\ run'[v].seen = run[v].seen
     \/ at[v] = "mark" /\ at'[v] = "merge"
     \/ at[v] \in Late /\ at'[v] \in Late

LEMMA RunGoesOn ==
  ASSUME TypeInv, TxInv, [Next]_vars, NEW v \in Working'
  PROVE  /\ v \in Workers /\ request' = request
         /\ \/ \E j \in Jobs : Begin(v, j)
            \/ /\ v \in Working /\ run[v].job \in Jobs /\ run'[v].job = run[v].job
               /\ run[v].met \subseteq run'[v].met
               /\ \/ DownloadInputs(v) \/ ResolveRequired(v) \/ ReadInputs(v) \/ WriteDocx(v)
                  \/ Going(v)
<1>0. v \in Workers /\ request' = request /\ at'[v] \notin {"idle", "cleanup"}
  BY RequestsStay DEF Working
<1>1. ASSUME MarkGenerating(v) \/ StartRender(v) \/ Render(v) \/ ExportRequirementJson(v)
      PROVE  Going(v)
  BY <1>0, <1>1, MarkStep, StartStep, RenderStep, JsonStep DEF Going, Late, Looked
<1>2. ASSUME UploadDocument(v) \/ Register(v)
      PROVE  Going(v)
  BY <1>0, <1>2, UploadStep, RegisterStep DEF Going, Late, Looked
<1>3. ASSUME \/ PreprocessFails(v) \/ GenerationFails(v) \/ ExportFails(v) \/ Commit(v)
             \/ Cleanup(v) \/ Crash(v)
      PROVE  FALSE
  BY <1>0, <1>3, LeaveStep, CommitStep, EndStep
<1>4. ASSUME NEW w \in Workers, NEW j \in Jobs, Begin(w, j), w # v
      PROVE  Going(v)
  <2>1. /\ at'[v] = at[v] /\ tx' = tx
        /\ \/ run'[v] = [run[v] EXCEPT !.met = run[v].met \cup {j}]
           \/ run'[v] = run[v]
    BY <1>0, <1>4, BeginStep
  <2>2. run[v] \in RunType
    BY <1>0, Same
  <2>3. run'[v].bases = run[v].bases /\ run'[v].read = run[v].read /\ run'[v].seen = run[v].seen
    BY <2>1, <2>2 DEF RunType
  <2> QED BY <2>1, <2>3 DEF Going
<1>5. ASSUME NEW w \in Workers, RunStep(w), w # v PROVE Going(v)
  BY <1>0, <1>5 DEF RunStep, Alone, Going
<1>6. ASSUME UNCHANGED <<at, run, tx>> PROVE Going(v)
  BY <1>6 DEF Going
<1>7. \/ \E j \in Jobs : Begin(v, j)
      \/ DownloadInputs(v) \/ ResolveRequired(v) \/ ReadInputs(v) \/ WriteDocx(v)
      \/ Going(v)
  BY <1>0, <1>1, <1>2, <1>3, <1>4, <1>5, <1>6, NextSteps DEF Moves
<1>8. v \in Working => run[v].job \in Jobs
  BY BusyRuns DEF Working
<1> QED BY <1>0, <1>7, <1>8, WorkingStays

-----------------------------------------------------------------------------
(* The files of a request *)

\* A file in a working directory is left, removed or replaced by a run that names the
\* directory.
LEMMA FilesChange ==
  ASSUME TypeInv, TxInv, [Next]_vars, NEW d \in Jobs, NEW n \in FileNames
  PROVE  \/ dirs'[d].files[n] \in {dirs[d].files[n], 0}
         \/ \E w \in Busy : Dir(w) = d /\ dirs'[d].files[n] = run[w].job
<1>1. ASSUME NEW w \in Workers, DownloadInputs(w)
      PROVE  \/ dirs'[d].files[n] = dirs[d].files[n]
             \/ w \in Busy /\ Dir(w) = d /\ dirs'[d].files[n] = run[w].job
  BY <1>1, DownloadStep DEF Busy
<1>2. ASSUME NEW w \in Workers, Cleanup(w) \/ Crash(w)
      PROVE  dirs'[d].files[n] \in {dirs[d].files[n], 0}
  <2>1. dirs' = dirs \/ dirs' = [dirs EXCEPT ![Dir(w)] = NoDir]
    BY <1>2, EndStep
  <2>2. dirs'[d] = dirs[d] \/ dirs'[d] = NoDir
    BY <2>1 DEF TypeInv
  <2> QED BY <2>2 DEF NoDir
<1>3. ASSUME NEW w \in Workers, ResolveRequired(w)
      PROVE  dirs'[d].files[n] = dirs[d].files[n]
  BY <1>3, ResolveStep
<1>4. ASSUME NEW w \in Workers,
             \/ MarkGenerating(w) \/ PreprocessFails(w) \/ ReadInputs(w) \/ GenerationFails(w)
             \/ StartRender(w) \/ Render(w) \/ ExportRequirementJson(w) \/ WriteDocx(w)
      PROVE  dirs' = dirs
  BY <1>4, MarkStep, LeaveStep, ReadStep, StartStep, RenderStep, JsonStep, WriteStep
<1>5. ASSUME NEW w \in Workers, UploadDocument(w) \/ Register(w) \/ Commit(w) \/ ExportFails(w)
      PROVE  dirs' = dirs
  BY <1>5, UploadStep, RegisterStep, CommitStep, LeaveStep
<1>6. ASSUME NEW w \in Workers, NEW j \in Jobs, Begin(w, j) PROVE dirs' = dirs
  BY <1>6, BeginStep
<1> QED BY <1>1, <1>2, <1>3, <1>4, <1>5, <1>6, NextSteps DEF Moves

LEMMA NextInputsAreOwn == TypeInv /\ TxInv /\ InputInv /\ [Next]_vars => InputsAreOwn'
<1> SUFFICES ASSUME TypeInv, TxInv, InputInv, [Next]_vars, NEW i \in DOMAIN details',
                    details'[i].job # 0
             PROVE  \/ details'[i].read \subseteq {details'[i].job}
                    \/ \E j \in details'[i].met \ {details'[i].job} :
                          request'[j].dir = request'[details'[i].job].dir
  BY DEF InputsAreOwn, Registered
<1>0. request' = request
  BY RequestsStay
<1>1. CASE i \in DOMAIN details
  <2>1. details'[i] = details[i]
    BY <1>1, DetailsStay
  <2> QED BY <1>0, <1>1, <2>1 DEF InputInv, InputsAreOwn, Registered
<1>2. CASE i \notin DOMAIN details
  <2>1. PICK w \in Working : at[w] = "commit" /\ details'[i] = Detail(w)
    BY <1>2, NewDetail
  <2>2. Shared(w) \/ run[w].read \subseteq {run[w].job}
    BY <2>1 DEF InputInv, InputOf, Unread
  <2>3. /\ details'[i].read = run[w].read /\ details'[i].job = run[w].job
        /\ details'[i].met = run[w].met
    BY <2>1, DetailFields
  <2> QED BY <1>0, <2>2, <2>3 DEF Shared, Dir, Request
<1> QED BY <1>1, <1>2

LEMMA NextInputInv == TypeInv /\ TxInv /\ MetInv /\ InputInv /\ [Next]_vars => InputInv'
<1> SUFFICES ASSUME TypeInv, TxInv, MetInv, InputInv, [Next]_vars,
                    NEW v \in Working', ~Shared(v)'
             PROVE  InputOf(v)'
  BY NextInputsAreOwn DEF InputInv, InputOf
<1>0. v \in Workers /\ request' = request
  BY RunGoesOn
<1>1. ASSUME NEW j \in Jobs, Begin(v, j) PROVE InputOf(v)'
  BY <1>0, <1>1, BeginStep DEF InputOf
<1>2. ASSUME v \in Working, run[v].job \in Jobs, run'[v].job = run[v].job,
             run[v].met \subseteq run'[v].met
      PROVE  /\ Request(v)' = Request(v) /\ Dir(v)' = Dir(v) /\ Dir(v) \in Jobs
             /\ Request(v).files \subseteq FileNames
             /\ ~Shared(v) /\ InputOf(v)
             /\ \A n \in FileNames :
                  dirs'[Dir(v)].files[n] \in {dirs[Dir(v)].files[n], 0, run[v].job}
  <2>1. Request(v)' = Request(v) /\ Dir(v)' = Dir(v)
    BY <1>0, <1>2 DEF Request, Dir
  <2>2. Dir(v) \in Jobs /\ Request(v).files \subseteq FileNames
    BY <1>0, <1>2, BusyRuns DEF Working, RequestType
  <2>3. ~Shared(v)
    BY <1>0, <1>2, <2>1 DEF Shared
  <2>4. ASSUME NEW w \in Busy, Dir(w) = Dir(v) PROVE run[w].job = run[v].job
    <3>1. w # v => run[w].job \in run[v].met
      BY <1>2 DEF MetInv
    <3> QED BY <2>3, <2>4, <3>1 DEF Shared, Dir, Request
  <2>5. \A n \in FileNames :
          dirs'[Dir(v)].files[n] \in {dirs[Dir(v)].files[n], 0, run[v].job}
    BY <2>2, <2>4, FilesChange
  <2> QED BY <1>2, <2>1, <2>2, <2>3, <2>5 DEF InputInv
<1>3. ASSUME v \in Working, run[v].job \in Jobs, run'[v].job = run[v].job,
             run[v].met \subseteq run'[v].met,
             \/ DownloadInputs(v) \/ ResolveRequired(v) \/ ReadInputs(v) \/ WriteDocx(v)
             \/ Going(v)
      PROVE  InputOf(v)'
  <2>0. /\ Request(v)' = Request(v) /\ Dir(v)' = Dir(v) /\ Dir(v) \in Jobs
        /\ Request(v).files \subseteq FileNames
        /\ ~Shared(v) /\ InputOf(v)
        /\ \A n \in FileNames :
             dirs'[Dir(v)].files[n] \in {dirs[Dir(v)].files[n], 0, run[v].job}
    BY <1>2, <1>3
  <2>1. CASE DownloadInputs(v)
    <3>1. /\ at'[v] = "base" /\ \A n \in Request(v).files : dirs'[Dir(v)].files[n] = run[v].job
      BY <1>0, <2>0, <2>1, DownloadStep
    <3> QED BY <1>3, <2>0, <3>1 DEF InputOf, Unread
  <2>2. ASSUME at[v] \in Unread, at'[v] \in Unread PROVE InputOf(v)'
    <3>1. \A n \in Request(v).files : dirs[Dir(v)].files[n] \in {0, run[v].job}
      BY <2>0, <2>2 DEF InputOf, Unread
    <3>2. \A n \in Request(v).files : dirs'[Dir(v)].files[n] \in {0, run[v].job}
      BY <2>0, <3>1
    <3> QED BY <1>3, <2>0, <2>2, <3>2 DEF InputOf
  <2>3. CASE ResolveRequired(v)
    BY <1>0, <2>2, <2>3, ResolveStep DEF Unread
  <2>4. CASE ReadInputs(v)
    <3>1. /\ at[v] = "merge" /\ at'[v] \notin Unread /\ at'[v] # "inputs"
          /\ run'[v].read = {dirs[Dir(v)].files[n] : n \in Request(v).files}
          /\ 0 \notin run'[v].read
      BY <1>0, <2>4, ReadStep DEF Unread
    <3>2. \A n \in Request(v).files : dirs[Dir(v)].files[n] \in {0, run[v].job}
      BY <2>0, <3>1 DEF InputOf, Unread
    <3>3. run'[v].read \subseteq {run[v].job}
      BY <3>1, <3>2
    <3> QED BY <1>3, <3>1, <3>3 DEF InputOf
  <2>5. ASSUME at[v] \notin Unread, at[v] # "inputs", at'[v] \notin Unread, at'[v] # "inputs",
               run'[v].read = run[v].read
        PROVE  InputOf(v)'
    BY <1>3, <2>0, <2>5 DEF InputOf
  <2>6. CASE WriteDocx(v)
    BY <1>0, <2>5, <2>6, WriteStep DEF Unread
  <2>7. CASE Going(v)
    <3>1. CASE at'[v] = "inputs"
      BY <3>1 DEF InputOf
    <3> QED BY <2>2, <2>5, <2>7, <3>1 DEF Going, Late, Unread
  <2> QED BY <1>3, <2>1, <2>3, <2>4, <2>6, <2>7
<1> QED BY <1>1, <1>3, RunGoesOn

-----------------------------------------------------------------------------
(* The rows of a document *)

LEMMA NewRow ==
  ASSUME TypeInv, TxInv, [Next]_vars, NEW i \in DOMAIN rows', i \notin DOMAIN rows
  PROVE  \E w \in Workers : Commit(w) /\ tx[w].row /\ rows'[i].docs = Docs(w)
<1>1. DOMAIN rows = 1 .. Len(rows) /\ DOMAIN rows' = 1 .. Len(rows')
  BY NextSteps DEF TypeInv
<1>2. ASSUME NEW w \in Workers, NEW j \in Jobs, Begin(w, j) PROVE rows' = rows
  BY <1>2, BeginStep
<1>3. rows' = rows \/ \E w \in Workers : Commit(w)
  BY <1>2, NextSteps DEF RunStep
<1>4. PICK w \in Workers : Commit(w)
  BY <1>1, <1>3
<1>5. /\ Len(rows) \in Nat /\ tx[w].row /\ i = Len(rows) + 1
  <2>1. Len(rows) \in Nat /\ Len(rows') = IF tx[w].row THEN Len(rows) + 1 ELSE Len(rows)
    BY <1>4, CommitStep
  <2> QED BY <1>1, <2>1
<1> QED BY <1>4, <1>5, CommitStep

\* Runs that go on meet those who register.
LEMMA CommitIsMet ==
  ASSUME TypeInv, TxInv, MetInv, [Next]_vars, NEW v \in Working', NEW w \in Workers, Commit(w)
  PROVE  Met(v, Docs(w))'
<1>1. /\ v \in Workers /\ v # w /\ w \in Busy /\ request' = request
      /\ run'[w].job = run[w].job
  BY CommitStep DEF Working, Busy
<1>2. ~ \E j \in Jobs : Begin(v, j)
  BY <1>1, CommitStep DEF Begin, Alone, Working
<1>3. v \in Working /\ run[v].met \subseteq run'[v].met
  BY <1>2, WorkingStays
<1>4. run[w].job \in run'[v].met
  BY <1>1, <1>3 DEF MetInv
<1> QED BY <1>1, <1>4 DEF Met, Docs, Request

LEMMA MetStays ==
  ASSUME NEW v, NEW d, request' = request, run[v].met \subseteq run'[v].met, Met(v, d)
  PROVE  Met(v, d)'
BY DEF Met

LEMMA NextRowsOf ==
  ASSUME TypeInv, TxInv, MetInv, OneRowInv, [Next]_vars, NEW v \in Working'
  PROVE  RowsOf(v)'
<1> SUFFICES ASSUME at'[v] \in Looked, NEW i \in DOMAIN rows', tx'[v].seen < i,
                    rows'[i].docs = Docs(v)'
             PROVE  Met(v, Docs(v))'
  BY DEF RowsOf, Met, Docs, Request
<1>0. v \in Workers /\ request' = request
  BY RunGoesOn
<1>1. CASE i \notin DOMAIN rows
  <2>1. PICK w \in Workers : Commit(w) /\ rows'[i].docs = Docs(w)
    BY <1>1, NewRow
  <2>2. Met(v, Docs(w))'
    BY <2>1, CommitIsMet
  <2> QED BY <2>1, <2>2, <1>0, CommitStep DEF Met, Docs, Request
<1>2. CASE i \in DOMAIN rows
  <2>1. rows'[i].docs = rows[i].docs /\ i \in 1 .. Len(rows) /\ Len(rows) \in Nat
    BY <1>2, RowsStay DEF TypeInv
  <2>2. ASSUME NEW j \in Jobs, Begin(v, j) PROVE FALSE
    BY <1>0, <2>2, BeginStep DEF Looked
  <2>3. /\ v \in Working /\ Docs(v)' = Docs(v) /\ run[v].met \subseteq run'[v].met
        /\ \/ DownloadInputs(v) \/ ResolveRequired(v) \/ ReadInputs(v) \/ WriteDocx(v)
           \/ Going(v)
    BY <2>2, RunGoesOn DEF Docs, Request
  <2>4. WriteDocx(v) => tx'[v].seen = Len(rows)
    BY <1>0, WriteStep
  <2>5. ~WriteDocx(v)
    BY <2>1, <2>4
  <2>6. ~DownloadInputs(v) /\ ~ResolveRequired(v) /\ ~ReadInputs(v)
    BY <1>0, DownloadStep, ResolveStep, ReadStep DEF Looked
  <2>7. at[v] \in Looked /\ tx'[v].seen = tx[v].seen
    BY <2>3, <2>5, <2>6 DEF Going
  <2>8. Met(v, Docs(v))
    BY <1>2, <2>1, <2>3, <2>7 DEF OneRowInv, RowsOf
  <2> QED BY <1>0, <2>3, <2>8, MetStays DEF Met, Docs, Request
<1> QED BY <1>1, <1>2

LEMMA NextOneRowPerDocument ==
  ASSUME TypeInv, TxInv, MetInv, OneRowInv, [Next]_vars
  PROVE  OneRowPerDocument'
<1>0. /\ request' = request /\ Len(rows) \in Nat /\ DOMAIN rows = 1 .. Len(rows)
      /\ \A i \in DOMAIN rows : i \in DOMAIN rows' /\ rows'[i].docs = rows[i].docs
  <2>1. DOMAIN rows = 1 .. Len(rows) /\ DOMAIN rows' = 1 .. Len(rows')
    BY NextSteps DEF TypeInv
  <2> QED BY <2>1, RequestsStay, RowsStay
<1> DEFINE Excused(d) == \E n \in DOMAIN details' :
                           /\ details'[n].object.docs = d
                           /\ \E j \in details'[n].met : request'[j].docs = d
<1>1. ASSUME NEW i \in DOMAIN rows, NEW k \in DOMAIN rows, i # k, rows[i].docs = rows[k].docs
      PROVE  Excused(rows[i].docs)
  BY <1>0, <1>1, DetailsStay DEF OneRowInv, OneRowPerDocument
<1>2. ASSUME NEW i \in DOMAIN rows, NEW w \in Workers, Commit(w), tx[w].row,
             rows[i].docs = Docs(w)
      PROVE  Excused(Docs(w))
  <2>1. /\ at[w] = "commit" /\ w \in Working
        /\ details'[Len(details) + 1] = Detail(w) /\ Len(details) + 1 \in DOMAIN details'
    <3>1. /\ at[w] = "commit" /\ details'[Len(details) + 1] = Detail(w)
          /\ Len(details') = Len(details) + 1 /\ Len(details) \in Nat
      BY <1>2, CommitStep
    <3>2. DOMAIN details' = 1 .. Len(details')
      BY NextSteps DEF TypeInv
    <3> QED BY <3>1, <3>2 DEF Working
  <2>2. tx[w].seen < i
    <3>1. tx[w].seen \in Nat
      BY DEF TypeInv, TxType
    <3>2. i \notin 1 .. tx[w].seen
      BY <1>2, <2>1 DEF TxInv, SessionOf
    <3> QED BY <1>0, <3>1, <3>2
  <2>3. Met(w, Docs(w))
    BY <1>2, <2>1, <2>2 DEF OneRowInv, RowsOf, Looked
  <2> QED BY <1>0, <2>1, <2>3, DetailFields DEF Met
<1> HIDE DEF Excused
<1>3. ASSUME NEW i \in DOMAIN rows', NEW k \in DOMAIN rows', i # k,
             rows'[i].docs = rows'[k].docs
      PROVE  Excused(rows'[i].docs)
  <2>1. CASE i \in DOMAIN rows /\ k \in DOMAIN rows
    BY <1>0, <1>1, <1>3, <2>1
  <2>2. CASE i \in DOMAIN rows /\ k \notin DOMAIN rows
    BY <1>0, <1>2, <1>3, <2>2, NewRow
  <2>3. CASE i \notin DOMAIN rows /\ k \in DOMAIN rows
    BY <1>0, <1>2, <1>3, <2>3, NewRow
  <2>4. CASE i \notin DOMAIN rows /\ k \notin DOMAIN rows
    <3>1. PICK w \in Workers : Commit(w)
      BY <2>4, NewRow
    <3>2. Len(rows') <= Len(rows) + 1 /\ Len(rows') \in Nat /\ DOMAIN rows' = 1 .. Len(rows')
      <4>1. rows' \in Seq(RowType)
        BY NextSteps DEF TypeInv
      <4>2. Len(rows') = IF tx[w].row THEN Len(rows) + 1 ELSE Len(rows)
        BY <3>1, CommitStep
      <4> QED BY <1>0, <4>1, <4>2
    <3>3. i = Len(rows) + 1 /\ k = Len(rows) + 1
      BY <1>0, <2>4, <3>2
    <3> QED BY <1>3, <3>3
  <2> QED BY <2>1, <2>2, <2>3, <2>4
<1> QED BY <1>3 DEF Excused, OneRowPerDocument

LEMMA NextOneRowInv == TypeInv /\ TxInv /\ MetInv /\ OneRowInv /\ [Next]_vars => OneRowInv'
<1> SUFFICES ASSUME TypeInv, TxInv, MetInv, OneRowInv, [Next]_vars PROVE OneRowInv'
  OBVIOUS
<1>1. \A v \in Working' : RowsOf(v)'
  BY NextRowsOf
<1> QED BY <1>1, NextOneRowPerDocument DEF OneRowInv, RowsOf

-----------------------------------------------------------------------------
(* The versions a document is made of *)

\* A later version than one known is there before a step, or is registered by it.
LEMMA NewerChange ==
  ASSUME TypeInv, TxInv, [Next]_vars, NEW x, NEW d, Newer(details', x, d, Len(details'))
  PROVE  Newer(details, x, d, Len(details)) \/ \E w \in Workers : Commit(w) /\ Docs(w) = d
<1>1. PICK p \in 1 .. Len(details'), k \in 1 .. Len(details') :
        /\ p < k /\ details'[p].object.docs = d /\ details'[k].object.docs = d
        /\ Version(details'[p].object) = Version(x)
  BY DEF Newer
<1>2. /\ DOMAIN details = 1 .. Len(details) /\ DOMAIN details' = 1 .. Len(details')
      /\ Len(details) \in Nat /\ Len(details') \in Nat
      /\ \A i \in DOMAIN details : i \in DOMAIN details' /\ details'[i] = details[i]
  BY NextSteps, DetailsStay DEF TypeInv
<1>3. CASE k \in DOMAIN details
  <2>1. p \in DOMAIN details
    BY <1>1, <1>2, <1>3
  <2> QED BY <1>1, <1>2, <1>3, <2>1 DEF Newer
<1>4. CASE k \notin DOMAIN details
  <2>1. PICK w \in Working : w \in Workers /\ Commit(w) /\ details'[k] = Detail(w)
    BY <1>1, <1>2, <1>4, NewDetail
  <2> QED BY <1>1, <2>1, DetailFields
<1> QED BY <1>3, <1>4

\* A version stays the latest of those that were there.
LEMMA NewerBefore ==
  ASSUME TypeInv, TxInv, [Next]_vars, NEW x, NEW d, NEW n \in Nat, n <= Len(details),
         Newer(details', x, d, n)
  PROVE  Newer(details, x, d, n)
<1>1. PICK p \in 1 .. n, k \in 1 .. n :
        /\ p < k /\ details'[p].object.docs = d /\ details'[k].object.docs = d
        /\ Version(details'[p].object) = Version(x)
  BY DEF Newer
<1>2. p \in DOMAIN details /\ k \in DOMAIN details
  BY DetailsStay
<1> QED BY <1>1, <1>2, DetailsStay DEF Newer

\* The files stay, too.
LEMMA FilesStay ==
  ASSUME TypeInv, TxInv, [Next]_vars
  PROVE  /\ Len(files) \in Nat /\ \A m \in 1 .. Len(files) : files'[m] = files[m]
<1>1. Len(files) \in Nat
  BY DEF TypeInv
<1>2. ASSUME NEW w \in Workers, Commit(w) PROVE \A m \in 1 .. Len(files) : files'[m] = files[m]
  BY <1>2, CommitStep
<1> QED BY <1>1, <1>2, DetailsStay

LEMMA NewestStays ==
  ASSUME TypeInv, TxInv, [Next]_vars, NEW n \in Nat, n <= Len(details),
         NEW m \in Nat, m <= Len(files), Newest(n, m)
  PROVE  m # 0 => files'[m].docs = "SRS" /\ ~Newer(details', files'[m], "SRS", n)
<1>1. m # 0 => files'[m] = files[m]
  BY FilesStay
<1>2. m # 0 => ~Newer(details', files[m], "SRS", n)
  BY NewerBefore DEF Newest
<1> QED BY <1>1, <1>2 DEF Newest

\* The latest requirement JSON is that of the latest SRS.
LEMMA NextNewest ==
  ASSUME TypeInv, TxInv, AttemptInv, BasesInv, [Next]_vars
  PROVE  Newest(Len(details), Len(files))'
<1>1. Newest(Len(details), Len(files)) /\ Len(details) \in Nat /\ Len(files) \in Nat
  BY DEF BasesInv, TypeInv
<1>2. CASE details' = details /\ files' = files
  BY <1>1, <1>2 DEF Newest
<1>3. ASSUME NEW w \in Workers, Commit(w) PROVE Newest(Len(details), Len(files))'
  <2>1. /\ at[w] = "commit" /\ w \in Working /\ Len(details') = Len(details) + 1
        /\ details'[Len(details) + 1] = Detail(w)
        /\ \A i \in 1 .. Len(details) : details'[i] = details[i]
        /\ Len(files') = IF Docs(w) = "SRS" THEN Len(files) + 1 ELSE Len(files)
        /\ \A i \in 1 .. Len(files) : files'[i] = files[i]
        /\ Docs(w) = "SRS" => files'[Len(files) + 1] = Json(w)
    BY <1>3, CommitStep DEF Working
  <2>2. CASE Docs(w) = "SRS"
    <3>1. files'[Len(files')] = Json(w) /\ Json(w).docs = "SRS" /\ Version(Json(w)) = Run(w)
      BY <2>1, <2>2 DEF Json, Object, Version, Run
    <3>2. ~Newer(details', Json(w), "SRS", Len(details'))
      <4>1. SUFFICES ASSUME NEW p \in 1 .. Len(details'), NEW k \in 1 .. Len(details'), p < k,
                            Version(details'[p].object) = Run(w)
                     PROVE  FALSE
        BY <3>1 DEF Newer
      <4>2. p \in 1 .. Len(details) /\ p \in DOMAIN details
        BY <1>1, <2>1, <4>1 DEF TypeInv
      <4> QED BY <2>1, <4>1, <4>2 DEF AttemptInv
    <3> QED BY <3>1, <3>2 DEF Newest
  <2>3. CASE Docs(w) # "SRS"
    <3>1. Len(files') = Len(files)
      BY <2>1, <2>3
    <3>2. SUFFICES ASSUME Len(files) # 0
                   PROVE  /\ files'[Len(files)].docs = "SRS"
                          /\ ~Newer(details', files'[Len(files)], "SRS", Len(details'))
      BY <3>1 DEF Newest
    <3>3. /\ files'[Len(files)] = files[Len(files)] /\ files[Len(files)].docs = "SRS"
          /\ ~Newer(details, files[Len(files)], "SRS", Len(details))
      BY <1>1, <2>1, <3>2 DEF Newest
    <3>4. ASSUME NEW u \in Workers, Commit(u) PROVE Docs(u) # "SRS"
      <4>1. u = w
        BY <2>1, <3>4, <1>3, CommitStep DEF Alone
      <4> QED BY <2>3, <4>1
    <3> QED BY <3>3, <3>4, NewerChange
  <2> QED BY <2>2, <2>3
<1> QED BY <1>2, <1>3, DetailsStay

\* What is found, unless a revision is asked for, is the latest that the session sees.
LEMMA FoundLatest ==
  ASSUME TypeInv, RowInv, AttemptInv, NEW n \in Nat, n <= Len(details),
         NEW m \in Nat, m <= Len(files), Newest(n, m),
         NEW q, q.detail = 0,
         NEW b, b \in UNION Sources(q, SubSeq(details, 1, n), SubSeq(files, 1, m))
  PROVE  ~Newer(details, b, b.docs, n)
<1> DEFINE dt == SubSeq(details, 1, n)
           f  == SubSeq(files, 1, m)
<1>1. /\ dt \in Seq(DetailType) /\ Len(dt) = n /\ \A i \in 1 .. n : dt[i] = details[i]
      /\ f \in Seq(ObjectType) /\ Len(f) = m /\ \A i \in 1 .. m : f[i] = files[i]
  <2>1. /\ details \in Seq(DetailType) /\ \A i \in 1 .. n : details[i] \in DetailType
        /\ files \in Seq(ObjectType) /\ \A i \in 1 .. m : files[i] \in ObjectType
    BY DEF TypeInv
  <2> HIDE DEF ObjectType, DetailType
  <2>2. dt \in Seq(DetailType) /\ Len(dt) = n /\ \A i \in 1 .. n : dt[i] = details[i]
    BY <2>1, SubSeqProperties
  <2>3. f \in Seq(ObjectType) /\ Len(f) = m /\ \A i \in 1 .. m : f[i] = files[i]
    BY <2>1, SubSeqProperties
  <2> QED BY <2>2, <2>3
<1> HIDE DEF dt, f
<1>2. DOMAIN dt = 1 .. n /\ DOMAIN f = 1 .. m
  BY <1>1
<1>3. b \in ActiveSrs(f) \/ \E d \in DocsCds : b \in ActiveDoc(dt, d)
  <2>1. \A x \in Sources(q, dt, f) : x = ActiveSrs(f) \/ \E d : x = ActiveDoc(dt, d)
    BY DEF Sources
  <2>2. PICK x \in Sources(q, dt, f) : b \in x
    BY DEF dt, f
  <2>3. x = ActiveSrs(f) \/ \E d : x = ActiveDoc(dt, d)
    BY <2>1
  <2>4. ASSUME NEW d, b \in ActiveDoc(dt, d) PROVE d \in DocsCds
    <3> DEFINE H == {i \in DOMAIN dt : rows[dt[i].row].docs = d}
    <3>1. H # {}
      BY <2>4 DEF ActiveDoc, Latest
    <3>2. PICK i \in DOMAIN dt : rows[dt[i].row].docs = d
      BY <3>1
    <3>3. i \in DOMAIN details /\ dt[i] = details[i]
      BY <1>1, <1>2
    <3>4. details[i].row \in DOMAIN rows
      BY <3>3 DEF RowInv
    <3>5. rows[details[i].row] \in RowType
      BY <3>4 DEF TypeInv
    <3> QED BY <3>2, <3>3, <3>5 DEF RowType
  <2> QED BY <2>2, <2>3, <2>4
<1>4. CASE b \in ActiveSrs(f)
  <2>1. m # 0 /\ b = files[m]
    BY <1>1, <1>4 DEF ActiveSrs
  <2> QED BY <2>1 DEF Newest
<1>5. ASSUME NEW d \in DocsCds, b \in ActiveDoc(dt, d) PROVE ~Newer(details, b, b.docs, n)
  <2> DEFINE H == {i \in DOMAIN dt : rows[dt[i].row].docs = d}
             c == CHOOSE i \in H : \A k \in H : k <= i
  <2>1. H # {} /\ b = dt[c].object
    BY <1>2, <1>5 DEF ActiveDoc, Latest
  <2>2. H \in SUBSET (1 .. n)
    BY <1>2
  <2>3. c \in H /\ \A k \in H : k <= c
    BY <2>1, <2>2, LastPosition
  <2> HIDE DEF c
  <2>4. /\ c \in 1 .. n /\ c \in DOMAIN details /\ b = details[c].object
        /\ rows[details[c].row].docs = d
    BY <1>1, <1>2, <2>1, <2>3
  <2>5. b.docs = d
    BY <2>4 DEF RowInv
  <2>6. SUFFICES ASSUME NEW p \in 1 .. n, NEW k \in 1 .. n, p < k,
                        details[k].object.docs = d,
                        Version(details[p].object) = Version(b)
                 PROVE  FALSE
    BY <2>5 DEF Newer
  <2>7. p \in DOMAIN details /\ k \in DOMAIN details
    BY DEF TypeInv
  <2>8. p = c
    BY <2>4, <2>6, <2>7 DEF AttemptInv
  <2>9. k \in H
    <3>1. rows[details[k].row].docs = d
      BY <2>6, <2>7 DEF RowInv
    <3> QED BY <1>1, <1>2, <3>1
  <2> QED BY <2>3, <2>4, <2>6, <2>8, <2>9
<1> QED BY <1>3, <1>4, <1>5

\* A version that is later than one that was the latest then.
LEMMA LaterThan ==
  ASSUME TypeInv, NEW x, NEW d, NEW n \in Nat, n <= Len(details),
         ~Newer(details, x, d, n), Newer(details, x, d, Len(details))
  PROVE  \E k \in DOMAIN details : n < k /\ details[k].object.docs = d
<1>1. Len(details) \in Nat /\ DOMAIN details = 1 .. Len(details)
  BY DEF TypeInv
<1>2. PICK p \in 1 .. Len(details), k \in 1 .. Len(details) :
        /\ p < k /\ details[p].object.docs = d /\ details[k].object.docs = d
        /\ Version(details[p].object) = Version(x)
  BY DEF Newer
<1>3. CASE k <= n
  <2>1. p \in 1 .. n /\ k \in 1 .. n
    BY <1>1, <1>2, <1>3
  <2> QED BY <1>2, <2>1 DEF Newer
<1> QED BY <1>1, <1>2, <1>3

LEMMA NextBasesOf ==
  ASSUME TypeInv, TxInv, RowInv, MetInv, AttemptInv, BasesInv, [Next]_vars, NEW v \in Working'
  PROVE  BasesOf(v)'
<1>0. v \in Workers /\ request' = request
  BY RunGoesOn
<1>1. ASSUME NEW j \in Jobs, Begin(v, j) PROVE BasesOf(v)'
  <2>1. /\ at'[v] = "inputs" /\ run'[v].seen = <<Len(details), Len(files)>>
        /\ details' = details /\ files' = files
    BY <1>0, <1>1, BeginStep
  <2>2. Newest(Len(details), Len(files))
    BY DEF BasesInv
  <2>3. \A k \in DOMAIN details : ~(Len(details) < k)
    BY DEF TypeInv
  <2> QED BY <2>1, <2>2, <2>3 DEF BasesOf, Newest
<1>2. CASE /\ v \in Working /\ run[v].job \in Jobs /\ run'[v].job = run[v].job
           /\ run[v].met \subseteq run'[v].met
           /\ \/ DownloadInputs(v) \/ ResolveRequired(v) \/ ReadInputs(v) \/ WriteDocx(v)
              \/ Going(v)
  <2>0. /\ BasesOf(v) /\ Request(v)' = Request(v)
        /\ run[v].seen[1] \in Nat /\ run[v].seen[2] \in Nat
        /\ run[v].seen[1] <= Len(details) /\ run[v].seen[2] <= Len(files)
        /\ Len(details) \in Nat
    <3>1. run[v] \in RunType
      BY <1>0, Same
    <3> QED BY <1>0, <1>2, <3>1 DEF BasesInv, Request, TypeInv, RunType
  <2>1. ASSUME at[v] \in {"inputs", "base"}, at'[v] \in {"inputs", "base"},
               run'[v].seen = run[v].seen
        PROVE  BasesOf(v)'
    <3>1. /\ Newest(run[v].seen[1], run[v].seen[2])
          /\ \A k \in DOMAIN details : run[v].seen[1] < k => Met(v, details[k].object.docs)
      BY <2>0, <2>1 DEF BasesOf
    <3>2. Newest(run[v].seen[1], run[v].seen[2])'
      BY <2>0, <2>1, <3>1, NewestStays DEF Newest
    <3>3. ASSUME NEW k \in DOMAIN details', run[v].seen[1] < k
          PROVE  Met(v, details[k].object.docs)'
      <4>1. CASE k \in DOMAIN details
        <5>1. Met(v, details[k].object.docs) /\ details'[k] = details[k]
          BY <3>1, <3>3, <4>1, DetailsStay
        <5> QED BY <1>0, <1>2, <5>1 DEF Met
      <4>2. CASE k \notin DOMAIN details
        <5>1. PICK w \in Working : w \in Workers /\ Commit(w) /\ details'[k] = Detail(w)
          BY <4>2, NewDetail
        <5>2. details'[k].object.docs = Docs(w) /\ Docs(w)' = Docs(w) /\ Met(v, Docs(w))'
          BY <1>0, <5>1, DetailFields, CommitIsMet, CommitStep DEF Docs, Request
        <5> QED BY <5>2 DEF Met
      <4> QED BY <4>1, <4>2
    <3> QED BY <2>1, <3>2, <3>3 DEF BasesOf
  <2>2. CASE DownloadInputs(v)
    BY <1>0, <2>1, <2>2, DownloadStep
  <2>3. CASE ResolveRequired(v)
    <3>1. /\ at[v] = "base" /\ at'[v] = "mark" /\ details' = details
          /\ run'[v].bases = UNION Sources(Request(v), SubSeq(details, 1, run[v].seen[1]),
                                                       SubSeq(files, 1, run[v].seen[2]))
      BY <1>0, <2>3, ResolveStep
    <3>2. /\ Newest(run[v].seen[1], run[v].seen[2])
          /\ \A k \in DOMAIN details : run[v].seen[1] < k => Met(v, details[k].object.docs)
      BY <2>0, <3>1 DEF BasesOf
    <3>3. ASSUME Request(v).detail = 0, NEW b \in run'[v].bases,
                 Newer(details, b, b.docs, Len(details))
          PROVE  Met(v, b.docs)'
      <4>1. ~Newer(details, b, b.docs, run[v].seen[1])
        BY <2>0, <3>1, <3>2, <3>3, FoundLatest
      <4>2. PICK k \in DOMAIN details : run[v].seen[1] < k /\ details[k].object.docs = b.docs
        BY <2>0, <3>3, <4>1, LaterThan
      <4>3. Met(v, b.docs)
        BY <3>2, <4>2
      <4> QED BY <1>0, <1>2, <4>3 DEF Met
    <3> QED BY <2>0, <3>1, <3>3 DEF BasesOf
  <2>4. ASSUME at[v] \notin {"inputs", "base"}, at'[v] \notin {"inputs", "base"},
               run'[v].bases = run[v].bases
        PROVE  BasesOf(v)'
    <3>1. ASSUME Request(v).detail = 0, NEW b \in run[v].bases,
                 Newer(details', b, b.docs, Len(details'))
          PROVE  Met(v, b.docs)'
      <4>1. CASE Newer(details, b, b.docs, Len(details))
        <5>1. Met(v, b.docs)
          BY <2>0, <2>4, <3>1, <4>1 DEF BasesOf
        <5> QED BY <1>0, <1>2, <5>1 DEF Met
      <4>2. ASSUME NEW w \in Workers, Commit(w), Docs(w) = b.docs PROVE Met(v, b.docs)'
        <5>1. Docs(w)' = Docs(w) /\ Met(v, Docs(w))'
          BY <1>0, <4>2, CommitIsMet, CommitStep DEF Docs, Request
        <5> QED BY <4>2, <5>1 DEF Met
      <4> QED BY <3>1, <4>1, <4>2, NewerChange
    <3> QED BY <2>0, <2>4, <3>1 DEF BasesOf
  <2>5. CASE ReadInputs(v) \/ WriteDocx(v)
    <3>1. /\ at[v] \notin {"inputs", "base"} /\ at'[v] \notin {"inputs", "base"}
          /\ run'[v].bases = run[v].bases
      BY <1>0, <2>5, ReadStep, WriteStep
    <3> QED BY <2>4, <3>1
  <2>6. CASE Going(v)
    BY <2>1, <2>4, <2>6 DEF Going, Late
  <2> QED BY <1>2, <2>2, <2>3, <2>5, <2>6
<1> QED BY <1>1, <1>2, RunGoesOn

LEMMA NextBasesAreLatest ==
  ASSUME TypeInv, TxInv, BasesInv, [Next]_vars
  PROVE  BasesAreLatest'
<1> SUFFICES ASSUME NEW i \in DOMAIN details', NEW b \in details'[i].bases,
                    details'[i].job # 0, request'[details'[i].job].detail = 0,
                    NEW p \in 1 .. i - 1, NEW k \in 1 .. i - 1, p < k,
                    details'[p].object.docs = b.docs, details'[k].object.docs = b.docs,
                    <<details'[p].object.job, details'[p].object.run>> = <<b.job, b.run>>
             PROVE  \E j \in details'[i].met : request'[j].docs = b.docs
  BY DEF BasesAreLatest, Registered
<1>0. /\ request' = request /\ Len(details) \in Nat /\ DOMAIN details = 1 .. Len(details)
      /\ \A n \in DOMAIN details : details'[n] = details[n]
  BY RequestsStay, DetailsStay
<1>1. CASE i \in DOMAIN details
  <2>1. details'[i] = details[i] /\ details'[p] = details[p] /\ details'[k] = details[k]
    BY <1>0, <1>1
  <2> QED BY <1>0, <1>1, <2>1 DEF BasesInv, BasesAreLatest, Registered
<1>2. CASE i \notin DOMAIN details
  <2>1. PICK w \in Working : at[w] = "commit" /\ i = Len(details) + 1 /\ details'[i] = Detail(w)
    BY <1>2, NewDetail
  <2>2. /\ details'[i].job = run[w].job /\ details'[i].bases = run[w].bases
        /\ details'[i].met = run[w].met
    BY <2>1, DetailFields
  <2>3. Newer(details, b, b.docs, Len(details))
    <3>1. p \in DOMAIN details /\ k \in DOMAIN details
      BY <1>0, <2>1
    <3> QED BY <1>0, <3>1 DEF Newer, Version
  <2>4. Met(w, b.docs)
    BY <1>0, <2>1, <2>2, <2>3 DEF BasesInv, BasesOf, Request
  <2> QED BY <1>0, <2>2, <2>4 DEF Met
<1> QED BY <1>1, <1>2

LEMMA NextBasesInv ==
  TypeInv /\ TxInv /\ RowInv /\ MetInv /\ AttemptInv /\ BasesInv /\ [Next]_vars => BasesInv'
<1> SUFFICES ASSUME TypeInv, TxInv, RowInv, MetInv, AttemptInv, BasesInv, [Next]_vars
             PROVE  BasesInv'
  OBVIOUS
<1>1. \A v \in Working' : BasesOf(v)'
  BY NextBasesOf
<1>2. BasesAreLatest' /\ Newest(Len(details), Len(files))'
  BY NextBasesAreLatest, NextNewest
<1> QED BY <1>1, <1>2 DEF BasesInv

-----------------------------------------------------------------------------
(* Working directories *)

\* A run fills its own directory only, and is at work as long as it does.
LEMMA FillsItsOwn ==
  ASSUME TypeInv, TxInv, NEW w \in Workers, Moves(w), ~Cleanup(w), ~Crash(w)
  PROVE  /\ at'[w] # "idle" /\ run'[w].job = run[w].job /\ uncleaned' = uncleaned
         /\ \A d \in Jobs \ {Dir(w)} : dirs'[d] = dirs[d]
<1>1. ASSUME DownloadInputs(w) \/ ResolveRequired(w)
      PROVE  /\ at'[w] # "idle" /\ run'[w].job = run[w].job /\ uncleaned' = uncleaned
             /\ \A d \in Jobs \ {Dir(w)} : dirs'[d] = dirs[d]
  BY <1>1, DownloadStep, ResolveStep DEF SameRun
<1>2. ASSUME \/ MarkGenerating(w) \/ PreprocessFails(w) \/ ReadInputs(w) \/ GenerationFails(w)
             \/ StartRender(w) \/ Render(w)
      PROVE  at'[w] # "idle" /\ run'[w].job = run[w].job /\ uncleaned' = uncleaned /\ dirs' = dirs
  BY <1>2, MarkStep, LeaveStep, ReadStep, StartStep, RenderStep DEF SameRun
<1>3. ASSUME \/ ExportRequirementJson(w) \/ WriteDocx(w) \/ UploadDocument(w) \/ Register(w)
             \/ Commit(w) \/ ExportFails(w)
      PROVE  at'[w] # "idle" /\ run'[w].job = run[w].job /\ uncleaned' = uncleaned /\ dirs' = dirs
  BY <1>3, JsonStep, WriteStep, UploadStep, RegisterStep, CommitStep, LeaveStep DEF SameRun
<1> QED BY <1>1, <1>2, <1>3 DEF Moves

LEMMA NextNothingLeftBehind ==
  TypeInv /\ TxInv /\ NothingLeftBehind /\ [Next]_vars => NothingLeftBehind'
<1> SUFFICES ASSUME TypeInv, TxInv, NothingLeftBehind, [Next]_vars, NEW d \in Jobs,
                    dirs'[d] # NoDir, d \notin uncleaned'
             PROVE  \E u \in Busy' : Dir(u)' = d
  BY DEF NothingLeftBehind
<1>0. request' = request
  BY RequestsStay
<1>1. ASSUME NEW w \in Workers, NEW u \in Busy, u # w, at'[u] = at[u],
             run'[u].job = run[u].job
      PROVE  u \in Busy' /\ Dir(u)' = Dir(u)
  BY <1>0, <1>1 DEF Busy, Dir, Request
<1>2. ASSUME NEW w \in Workers, NEW j \in Jobs, Begin(w, j) PROVE \E u \in Busy' : Dir(u)' = d
  <2>1. PICK u \in Busy : Dir(u) = d
    BY <1>2, BeginStep DEF NothingLeftBehind
  <2>2. /\ u \in Workers /\ u # w /\ at'[u] = at[u]
        /\ run'[u] = [run[u] EXCEPT !.met = run[u].met \cup {j}]
    BY <1>2, BeginStep DEF Busy
  <2>3. run'[u].job = run[u].job
    BY <2>2, Same DEF RunType
  <2> QED BY <1>1, <2>1, <2>2, <2>3
<1>3. ASSUME NEW w \in Workers, RunStep(w), NEW u \in Busy, u # w
      PROVE  u \in Busy' /\ Dir(u)' = Dir(u)
  BY <1>1, <1>3 DEF RunStep, Alone, Busy
<1>4. ASSUME NEW w \in Workers, RunStep(w), Moves(w), ~Cleanup(w), ~Crash(w)
      PROVE  \E u \in Busy' : Dir(u)' = d
  <2>1. /\ w \in Busy' /\ Dir(w)' = Dir(w) /\ uncleaned' = uncleaned
        /\ d # Dir(w) => dirs'[d] = dirs[d]
    BY <1>0, <1>4, FillsItsOwn DEF Busy, Dir, Request
  <2>2. CASE d = Dir(w)
    BY <2>1, <2>2
  <2>3. CASE d # Dir(w)
    <3>1. PICK u \in Busy : Dir(u) = d
      BY <2>1, <2>3 DEF NothingLeftBehind
    <3> QED BY <1>3, <1>4, <2>3, <3>1
  <2> QED BY <2>2, <2>3
<1>5. ASSUME NEW w \in Workers, RunStep(w), Cleanup(w) \/ Crash(w)
      PROVE  \E u \in Busy' : Dir(u)' = d
  <2>1. \/ dirs' = [dirs EXCEPT ![Dir(w)] = NoDir] /\ uncleaned' = uncleaned \ {Dir(w)}
        \/ dirs' = dirs /\ uncleaned' = uncleaned \cup {Dir(w)}
    BY <1>5, EndStep
  <2>2. d # Dir(w) /\ dirs'[d] = dirs[d] /\ d \notin uncleaned
    BY <2>1 DEF TypeInv
  <2>3. PICK u \in Busy : Dir(u) = d
    BY <2>2 DEF NothingLeftBehind
  <2> QED BY <1>3, <1>5, <2>2, <2>3
<1>6. ASSUME UNCHANGED <<at, run, dirs, uncleaned>> PROVE \E u \in Busy' : Dir(u)' = d
  <2>1. PICK u \in Busy : Dir(u) = d
    BY <1>6 DEF NothingLeftBehind
  <2> QED BY <1>0, <1>6, <2>1 DEF Busy, Dir, Request
<1> QED BY <1>2, <1>4, <1>5, <1>6, NextSteps

-----------------------------------------------------------------------------
(* The invariant *)

LEMMA NextRunsInv == RunsInv /\ [Next]_vars => RunsInv'
<1> SUFFICES ASSUME RunsInv, [Next]_vars PROVE RunsInv'
  OBVIOUS
<1>1. /\ TypeInv /\ TxInv /\ UploadInv /\ RowInv /\ MetInv /\ AttemptInv /\ PictureInv
      /\ InputInv /\ OneRowInv /\ BasesInv /\ NothingLeftBehind
  BY DEF RunsInv
<1>2. TypeInv' /\ TxInv' /\ UploadInv' /\ RowInv' /\ MetInv' /\ AttemptInv'
  BY <1>1, NextSteps, NextTxInv, NextUploadInv, NextRowInv, NextMetInv, NextAttemptInv
<1>3. PictureInv' /\ InputInv' /\ OneRowInv' /\ BasesInv' /\ NothingLeftBehind'
  BY <1>1, NextPictureInv, NextInputInv, NextOneRowInv, NextBasesInv, NextNothingLeftBehind
<1> QED BY <1>2, <1>3 DEF RunsInv

-----------------------------------------------------------------------------
(* The documents registered before *)

LEMMA CodesProperties ==
  /\ Len(Prior) \in Nat /\ DOMAIN Prior = 1 .. Len(Prior)
  /\ Codes \in Seq(DocsCds)
  /\ \A i \in DOMAIN Prior : \E k \in DOMAIN Codes : Codes[k] = Prior[i]
  /\ \A q, k \in DOMAIN Codes : q # k => Codes[q] # Codes[k]
<1> DEFINE n == Len(Prior)
           c == Cardinality(Firsts)
<1>1. n \in Nat /\ DOMAIN Prior = 1 .. n /\ \A i \in 1 .. n : Prior[i] \in DocsCds
  BY ConstantsAssumption
<1>2. Firsts \in SUBSET (1 .. n)
  BY <1>1 DEF Firsts
<1>3. /\ c \in Nat
      /\ \A k \in 1 .. c : Position(Firsts, k) \in Firsts
      /\ \A i \in Firsts : \E k \in 1 .. c : Position(Firsts, k) = i
      /\ \A q, k \in 1 .. c : q < k => Position(Firsts, q) < Position(Firsts, k)
  BY <1>1, <1>2, PositionProperties
<1>4. Codes = [k \in 1 .. c |-> Prior[Position(Firsts, k)]]
  BY DEF Codes, Pick
<1> HIDE DEF c
<1>5. Codes \in Seq(DocsCds) /\ DOMAIN Codes = 1 .. c
  <2>1. \A k \in 1 .. c : Prior[Position(Firsts, k)] \in DocsCds
    BY <1>1, <1>2, <1>3
  <2> QED BY <1>3, <1>4, <2>1
<1>6. ASSUME NEW i \in 1 .. n PROVE \E k \in 1 .. c : Codes[k] = Prior[i]
  <2> DEFINE T == {m \in 1 .. n : Prior[m] = Prior[i]}
  <2>1. T \in SUBSET Nat /\ T # {}
    BY <1>1
  <2>2. PICK m \in T : \A l \in T : m <= l
    BY <2>1, LeastNatural
  <2>3. m \in Firsts
    <3>1. m \in DOMAIN Prior /\ m \in Nat /\ Prior[m] = Prior[i]
      BY <1>1
    <3>2. ASSUME NEW k \in 1 .. m - 1 PROVE Prior[k] # Prior[m]
      <4>1. k \in 1 .. n /\ ~(m <= k)
        BY <1>1, <3>1
      <4> QED BY <2>2, <3>1, <4>1
    <3> QED BY <3>1, <3>2 DEF Firsts
  <2>4. PICK k \in 1 .. c : Position(Firsts, k) = m
    BY <1>3, <2>3
  <2> QED BY <1>4, <2>2, <2>4
<1>7. ASSUME NEW q \in 1 .. c, NEW k \in 1 .. c, q < k PROVE Codes[q] # Codes[k]
  <2>1. /\ Position(Firsts, q) \in Firsts /\ Position(Firsts, k) \in Firsts
        /\ Position(Firsts, q) < Position(Firsts, k)
    BY <1>3, <1>7
  <2>2. Position(Firsts, q) \in 1 .. Position(Firsts, k) - 1
    <3>1. Position(Firsts, q) \in 1 .. n /\ Position(Firsts, k) \in 1 .. n
      BY <1>2, <2>1
    <3> HIDE DEF n
    <3> QED BY <1>1, <2>1, <3>1
  <2>3. Prior[Position(Firsts, q)] # Prior[Position(Firsts, k)]
    BY <2>1, <2>2 DEF Firsts
  <2> QED BY <1>4, <2>3
<1>8. \A q, k \in 1 .. c : q # k => Codes[q] # Codes[k]
  <2>1. \A q, k \in 1 .. c : q # k => q < k \/ k < q
    BY <1>3
  <2> QED BY <1>7, <2>1
<1> QED BY <1>1, <1>5, <1>6, <1>8

\* What a project may hold at first.
LEMMA ProjectProperties ==
  ASSUME NEW p \in Projects
  PROVE  /\ p.rows \in Seq(RowType) /\ p.details \in Seq(DetailType) /\ p.files \in Seq(ObjectType)
         /\ \A q, k \in DOMAIN p.rows : q # k => p.rows[q].docs # p.rows[k].docs
         /\ \A i \in DOMAIN p.details :
              /\ p.details[i].job = 0
              /\ p.details[i].object.job = 0 /\ p.details[i].object.run = i
              /\ p.details[i].row \in DOMAIN p.rows
              /\ p.rows[p.details[i].row].docs = p.details[i].object.docs
         /\ Len(p.files) # 0 =>
              /\ p.files[Len(p.files)].docs = "SRS"
              /\ ~Newer(p.details, p.files[Len(p.files)], "SRS", Len(p.details))
<1> DEFINE none == [rows |-> <<>>, details |-> <<>>, files |-> <<>>]
           rs   == [k \in DOMAIN Codes |-> [docs |-> Codes[k], status |-> "DONE"]]
           dt   == [i \in DOMAIN Prior |-> Earlier(i)]
           srs  == {i \in DOMAIN Prior : Prior[i] = "SRS"}
           c    == Cardinality(srs)
           f    == [k \in 1 .. c |-> Object(0, Position(srs, k), "SRS", "json")]
           n    == Len(Prior)
<1>1. p = none \/ p = [rows |-> rs, details |-> dt, files |-> f]
  BY DEF Projects
<1>2. CASE p = none
  BY <1>2
<1>3. CASE p = [rows |-> rs, details |-> dt, files |-> f]
  <2>0. /\ n \in Nat /\ DOMAIN Prior = 1 .. n /\ \A i \in 1 .. n : Prior[i] \in DocsCds
        /\ Codes \in Seq(DocsCds) /\ Len(Codes) \in Nat /\ DOMAIN Codes = 1 .. Len(Codes)
    BY CodesProperties, ConstantsAssumption
  <2>1. /\ rs \in Seq(RowType) /\ DOMAIN rs = DOMAIN Codes
        /\ \A k \in DOMAIN Codes : rs[k].docs = Codes[k]
    <3>1. \A k \in 1 .. Len(Codes) : [docs |-> Codes[k], status |-> "DONE"] \in RowType
      BY <2>0 DEF RowType
    <3> QED BY <2>0, <3>1
  <2>2. \A i \in 1 .. n : Earlier(i).row \in DOMAIN Codes /\ Codes[Earlier(i).row] = Prior[i]
    <3>1. \A i \in 1 .. n : Earlier(i).row = CHOOSE k \in DOMAIN Codes : Codes[k] = Prior[i]
      BY DEF Earlier
    <3> QED BY <2>0, <3>1, CodesProperties
  <2>3. \A i \in 1 .. n :
          /\ Earlier(i) \in DetailType
          /\ Earlier(i).job = 0 /\ Earlier(i).object.job = 0 /\ Earlier(i).object.run = i
          /\ Earlier(i).object.docs = Prior[i]
    <3>1. \A i \in 1 .. n : Earlier(i).row \in Nat
      BY <2>0, <2>2
    <3> QED BY <2>0, <3>1 DEF Earlier, DetailType, Object, ObjectType, JobsOrNone
  <2>4. dt \in Seq(DetailType) /\ DOMAIN dt = 1 .. n /\ Len(dt) = n
    <3>1. \A i \in 1 .. n : Earlier(i) \in DetailType
      BY <2>3
    <3> HIDE DEF DetailType
    <3> QED BY <2>0, <3>1
  <2>5. /\ srs \in SUBSET (1 .. n) /\ c \in Nat
        /\ \A k \in 1 .. c : Position(srs, k) \in srs
        /\ \A i \in srs : \E k \in 1 .. c : Position(srs, k) = i
        /\ \A q, k \in 1 .. c : q < k => Position(srs, q) < Position(srs, k)
    <3>1. srs \in SUBSET (1 .. n)
      BY <2>0
    <3> HIDE DEF srs
    <3> QED BY <2>0, <3>1, PositionProperties
  <2> HIDE DEF c
  <2>6. f \in Seq(ObjectType) /\ Len(f) = c
    <3>1. \A k \in 1 .. c : Position(srs, k) \in Nat
      BY <2>0, <2>5
    <3>2. \A k \in 1 .. c : Object(0, Position(srs, k), "SRS", "json") \in ObjectType
      BY <3>1 DEF Object, ObjectType, JobsOrNone, DocsCds
    <3> HIDE DEF ObjectType
    <3> QED BY <2>5, <3>2
  <2>7. ASSUME c # 0 PROVE f[c].docs = "SRS" /\ ~Newer(dt, f[c], "SRS", n)
    <3>1. c \in 1 .. c /\ f[c] = Object(0, Position(srs, c), "SRS", "json")
      BY <2>5, <2>7
    <3>2. f[c].docs = "SRS" /\ Version(f[c]) = <<0, Position(srs, c)>>
      BY <3>1 DEF Object, Version
    <3>3. SUFFICES ASSUME NEW i \in 1 .. n, NEW k \in 1 .. n, i < k,
                          dt[k].object.docs = "SRS",
                          Version(dt[i].object) = <<0, Position(srs, c)>>
                   PROVE  FALSE
      BY <3>2 DEF Newer
    <3>4. i = Position(srs, c) /\ k \in srs
      BY <2>0, <2>3, <2>4, <3>3 DEF Version
    <3>5. PICK q \in 1 .. c : Position(srs, q) = k
      BY <2>5, <3>4
    <3>6. q = c \/ q < c
      BY <2>5
    <3> QED BY <2>5, <3>1, <3>3, <3>4, <3>5, <3>6
  <2>8. p.rows = rs /\ p.details = dt /\ p.files = f
    BY <1>3
  <2>9. \A i \in DOMAIN dt : dt[i] = Earlier(i)
    BY <2>4
  <2> HIDE DEF rs, dt, f
  <2>10. \A q, k \in DOMAIN rs : q # k => rs[q].docs # rs[k].docs
    BY <2>1, CodesProperties
  <2>11. \A i \in DOMAIN dt :
           /\ dt[i].job = 0 /\ dt[i].object.job = 0 /\ dt[i].object.run = i
           /\ dt[i].row \in DOMAIN rs /\ rs[dt[i].row].docs = dt[i].object.docs
    BY <2>1, <2>2, <2>3, <2>4, <2>9
  <2> QED BY <2>1, <2>4, <2>6, <2>7, <2>8, <2>10, <2>11
<1> QED BY <1>1, <1>2, <1>3

LEMMA InitRunsInv == Init => RunsInv
<1> SUFFICES ASSUME Init PROVE RunsInv
  OBVIOUS
<1>1. request \in [Jobs -> RequestType]
  <2>1. PICK r \in [Jobs -> Requests], dir \in [Jobs -> Jobs] :
          request = [j \in Jobs |-> [docs |-> r[j].docs, udt |-> r[j].udt, files |-> r[j].files,
                                     detail |-> r[j].detail, dir |-> dir[j]]]
    BY DEF Init
  <2>2. \A j \in Jobs : r[j] \in [docs: DocsCds, udt: {"N", "Y"}, files: SUBSET FileNames,
                                  detail: Nat]
    BY ConstantsAssumption
  <2> QED BY <2>1, <2>2 DEF RequestType
<1>2. PICK p \in Projects : /\ rows = p.rows /\ details = p.details /\ files = p.files
                            /\ stored = Objects(p.details, p.files)
  BY DEF Init
<1>3. /\ jobs = [j \in Jobs |-> "new"] /\ attempt = [j \in Jobs |-> 0]
      /\ at = [w \in Workers |-> "idle"] /\ run = [w \in Workers |-> NoRun]
      /\ tx = [w \in Workers |-> NoTx] /\ dirs = [d \in Jobs |-> NoDir]
      /\ diagrams = [d \in Drawn |-> NoDiagram]
  BY DEF Init
<1>4. /\ rows \in Seq(RowType) /\ details \in Seq(DetailType) /\ files \in Seq(ObjectType)
      /\ \A q, k \in DOMAIN rows : q # k => rows[q].docs # rows[k].docs
      /\ \A i \in DOMAIN details :
           /\ details[i].job = 0
           /\ details[i].object.job = 0 /\ details[i].object.run = i
           /\ details[i].row \in DOMAIN rows
           /\ rows[details[i].row].docs = details[i].object.docs
      /\ Len(files) # 0 => /\ files[Len(files)].docs = "SRS"
                           /\ ~Newer(details, files[Len(files)], "SRS", Len(details))
  BY <1>2, ProjectProperties
<1>5. Busy = {} /\ Working = {} /\ \A w \in Workers : at[w] = "idle"
  BY <1>3 DEF Busy, Working
<1>6. TypeInv
  <2>1. Len(details) \in Nat /\ Len(files) \in Nat
    BY <1>4
  <2>2. NoRun.seen = <<0, 0>>
    BY DEF NoRun
  <2>3. "idle" \in Steps
    BY DEF Steps
  <2>4. /\ at \in [Workers -> Steps] /\ run \in [Workers -> RunType]
        /\ tx \in [Workers -> TxType] /\ dirs \in [Jobs -> DirType]
        /\ diagrams \in [Drawn -> DiagramType] /\ attempt \in [Jobs -> Nat]
        /\ jobs \in [Jobs -> {"new", "running", "retry", "ended"}]
    BY <1>3, <2>3, NothingTyped
  <2>5. \A w \in Workers : run[w].seen[1] <= Len(details) /\ run[w].seen[2] <= Len(files)
    BY <1>3, <2>1, <2>2
  <2> QED BY <1>1, <1>4, <1>5, <2>4, <2>5 DEF TypeInv
<1>7. TxInv
  BY <1>3, <1>5 DEF TxInv, SessionOf, Writing, Looked
<1>8. UploadInv
  BY <1>2, <1>5 DEF UploadInv, RowsNameUploads, Up, Writing
<1>9. RowInv /\ MetInv
  BY <1>4, <1>5 DEF RowInv, MetInv
<1>10. AttemptInv
  BY <1>4, <1>5 DEF AttemptInv, Version
<1>11. PictureInv /\ InputInv
  BY <1>4, <1>5 DEF PictureInv, PictureIsOwn, InputInv, InputsAreOwn, Registered
<1>12. OneRowInv
  BY <1>4, <1>5 DEF OneRowInv, OneRowPerDocument
<1>13. BasesInv
  BY <1>4, <1>5 DEF BasesInv, BasesAreLatest, Registered, Newest
<1>14. NothingLeftBehind
  BY <1>3 DEF NothingLeftBehind
<1> QED BY <1>6, <1>7, <1>8, <1>9, <1>10, <1>11, <1>12, <1>13, <1>14 DEF RunsInv

-----------------------------------------------------------------------------
(* Theorems *)

\* The inductive invariant holds in every reachable state.
THEOREM RunsInvariant == Spec => []RunsInv
<1>1. Init => RunsInv
  BY InitRunsInv
<1>2. RunsInv /\ [Next]_vars => RunsInv'
  BY NextRunsInv
<1> QED BY <1>1, <1>2, PTL DEF Spec

\* The variables keep their types: a detail's row is there, a diagram is tried MaxRender
\* times at most, the runs that met were jobs.
THEOREM TypeCorrect == Spec => []TypeOK
<1>1. RunsInv => TypeOK
  <2> SUFFICES ASSUME RunsInv PROVE TypeOK
    OBVIOUS
  <2>1. TypeInv /\ RowInv
    BY DEF RunsInv
  <2>2. \A w \in Workers : run[w].tries \in 0 .. MaxRender /\ run[w].met \subseteq Jobs
    BY <2>1 DEF TypeInv, RunType
  <2>3. \A d \in Jobs : dirs[d].files \in [FileNames -> Jobs \cup {0}]
    BY <2>1 DEF TypeInv, DirType, JobsOrNone
  <2>4. \A d \in Drawn : diagrams[d].image[1] \in Jobs \cup {0}
    <3>1. \A d \in Drawn : diagrams[d] \in DiagramType
      BY <2>1 DEF TypeInv
    <3> QED BY <3>1 DEF DiagramType, JobsOrNone
  <2> QED BY <2>1, <2>2, <2>3, <2>4 DEF TypeOK, TypeInv, RowInv
<1> QED BY <1>1, RunsInvariant, PTL

\* RowsNameUploads: upload_file precedes the insert in every interleaving, and no failure
\* or crash between them leaves a row that names a file which is not there.
THEOREM RowsAreUploaded == Spec => []RowsNameUploads
<1>1. RunsInv => RowsNameUploads
  BY DEF RunsInv, UploadInv
<1> QED BY <1>1, RunsInvariant, PTL

\* PictureIsOwn: the fixed names of mermaid_dir mix up the diagrams only of runs that met.
THEOREM PicturesAreOwn == Spec => []PictureIsOwn
<1>1. RunsInv => PictureIsOwn
  BY DEF RunsInv, PictureInv
<1> QED BY <1>1, RunsInvariant, PTL

\* InputsAreOwn: the working directory is private unless a run with its X-Request-ID met.
THEOREM InputsArePrivate == Spec => []InputsAreOwn
<1>1. RunsInv => InputsAreOwn
  BY DEF RunsInv, InputInv
<1> QED BY <1>1, RunsInvariant, PTL

\* OneRowPerDocument: _find_docs_sn and insert_docs insert a second row of a document only
\* in runs that met.
THEOREM OneRowEach == Spec => []OneRowPerDocument
<1>1. RunsInv => OneRowPerDocument
  BY DEF RunsInv, OneRowInv
<1> QED BY <1>1, RunsInvariant, PTL

\* BasesAreLatest: what _resolve_required_documents found is still the latest when the
\* document is registered, unless a run that registered a later one was met.
THEOREM BasesUpToDate == Spec => []BasesAreLatest
<1>1. RunsInv => BasesAreLatest
  BY DEF RunsInv, BasesInv
<1> QED BY <1>1, RunsInvariant, PTL

\* NothingLeftBehind: every path through the workflow ends in its cleanup.
THEOREM NothingIsLeft == Spec => []NothingLeftBehind
<1>1. RunsInv => NothingLeftBehind
  BY DEF RunsInv
<1> QED BY <1>1, RunsInvariant, PTL

\* RegistrationIsAtomic: the row, the detail and the requirement JSON of a document are
\* committed by one session, which holds all of them or nothing.
THEOREM RegistrationAtomic == Spec => RegistrationIsAtomic
<1> DEFINE A == /\ rows' # rows => Len(details') = Len(details) + 1
                /\ files' # files => Len(details') = Len(details) + 1
                /\ Len(details') > Len(details) =>
                     (details'[Len(details')].object.docs = "SRS") <=> (Len(files') > Len(files))
<1>1. RunsInv /\ [Next]_vars => A
  <2> SUFFICES ASSUME TypeInv, TxInv, [Next]_vars PROVE A
    BY DEF RunsInv
  <2>1. ASSUME NEW w \in Workers, NEW j \in Jobs, Begin(w, j)
        PROVE  rows' = rows /\ details' = details /\ files' = files
    BY <2>1, BeginStep
  <2>2. \/ rows' = rows /\ details' = details /\ files' = files
        \/ \E w \in Workers : Commit(w)
    BY <2>1, NextSteps DEF RunStep
  <2>3. CASE rows' = rows /\ details' = details /\ files' = files
    <3>1. Len(details) \in Nat
      BY DEF TypeInv
    <3> QED BY <2>3, <3>1
  <2>4. ASSUME NEW w \in Workers, Commit(w) PROVE A
    <3>1. /\ Len(details) \in Nat /\ Len(details') = Len(details) + 1
          /\ details'[Len(details) + 1] = Detail(w) /\ Len(files) \in Nat
          /\ Len(files') = IF Docs(w) = "SRS" THEN Len(files) + 1 ELSE Len(files)
      BY <2>4, CommitStep
    <3>2. Detail(w).object.docs = Docs(w)
      BY DetailFields
    <3> QED BY <3>1, <3>2
  <2> QED BY <2>2, <2>3, <2>4
<1>2. RunsInv /\ [Next]_vars => [A]_vars
  BY <1>1
<1> QED BY <1>2, RunsInvariant, PTL DEF Spec, RegistrationIsAtomic

=============================================================================
