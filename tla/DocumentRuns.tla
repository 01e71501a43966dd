---------------------------- MODULE DocumentRuns ----------------------------
(***************************************************************************)
(* What a run of the workflow does outside its own memory: the preprocess  *)
(* node resolves and downloads what the document is made from, the Mermaid *)
(* agent draws, the export node writes, uploads and registers the document *)
(* and the cleanup node deletes the working files.  Runs on one machine    *)
(* share its directories, and all runs share the database and the storage. *)
(*                                                                         *)
(* The requests are those of one project.  What the supervisor's agents do *)
(* in between is module Supervisor; here they read their inputs and draw.  *)
(***************************************************************************)
EXTENDS Naturals, Sequences, FiniteSets, Positions

CONSTANTS
  Workers,       \* worker processes of one machine
  Jobs,          \* the jobs, numbered from 1
  Requests,      \* what may be asked: docs_cd, udt_yn, the files, the revised detail
  Prior,         \* the document codes registered before, in order, in a project that has some
  MaxRender,     \* how often a diagram is tried: 3 in the code
  MaxFaults      \* bound: crashes, jobs taken from a worker that is late, failed removals

DocsCds   == {"SRS", "INTERFACE", "TS", "ARCH", "ERD", "DB"}
FileNames == {"rfp", "meeting"}

ASSUME ConstantsAssumption ==
  /\ Jobs \subseteq Nat \ {0}
  /\ Requests \subseteq [docs: DocsCds, udt: {"N", "Y"}, files: SUBSET FileNames, detail: Nat]
  /\ Prior \in Seq(DocsCds)
  /\ MaxRender \in Nat \ {0}
  /\ MaxFaults \in Nat

VARIABLES
  request,   \* the request of each job, and the directory its request_id names
  jobs,      \* where each job is in the queue
  attempt,   \* how often it was begun
  at,        \* per worker: the step of the workflow that comes next
  run,       \* per worker: the WorkflowState of its run
  tx,        \* per worker: what its open session has written and not committed
  rows,      \* tbl_docs, by docs_sn
  details,   \* tbl_docs_detail, by docs_dtl_sn
  files,     \* tbl_file: the requirement JSON files, by file_sn
  stored,    \* the objects uploaded
  dirs,      \* the working directories of the requests
  diagrams,  \* mermaid_dir: the source and the image of each kind of diagram
  faults,    \* those so far
  uncleaned  \* history: the directories whose removal failed or was never reached

vars == <<request, jobs, attempt, at, run, tx, rows, details, files, stored, dirs, diagrams,
          faults, uncleaned>>

-----------------------------------------------------------------------------
(* State *)

\* The steps, named for what is done next.
Export == {"json", "docx", "upload", "register", "commit"}
Steps  == {"idle", "inputs", "base", "mark", "merge", "draw", "rendering", "cleanup"} \cup Export

\* A file the core uploads: file names carry the time to the microsecond, so that two
\* runs never share one.
Object(j, n, d, k) == [job |-> j, run |-> n, docs |-> d, kind |-> k]

NoRun == [job |-> 0, no |-> 0, seen |-> <<0, 0>>, bases |-> {}, read |-> {}, tries |-> 0,
          picture |-> 0, met |-> {}]
NoTx  == [seen |-> 0, row |-> FALSE, detail |-> FALSE, json |-> FALSE, status |-> "none"]
NoDir == [files |-> [n \in FileNames |-> 0], bases |-> {}]
NoDiagram == [source |-> <<0, 0>>, image |-> <<0, 0>>]

Request(w) == request[run[w].job]
Docs(w)    == Request(w).docs
\* Variant: the directory of the first request is used for all.
DirOfFirst(w) == 1

\* _workflow_temp_dir.
Dir(w)     == Request(w).dir
Run(w)     == <<run[w].job, run[w].no>>
Busy       == {w \in Workers : at[w] # "idle"}
Document(w) == Object(run[w].job, run[w].no, Docs(w), "docx")
Json(w)     == Object(run[w].job, run[w].no, Docs(w), "json")

Drawn == {"ARCH", "ERD"}

\* The last position of s whose element satisfies P, or 0.
Latest(s, P(_)) ==
  LET hits == {i \in DOMAIN s : P(s[i])}
  IN  IF hits = {} THEN 0 ELSE CHOOSE i \in hits : \A k \in hits : k <= i

-----------------------------------------------------------------------------
(* Repositories *)

\* FIND_CURRENT_DOCS, and the row UPDATE_DOCS_STATUS writes: the latest of a code.
CurrentRow(r, d) == LET Is(x) == x.docs = d IN Latest(r, Is)

\* FIND_ACTIVE_DOC: the latest detail of any row of the code.
ActiveDoc(dt, d) ==
  LET Is(x) == rows[x.row].docs = d
      i     == Latest(dt, Is)
  IN  IF i = 0 THEN {} ELSE {dt[i].object}

\* FIND_LATEST_FILE_BY_PROJECT_AND_CODE: the latest requirement JSON.
ActiveSrs(f) == IF f = <<>> THEN {} ELSE {f[Len(f)]}

\* find_update_detail_context: the detail asked for and the one before it on its row.
DetailContext(dt, d, sn) ==
  LET Before(x) == x.row = dt[sn].row
      i         == Latest(SubSeq(dt, 1, sn - 1), Before)
  IN  IF sn \notin DOMAIN dt THEN {}
      ELSE IF rows[dt[sn].row].docs # d \/ i = 0 THEN {}
      ELSE {dt[i].object, dt[sn].object}

\* Variant: a new row is forgotten.
WrittenStatus(t, d) ==
  IF t.status = "none" \/ CurrentRow(rows, d) = 0 THEN rows
  ELSE [rows EXCEPT ![CurrentRow(rows, d)].status = t.status]

\* The rows after the session's writes: its own row, and the status of the latest.
Written(t, d) ==
  LET r == IF t.row THEN Append(rows, [docs |-> d, status |-> "DONE"]) ELSE rows
  IN  IF t.status = "none" \/ CurrentRow(r, d) = 0 THEN r
      ELSE [r EXCEPT ![CurrentRow(r, d)].status = t.status]

\* A session that wrote the status of a code holds the lock of the row until it ends.
Locked(w) == \E v \in Busy \ {w} : tx[v].status # "none" /\ Docs(v) = Docs(w)

-----------------------------------------------------------------------------
(* Init *)

\* The codes of Prior, each with a row from when it was first registered.
Firsts == {i \in DOMAIN Prior : \A k \in 1 .. i - 1 : Prior[k] # Prior[i]}
Codes  == Pick(Prior, Firsts)

Earlier(i) ==
  [row |-> CHOOSE k \in DOMAIN Codes : Codes[k] = Prior[i],
   object |-> Object(0, i, Prior[i], "docx"), job |-> 0, bases |-> {}, read |-> {},
   picture |-> 0, met |-> {}]

\* A project without documents, or with those of Prior; each SRS has its requirement JSON.
Projects ==
  {[rows |-> <<>>, details |-> <<>>, files |-> <<>>],
   [rows    |-> [k \in DOMAIN Codes |-> [docs |-> Codes[k], status |-> "DONE"]],
    details |-> [i \in DOMAIN Prior |-> Earlier(i)],
    files   |-> LET srs == {i \in DOMAIN Prior : Prior[i] = "SRS"}
                IN  [k \in 1 .. Cardinality(srs) |-> Object(0, Position(srs, k), "SRS", "json")]]}

Objects(dt, f) == {dt[i].object : i \in DOMAIN dt} \cup {f[i] : i \in DOMAIN f}

\* Two requests name one directory when their clients sent the same X-Request-ID.
Init ==
  /\ \E r \in [Jobs -> Requests], dir \in [Jobs -> Jobs] :
       /\ \A j \in Jobs : dir[j] \in {j, 1}
       /\ request = [j \in Jobs |-> [docs |-> r[j].docs, udt |-> r[j].udt, files |-> r[j].files,
                                     detail |-> r[j].detail, dir |-> dir[j]]]
  /\ \E p \in Projects :
       /\ rows = p.rows /\ details = p.details /\ files = p.files
       /\ stored = Objects(p.details, p.files)
  /\ jobs = [j \in Jobs |-> "new"]
  /\ attempt = [j \in Jobs |-> 0]
  /\ at = [w \in Workers |-> "idle"]
  /\ run = [w \in Workers |-> NoRun]
  /\ tx = [w \in Workers |-> NoTx]
  /\ dirs = [d \in Jobs |-> NoDir]
  /\ diagrams = [d \in Drawn |-> NoDiagram]
  /\ faults = 0
  /\ uncleaned = {}

database == <<rows, details, files>>
disk     == <<dirs, diagrams>>
queue    == <<request, jobs, attempt, faults>>

Goto(w, s) == at' = [at EXCEPT ![w] = s]

\* The run goes to the cleanup node, which looks at nothing but its paths.
GotoCleanup(w) ==
  /\ Goto(w, "cleanup")
  /\ run' = [run EXCEPT ![w] = [NoRun EXCEPT !.job = run[w].job]]

-----------------------------------------------------------------------------
(* The preprocess node *)

\* The queue runs a job again that was recovered, and accepts one if no other of its code
\* is active.
Runnable(j) ==
  \/ jobs[j] = "retry"
  \/ /\ jobs[j] = "new"
     /\ \A k \in Jobs : request[k].docs = request[j].docs => jobs[k] \notin {"retry", "running"}

\* _initialize_state, the validation of the request, and the project's existence: the
\* first query of the session, which from then on reads what was committed by now.
Begin(w, j) ==
  /\ at[w] = "idle" /\ Runnable(j)
  /\ Goto(w, "inputs")
  /\ jobs' = [jobs EXCEPT ![j] = "running"]
  /\ attempt' = [attempt EXCEPT ![j] = @ + 1]
  /\ run' = [v \in Workers |->
               IF v = w THEN [NoRun EXCEPT !.job = j, !.no = attempt'[j],
                                           !.seen = <<Len(details), Len(files)>>,
                                           !.met = {run[u].job : u \in Busy}]
               ELSE IF v \in Busy THEN [run[v] EXCEPT !.met = @ \cup {j}] ELSE run[v]]
  /\ UNCHANGED <<request, tx, database, stored, disk, faults, uncleaned>>

\* _validate_file_list_policy, and the meeting files an update needs.
FilesAllowed(r) ==
  IF r.udt = "Y" THEN r.files # {} ELSE (r.docs = "SRS") <=> ("rfp" \in r.files)

\* _download_file_records: each file goes to its name in the run's directory.
DownloadInputs(w) ==
  /\ at[w] = "inputs" /\ FilesAllowed(Request(w))
  /\ dirs' = [dirs EXCEPT ![Dir(w)].files =
                [n \in FileNames |-> IF n \in Request(w).files THEN run[w].job ELSE @[n]]]
  /\ Goto(w, "base")
  /\ UNCHANGED <<queue, run, tx, database, stored, diagrams, uncleaned>>

\* Variant: the oldest requirement JSON is taken.
SourcesOldest(r, dt, f) ==
  IF r.udt = "N" /\ r.docs # "SRS" /\ f # <<>> THEN {{Head(f)}} ELSE {}

\* The documents a document is made from, each as the set of what is found for it.
Sources(r, dt, f) ==
  IF r.udt = "Y"
  THEN IF r.detail # 0 THEN {DetailContext(dt, r.docs, r.detail)}
       ELSE {IF r.docs = "SRS" THEN ActiveSrs(f) ELSE ActiveDoc(dt, r.docs)}
  ELSE CASE r.docs = "SRS" -> {}
         [] r.docs = "DB"  -> {ActiveSrs(f), ActiveDoc(dt, "ERD")}
         [] r.docs = "TS"  -> {ActiveSrs(f), ActiveDoc(dt, "INTERFACE")}
         [] OTHER          -> {ActiveSrs(f)}

\* _resolve_required_documents: all are there, as the session sees them, and are
\* downloaded into the run's directory.
ResolveRequired(w) ==
  LET found == Sources(Request(w), SubSeq(details, 1, run[w].seen[1]),
                                   SubSeq(files, 1, run[w].seen[2]))
      bases == UNION found
  IN  /\ at[w] = "base"
      /\ {} \notin found /\ bases \subseteq stored
      /\ dirs' = [dirs EXCEPT ![Dir(w)].bases = @ \cup bases]
      /\ run' = [run EXCEPT ![w].bases = bases, ![w].seen = <<0, 0>>]
      /\ Goto(w, "mark")
      /\ UNCHANGED <<queue, tx, database, stored, diagrams, uncleaned>>

\* Variant: the session is committed when it is closed.
ClosedCommitting(w, status) == Written([NoTx EXCEPT !.status = status], Docs(w))

\* session.close() without a commit: what the session wrote is gone.
Closed(w, status) == rows

\* A status is written, once no other session has the row locked, and the session closed,
\* by the finally clauses of preprocessing and of an export that failed.
MarkAndClose(w, status) ==
  /\ ~Locked(w)
  /\ rows' = Closed(w, status)
  /\ tx' = [tx EXCEPT ![w] = NoTx]

\* _try_mark_docs_generating.
MarkGenerating(w) ==
  /\ at[w] = "mark"
  /\ MarkAndClose(w, "GENERATING")
  /\ Goto(w, "merge")
  /\ UNCHANGED <<queue, run, details, files, stored, disk, uncleaned>>

\* _to_failed_state: a file is refused or not found, a download or a query fails, a
\* document that is required is missing.
PreprocessFails(w) ==
  /\ at[w] \in {"inputs", "base"}
  /\ MarkAndClose(w, "FAILED")
  /\ GotoCleanup(w)
  /\ UNCHANGED <<queue, details, files, stored, disk, uncleaned>>

-----------------------------------------------------------------------------
(* The agents *)

ExportStart(w) == IF Docs(w) = "SRS" THEN "json" ELSE "docx"

\* The agents read the run's files, if they are still there.
ReadInputs(w) ==
  LET d == dirs[Dir(w)]
      r == {d.files[n] : n \in Request(w).files}
  IN  /\ at[w] = "merge"
      /\ 0 \notin r /\ run[w].bases \subseteq d.bases
      /\ run' = [run EXCEPT ![w].read = r]
      /\ Goto(w, IF Docs(w) \in Drawn THEN "draw" ELSE ExportStart(w))
      /\ UNCHANGED <<queue, tx, database, stored, disk, uncleaned>>

\* The supervisor gives up: an agent fails, a file is gone, or no diagram is drawn.
GenerationFails(w) ==
  /\ at[w] \in {"merge", "draw"}
  /\ GotoCleanup(w)
  /\ UNCHANGED <<queue, tx, database, stored, disk, uncleaned>>

\* Variant: the image of an earlier rendering is left.
StartKeepingImage(d, who) == [d EXCEPT !.source = who]

\* render_mermaid writes the source and removes the image of an earlier rendering.
Start(d, who) == [source |-> who, image |-> <<0, 0>>]

\* The renderer's names are fixed: one source and one image for each kind of diagram.
StartRender(w) ==
  /\ at[w] = "draw" /\ run[w].tries < MaxRender
  /\ diagrams' = [diagrams EXCEPT ![Docs(w)] = Start(@, Run(w))]
  /\ run' = [run EXCEPT ![w].tries = @ + 1]
  /\ Goto(w, "rendering")
  /\ UNCHANGED <<queue, tx, database, stored, dirs, uncleaned>>

\* mmdc reads the source it finds and writes the image, or fails and writes none; the
\* rendering succeeded if it says so and the image exists.
Render(w) ==
  LET d == diagrams[Docs(w)]
  IN  /\ at[w] = "rendering"
      /\ \/ d.source # <<0, 0>> /\ diagrams' = [diagrams EXCEPT ![Docs(w)].image = d.source]
         \/ UNCHANGED diagrams
      /\ \/ /\ diagrams'[Docs(w)].image # <<0, 0>>
            /\ run' = [run EXCEPT ![w].tries = 0]
            /\ Goto(w, ExportStart(w))
         \/ Goto(w, "draw") /\ UNCHANGED run
      /\ UNCHANGED <<queue, tx, database, stored, dirs, uncleaned>>

-----------------------------------------------------------------------------
(* The export node *)

\* _export_requirement_json_if_needed: the file is uploaded, and its row inserted.
ExportRequirementJson(w) ==
  /\ at[w] = "json"
  /\ stored' = stored \cup {Json(w)}
  /\ tx' = [tx EXCEPT ![w].json = TRUE]
  /\ Goto(w, "docx")
  /\ UNCHANGED <<queue, run, database, disk, uncleaned>>

\* The image there is, if any: one that is missing is left out.
Picture(w) == IF Docs(w) \in Drawn THEN diagrams[Docs(w)].image[1] ELSE 0

\* The metadata are read, by the first query of the session, which fixes what it sees; the
\* DOCX is written.
WriteDocx(w) ==
  /\ at[w] = "docx"
  /\ tx' = [tx EXCEPT ![w].seen = Len(rows)]
  /\ run' = [run EXCEPT ![w].picture = Picture(w)]
  /\ Goto(w, "upload")
  /\ UNCHANGED <<queue, database, stored, disk, uncleaned>>

\* Variant: the export goes on when the upload failed.
UploadedOrNot(w) == stored' \in {stored, stored \cup {Document(w)}}

Uploaded(w) == stored' = stored \cup {Document(w)}

\* upload_file.
UploadDocument(w) ==
  /\ at[w] = "upload"
  /\ Uploaded(w)
  /\ Goto(w, "register")
  /\ UNCHANGED <<queue, run, tx, database, disk, uncleaned>>

\* Variant: the row is looked for by its status too, and one that failed is not taken.
NeverSeen(w) == Docs(w) = "SRS" \/ CurrentRow(SubSeq(rows, 1, tx[w].seen), Docs(w)) = 0

\* _find_docs_sn: no row of the code among those the session sees.
NoRowSeen(w) == CurrentRow(SubSeq(rows, 1, tx[w].seen), Docs(w)) = 0

\* insert_docs_detail and update_docs_status_done.
Register(w) ==
  /\ at[w] = "register" /\ ~Locked(w)
  /\ tx' = [tx EXCEPT ![w].row = NoRowSeen(w), ![w].detail = TRUE, ![w].status = "DONE"]
  /\ Goto(w, "commit")
  /\ UNCHANGED <<queue, run, database, stored, disk, uncleaned>>

\* The detail, with what it was made of.
Detail(w) ==
  [row     |-> IF tx[w].row THEN Len(rows) + 1
               ELSE CurrentRow(SubSeq(rows, 1, tx[w].seen), Docs(w)),
   object  |-> Document(w), job |-> run[w].job, bases |-> run[w].bases,
   read    |-> run[w].read, picture |-> run[w].picture, met |-> run[w].met]

\* session.commit(), and the result of the export.
Commit(w) ==
  /\ at[w] = "commit"
  /\ rows' = Written(tx[w], Docs(w))
  /\ details' = Append(details, Detail(w))
  /\ files' = IF tx[w].json THEN Append(files, Json(w)) ELSE files
  /\ tx' = [tx EXCEPT ![w] = NoTx]
  /\ GotoCleanup(w)
  /\ UNCHANGED <<queue, stored, disk, uncleaned>>

\* Anything in the export may fail: it rolls back, and _mark_failed writes the status in the
\* same session, which is then closed.
ExportFails(w) ==
  /\ at[w] \in Export
  /\ MarkAndClose(w, "FAILED")
  /\ GotoCleanup(w)
  /\ UNCHANGED <<queue, details, files, stored, disk, uncleaned>>

-----------------------------------------------------------------------------
(* The cleanup node *)

\* Variant: the documents downloaded for the request are forgotten.
RemovedInputs(w) == [dirs EXCEPT ![Dir(w)].files = NoDir.files]

\* workflow_temp_dir is removed with all its files, whoever put them there.
Removed(w) == [dirs EXCEPT ![Dir(w)] = NoDir]

\* cleanup_workflow_resources: the run's own paths, then the directories all runs share;
\* an error is only a warning.  Then the run ends, whatever became of its job meanwhile.
Cleanup(w) ==
  /\ at[w] = "cleanup"
  /\ \/ /\ dirs' = Removed(w) /\ uncleaned' = uncleaned \ {Dir(w)}
        /\ diagrams' = [d \in Drawn |-> NoDiagram]
        /\ UNCHANGED faults
     \/ /\ faults < MaxFaults /\ faults' = faults + 1
        /\ uncleaned' = uncleaned \cup {Dir(w)}
        /\ UNCHANGED disk
  /\ jobs' = [jobs EXCEPT ![run[w].job] = "ended"]
  /\ run' = [run EXCEPT ![w] = NoRun]
  /\ Goto(w, "idle")
  /\ UNCHANGED <<request, attempt, tx, database, stored>>

-----------------------------------------------------------------------------
(* Faults *)

\* The worker dies, with its session; the queue recovers the job.
Crash(w) ==
  /\ at[w] # "idle" /\ faults < MaxFaults
  /\ faults' = faults + 1
  /\ jobs' = [jobs EXCEPT ![run[w].job] = IF @ = "running" THEN "retry" ELSE @]
  /\ uncleaned' = uncleaned \cup {Dir(w)}
  /\ run' = [run EXCEPT ![w] = NoRun]
  /\ tx' = [tx EXCEPT ![w] = NoTx]
  /\ Goto(w, "idle")
  /\ UNCHANGED <<request, attempt, database, stored, disk>>

\* The worker is late: the queue recovers the job while it is still being run.
TakenOver(j) ==
  /\ jobs[j] = "running" /\ faults < MaxFaults
  /\ faults' = faults + 1
  /\ jobs' = [jobs EXCEPT ![j] = "retry"]
  /\ UNCHANGED <<request, attempt, at, run, tx, database, stored, disk, uncleaned>>

\* Nothing is left to run.
Quiet ==
  /\ Busy = {} /\ \A j \in Jobs : ~Runnable(j)
  /\ UNCHANGED vars

Next ==
  \/ \E w \in Workers :
       \/ \E j \in Jobs : Begin(w, j)
       \/ DownloadInputs(w) \/ ResolveRequired(w) \/ MarkGenerating(w)
       \/ PreprocessFails(w)
       \/ ReadInputs(w) \/ GenerationFails(w) \/ StartRender(w) \/ Render(w)
       \/ ExportRequirementJson(w) \/ WriteDocx(w)
       \/ UploadDocument(w) \/ Register(w) \/ Commit(w) \/ ExportFails(w)
       \/ Cleanup(w) \/ Crash(w)
  \/ \E j \in Jobs : TakenOver(j)
  \/ Quiet

Spec == Init /\ [][Next]_vars

-----------------------------------------------------------------------------
(* Properties *)

TypeOK ==
  /\ jobs \in [Jobs -> {"new", "running", "retry", "ended"}]
  /\ at \in [Workers -> Steps]
  /\ \A w \in Workers : run[w].tries \in 0 .. MaxRender /\ run[w].met \subseteq Jobs
  /\ \A i \in DOMAIN details : details[i].row \in DOMAIN rows
  /\ \A d \in Jobs : dirs[d].files \in [FileNames -> Jobs \cup {0}]
  /\ \A d \in Drawn : diagrams[d].image[1] \in Jobs \cup {0}

Registered(i) == details[i].job # 0

\* What is registered can be downloaded: no detail and no requirement JSON names a file that
\* was not uploaded, whatever failed or crashed between the upload and the commit.
RowsNameUploads == Objects(details, files) \subseteq stored

\* A document whose diagram is not the one its own run drew - another run's, or none at
\* all, since a missing image is left out silently - was made while another run was at
\* work on the machine.
PictureIsOwn ==
  \A i \in DOMAIN details :
    /\ Registered(i) /\ details[i].object.docs \in Drawn
    /\ details[i].picture # details[i].job
    => details[i].met # {}

\* A document is written from the files of its own request, unless a run in the same
\* directory met it: requests whose clients sent one X-Request-ID.
InputsAreOwn ==
  \A i \in DOMAIN details :
    Registered(i) =>
      \/ details[i].read \subseteq {details[i].job}
      \/ \E j \in details[i].met \ {details[i].job} :
            request[j].dir = request[details[i].job].dir

\* A document of the project has one row in tbl_docs.  There is no unique key: a second
\* one is inserted only when two runs of the code met.
OneRowPerDocument ==
  \A i, k \in DOMAIN rows :
    i # k /\ rows[i].docs = rows[k].docs
    => \E n \in DOMAIN details :
         /\ details[n].object.docs = rows[i].docs
         /\ \E j \in details[n].met : request[j].docs = rows[i].docs

\* The documents a document depends on.
DependsOn(r) ==
  {r.docs} \cup (IF r.udt = "Y" THEN {} ELSE {"SRS"}) \cup (IF r.docs = "DB" THEN {"ERD"} ELSE {})
    \cup (IF r.docs = "TS" THEN {"INTERFACE"} ELSE {})

\* A document is made from the versions of the documents it depends on that are the latest
\* when it is registered - not when they were looked for - unless a run that registered a
\* later one met it.
BasesAreLatest ==
  \A i \in DOMAIN details : \A b \in details[i].bases :
    Registered(i) /\ request[details[i].job].detail = 0 =>
      \A p, k \in 1 .. i - 1 :
        /\ p < k /\ details[p].object.docs = b.docs /\ details[k].object.docs = b.docs
        /\ <<details[p].object.job, details[p].object.run>> = <<b.job, b.run>>
        => \E j \in details[i].met : request[j].docs = b.docs

\* A run leaves no working directory behind, however it ends, unless the removal failed or
\* the worker crashed; a run in the same directory may still be filling it.
NothingLeftBehind ==
  \A d \in Jobs :
    dirs[d] # NoDir => d \in uncleaned \/ \E w \in Busy : Dir(w) = d

\* tbl_docs, tbl_docs_detail and tbl_file change together or not at all: a status is seen
\* only with the detail it is about, and a requirement JSON only with its document.  (It
\* also means that GENERATING and FAILED, written in sessions that are closed without a
\* commit, are never seen.)
RegistrationIsAtomic ==
  [][ /\ rows' # rows => Len(details') = Len(details) + 1
      /\ files' # files => Len(details') = Len(details) + 1
      /\ Len(details') > Len(details) =>
           (details'[Len(details')].object.docs = "SRS") <=> (Len(files') > Len(files)) ]_vars

=============================================================================
