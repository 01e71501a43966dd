# ALPLED Core in TLA+

ALPLED Core turns a project's source files (RFPs, meeting minutes, screen images, earlier
documents) into project documents: requirement specifications (SRS), interface designs
(INTERFACE), architecture (ARCH), ERD, database design (DB) and test scenarios (TS). A
request is queued in a database table, a worker process claims it and runs a workflow in
which a supervisor drives language-model agents, and the document is exported and
registered. A second queue reviews a document when its approval is requested.

This directory holds the specifications of its concurrent and stateful core and of the
pipelines that make the documents, the TLC runs that check them and the TLAPS proofs about
them. Paths below are those of the repository,
under `src/`.

## 1. The system

### Components

| Component | State | Operations | Interacts with |
|---|---|---|---|
| Generation job queue: `services/generation_job_service.py`, `database/repositories/generation_job_repository.py`, `workers/generation_worker.py`, `services/generation_job_progress.py` | rows of `tbl_generation_job`; per worker its session, heartbeat thread and job | POST /generate (find_active, insert); poll (recover_stale_jobs, claim_next); update_progress; touch_heartbeat; mark_succeeded, mark_failed | API handlers and worker processes share the table only; the worker calls the workflow, the workflow reports progress |
| Workflow graph: `workflow/graph.py`, `workflow/nodes/` | the `WorkflowState` dictionary of one run | preprocess, supervisor, export, cleanup, and their routes | called by the worker; writes documents, files and progress |
| Approval review queue: `services/approval_review_job_service.py`, `database/repositories/approval_review_job_repository.py`, `workers/approval_review_worker.py` | rows of `tbl_approval_review_job` | POST /approval-review; claim_next; update_progress; update_snapshots; mark_succeeded, mark_failed | as above; calls the review agent, which calls back |
| Approval review agent: `agents/approval_review/` | none of its own | reads two details of a document, compares them, looks at the impact and at the requirements | called by the review worker |
| Supervisor: `supervisor/` | plan, round, step, retries, `agent_outputs`, repairs | run, execute a plan, evaluate, replan, repair, reduce | calls the agents of the registry, one after the other |
| Validation: `agents/validation/` | none | runs the checks of the document code | called by the supervisor, reads all outputs |
| ERD and DB design: `agents/data_structure_design/` | none between calls; writes `reference_erd_json_list` | make, update and repair an ERD; make and update a database design | reads the merge, the interface, search and the model; is repaired by the supervisor |
| ERD pictures: `agents/mermaid_generation/` | files of the shared diagram directory | group tables, write Mermaid, render, repair | reads the design; the export reads its files |
| Document merge and requirements: `agents/document_merge`, `agents/requirement_generation`, `agents/fine_tuning_agent/requirements_gold_agent` | the folder of a Gold run | parse, apply a meeting's changes, decompose, merge, group, specify | read each other's outputs, the language model, files |
| Test scenarios: `agents/test_scenario/` | none between calls | scenarios, cases, steps | reads the merge and the interface |
| Interface, architecture and image analysis: `agents/image_analysis`, `agents/architecture_analysis` | none between calls | write their entry of `agent_outputs` | read the merge, the language model, files |
| Preprocessing: `workflow/nodes/request_preprocess_node.py` | document status, the request's working directory | resolve required documents, download, mark GENERATING | database, object storage |
| Export: `workflow/nodes/export_node.py`, `database/repositories/docs_detail_repository.py`, `file_repository.py` | document, detail and file rows, uploaded files | inspect, write the DOCX, upload, insert, mark DONE or FAILED | database, object storage |
| Cleanup and working files: `workflow/nodes/cleanup_node.py`, `tools/storage/cleanup_manager.py`, `tools/mermaid/mermaid_renderer.py` | shared directories on the worker's disk | delete, render | every run on the same machine |
| Language model, search and embeddings: `tools/llm`, `tools/search`, `tools/vector` | none | calls to external services | the agents |
| Application: `main.py`, `config/`, `database/session.py` | worker tasks | start and stop one worker of each kind | everything |

The rest of the repository - ingestion and RAG pipelines, fine-tuning, parsers, document
templates, the data and the notebooks - is sequential data processing without shared state.
`PROJECT.json` lists the components with their status.

### What is hard about it, and what makes it correct

* *Generation queue.* Several processes poll one table with `SELECT ... FOR UPDATE SKIP
  LOCKED`; every later write is a read followed by an update of the columns that changed,
  with no lock in between and no condition on who owns the row. A worker may die, lose its
  database, or only be late, and recovery cannot tell which. Correct means: a key is
  generated by one worker at a time; a row that is worked on is not taken away; a result is
  final; an attempt is counted; every job ends; what a client polls is coherent.
* *Approval queue.* The same shape without recovery, so its rows have a single writer by
  construction; what is hard is that the document changes while a review waits. Correct
  means: one writer, one result, coherent answers, the requested revision is what is
  reviewed, and one lost review does not block the others.
* *Supervisor.* Sequential, but with three nested counters (rounds, step retries,
  repairs), agents that read each other's outputs, and plans rebuilt from the failed
  checks. Correct means: what is exported is exactly what was last validated, complete,
  drawn from itself, and the loop ends.
* *Preprocessing and export.* Files and rows are written in separate steps, in sessions
  that some paths never commit, and what a document is made from is looked up minutes before
  it is registered. Correct means: what is registered exists, rows change together, a
  project has one row for a document, and a document is made from the latest ones.
* *Working files.* Runs on one machine share directories and file names. Correct means: a
  document shows its own request's files and its own diagram, and nothing is left behind.
* *Design pipelines.* Each alternates between a language model, which may answer anything or
  nothing, and rules that normalise, complete, name, relate and inspect what it said, in an
  order that matters: a rule that ran before the last answer guarantees nothing any more.
  Correct means: what the meeting asked for is in the document that is handed on, a design
  keeps its ERD, a requirement keeps its atoms, a change hits its own item, every requirement
  is tested, every table is drawn once - whatever the models lose, repeat or invent.

`PROJECT.json` lists the hazards at the lines where they bite, each with the properties that
would catch it.

## 2. Modules

| Module | What it is |
|---|---|
| `JobContract` | abstract specification of a job queue: accepted alone, at most 1 + MaxRetry attempts, one end |
| `GenerationJobs` | the generation queue: table, API handlers, workers, workflow nodes as the queue sees them |
| `GenerationJobsProofs` | its theorems: types, attempts, leases, exclusion, what is reported, the refinement of `JobContract` |
| `ApprovalReviewJobs` | the approval review queue, with the document it reviews |
| `ApprovalReviewJobsProofs` | its theorems |
| `Supervisor` | plans, rounds, retries, replans, validation and repairs of one run |
| `SupervisorProofs` | its theorems |
| `DocumentRuns` | preprocessing, export, diagrams on disk and cleanup of several runs: database, storage and files |
| `DocumentRunsProofs` | its theorems |
| `Positions` | the k-th of a set of positions, and what a sequence has at some of them (operators only) |
| `NaturalLemmas` | least and greatest naturals, ranks, enumerations and positions: lemmas the proofs share |
| `Loops` | a loop over a sequence: what there is after each turn (operators only) |
| `LoopLemmas` | what every turn of a loop keeps, the loop keeps: instantiated for each loop of the ERD agent |
| `ErdTables` | the ERD as the agent holds it, and the rules on it (operators only) |
| `ErdDesign` | an ERD from the first draft through naming, relating, validation and repair to the export's gate |
| `DbDesign` | a database design made of an ERD, or updated, and made again when refused |
| `ErdGrouping` | the groups of tables and the picture files an ERD is drawn in |
| `DesignProofs` | the theorems of `ErdDesign`, `DbDesign` and `ErdGrouping` |
| `GoldRequirements` | the fine-tuned agent: atoms, candidates, groups, final requirements |
| `SrsDocument` | requirements merged with a meeting's changes, and the requirement document made of them |
| `TestScenarios` | scenarios, cases and steps of a new and of an updated test document |
| `RequirementsProofs` | the theorems of `GoldRequirements`, `SrsDocument` and `TestScenarios` |
| `MCGenerationJobs`, `MCApprovalReviewJobs`, `MCSupervisor`, `MCDocumentRuns`, `MCDesign` | instances for TLC: symmetry sets and constant values |

How they relate: `GenerationJobs` sees a run of the workflow as four nodes that succeed or
fail and `DocumentRuns` says what such a run does outside its own memory; `DocumentRuns` sees
the agents as reading their inputs and drawing, `Supervisor` says in which order agents run,
and the design modules say what one agent does with a model's answers. `MCDesign` puts the
six pipelines side by side; they share no variable, and one of them runs at a time.

Definitions preceded by a comment that begins with "Variant:" are plausible bugs of the
code; they are used by no specification and serve to show that each property can fail.

### GenerationJobs

`jobs[j]` is a committed row: `status` (job_stts_cd without its prefix), `key` (prj_sn and
docs_cd), `active_key`, `progress`, `retry`, `heartbeat` and `error`. `pc`, `job`, `stale`,
`node`, `outcome` and `loaded` are a worker's local state; `check` is a request between
find_active and its insert. `claims` and `exports` are history, `faults` counts what the
bounds allow.

| Code | Actions |
|---|---|
| `create_generation_job` | `FindActive`, `InsertJob`, `InsertRejected` (the IntegrityError of the unique index) |
| `run_once`, its transaction | `Poll` (both SELECT ... FOR UPDATE SKIP LOCKED), `PollEmpty`, `PollCommit`, `PollAbort` |
| `update_generation_job_progress` | `LoadProgress`, `FlushProgress`, `ProgressLost` (its except clause) |
| workflow nodes and routes | `NodeSucceeds`, `NodeFails`, `CleanupEnds`, `WorkflowRaises` |
| `_finish_job`, `_mark_failed` | `LoadFinish`, `FlushFinish`, `FinishLost` |
| `JobHeartbeat` | `TouchHeartbeat`; `HeartbeatExpires` and `WorkerPauses` are the passing of time |
| process | `Crash`, `Restart` |

Decisions that matter:

* A read followed by a flush is two steps, and the flush writes the columns whose value
  differs from the one *read* (`Column`), as SQLAlchemy does: this is where a late writer
  mixes its columns with those of another.
* Locks are those of open poll transactions. A claim skips them, an update waits.
* Time is one bit per row. `HeartbeatExpires` ages a row nobody works on; `WorkerPauses`
  ages one whose worker lives but is late (suspended, starved, database away), at most
  `MaxPauses` times. `MaxPauses = 0` states the assumption behind the 300 s timeout
  (`job_worker_stale_timeout`): a living worker beats in time.
* `touch_heartbeat` reads and writes in one step (it writes one column, under a condition
  on the status); the supervisor's report of 75 % is folded into the node's own; the legacy
  spelling of `docs_cd` in find_active is left out; an orderly shutdown is not told from a
  crash.

### ApprovalReviewJobs

Same layout. `details` is the sequence of details of one document, each a payload (path and
content), `request[a]` the detail approval `a` was requested for; both are written by other
services (`Revise`, `RequestApproval`, external). `Report` and `ReportLost` are the
progress callback, `Load` and `SnapshotLost` the reading of the two details and the snapshot
callback, which raises again what the database raised. `Pair` is
`get_review_docs_detail_pair`. Since only its worker writes a claimed row - `OneWriter`
checks it - a write is one step. Deleting a detail is left out; heartbeats are
written and never read; nothing sets the status CANCELED.

### Supervisor

One run: `docs` and `udt` (docs_cd, udt_yn), `round`, `plan`, `step`, `retry`, `outputs`,
`failing` (the failed checks of the latest validation), `repair` and `repairs` (the
instruction in force and the history), `status`. An output is `made` (a success), `lost` (a
failure), `kept` (the failure of a repair, which carries the ERD) or `none`. `current[a]` is
history: the output of `a` was made from the outputs that are there now.

| Code | Definitions |
|---|---|
| `build_plan`, `EXECUTION_HARNESS` | `Harness`, `Generator`, `Author` |
| `_execute_plan` | `AgentSucceeds`, `AgentFailsForGood` (terminal failure types), `AgentFails` with `RetryOr`, `ValidationPasses`, `ValidationFails`, `ValidationRaises` |
| `run` between rounds | `GiveUp`, `CanReplan`, `End`, `Advance` |
| `build_replan` | `Blamed`, `Inferred`, `Rewritten`, `Redrawn`, `Replan` |
| `FAILURE_AGENT_MAP`, the validators | `Blame`, `Absent`, `Verdicts` |
| `_prepare_repair`, `_finish_repair`, the repair planner | `Prepared`, `Finished`, `Repairable` |
| `_repair_erd_output` | `RepairFails`, `RepairSource` |

The contents of documents are abstracted away, and checks are grouped: those that blame the
same agents for the same reason are one kind ("output", "content", "trace", "meeting",
"semantic", "naming", "drawing"). Checks that only warn are left out: they never fail a
validation. Which present document passes is nondeterministic, but unchanged outputs get
the same verdict again. A failure type the supervisor cannot attribute is inferred from its
words, as in the code, wrong guesses included (a merge that cannot parse the base
requirements reruns the requirement agent). The `_has_high_severity` branch of the evaluator
is never reached and left out.

### DocumentRuns

Requests of one project, run by workers of one machine. `jobs` and `attempt` are what the
queue knows of a job; `at`, `run` and `tx` are a worker's step, state and open session;
`rows`, `details` and `files` are tbl_docs, tbl_docs_detail and tbl_file; `stored` is the
object storage; `dirs` and `diagrams` are the disk; `uncleaned` and the fields `met`, `read`,
`bases` and `picture` of a detail are history.

| Code | Actions |
|---|---|
| `generation_job_repository` (summary) | `Begin`, `TakenOver` (a worker was late), `Crash` |
| `request_preprocess_node` | `DownloadInputs`, `ResolveRequired`, `MarkGenerating`, `PreprocessFails` |
| the agents (summary), `render_mermaid` | `ReadInputs`, `GenerationFails`, `StartRender`, `Render` |
| `export_node` | `ExportRequirementJson`, `WriteDocx`, `UploadDocument`, `Register`, `Commit`, `ExportFails` |
| `cleanup_node`, `cleanup_manager` | `Cleanup` |

* The database is MySQL at its default isolation: a session sees what was committed at its
  first query (`seen`), and a row it updates is locked until it ends (`Locked`). A status
  that is written in a session which is closed without a commit is one step, as nobody can
  see it: it waits for the lock, and changes nothing.
* Two requests may carry the same X-Request-ID, and so share a working directory (`Dir`).
* The renderer writes its source and removes the old image in one step, and mmdc reads the
  source and writes the image in another: in between, another run may write its own source
  or delete both. An image that is missing at the export is left out, as in the code.
* Metadata and DOCX, own and shared cleanup, and the copies that trim a file are one step
  each; commits are numbered in their order; `_check_document` is one of the ways an export
  fails.

### ErdTables and ErdDesign

A table is its name, its entity and its key columns; a column's name is a stem and a suffix.
Descriptions, attribute names, types and the columns added to fill a table decide nothing of
what is checked and are left out; what words mean is given by constants (`StandardName`,
`Base`, `Kin`, `Misfit`, `Grounded`, `Alias`, `Called`).

| Code | Definitions |
|---|---|
| `normalize_erd_tables`, `_merge_duplicate_tables` | `Standardized`, `FirstOfName`, `ColumnsOfAll`, `Normal` |
| `infer_relationships`, `rank_parent_candidates` | `ParentsOf`, `Score`, `AutoSelected`, `Infer` |
| `prepare_erd_quality`, `inspect_erd_quality` | `Prepared`, `Inspect` |
| `_create_erd`, `_update_erd` | `ProposeTables`, `RedesignTables`, `DesignColumns`, `Relate`, `FinalJson` |
| entity names | `NameFirst`, `ReviewCatalog`, `NameAgain`, `TellApart`, `RepairConsistency`, `SettleConsistency`, `NamelessFails` |
| `extract_meeting_erd_requirements`, `apply_...`, `evaluate_...` | `Wanted`, `Granted`, `AllReflected` |
| `_resolve_unmapped_fk_relationships`, the end of `execute` | `Resolved`, `Handed`, `Finish` |
| `erd_validator`, `repair_planner`, `_repair_erd_output` | `Validate`, `Repair` and what it is built of |
| `_validate_and_prepare_erd_export` | `GateTakes` |

`prepared` is history: whether the quality rules ran after the ERD's last change and marked no
key. A repair of names ends without them, so that relations keep the label of the old name:
such an ERD passes the validator, and the export's gate refuses it (`export_node.py:303-319`).
It also refuses one in which the last run of the rules made a column the first primary key of
its table, when a column of that name elsewhere has no relation yet: keys are marked along the
relations (`_synchronize_relationship_flags`) after relations have been inferred from keys
(`_complete_inferable_relationships`), so the gate's own run infers one more and takes it for a
correction. `ExportTakesIt` therefore speaks of ERDs that are `prepared`. `WishesHold` speaks
of meetings that name tables by their standard names, since
`meeting_erd_requirements.py:766-796` relates the raw names, and that ask for columns named
like keys: another one that a relation makes a primary key is renamed by the normalisation
(`table_builder.py:318-331`) and no longer found. Random instances larger than the one of the
run showed both exceptions. Parallel
relations of one kind between two tables become one whenever requirements are granted, and a
missing primary key is repaired with the rule that did not find one before: both are in the
model as in the code. ERD_FK_INVALID is one issue with a missing table; ERD_TABLE_DUPLICATED
cannot arise after `Normal`; a repair that answers MISSING is the supervisor's.

### DbDesign

`CreateDb`, `UpdateDb`, `Specify`, `Finalize` and `CheckDb` are `_create_db`, `_update_db`,
the two merges of a model's answer (`MergedDesign`, with `MergedColumn`) and `db_validator`
with the supervisor's rerun. `CreateDb` writes the tables with their identifiers back to
`reference`, as the code does: the second run starts from them, and two tables that were
given one name are one from then on, which is the exception `DbKeepsErd` makes.
`DesignToUpdate` is what an update starts from: the existing tables, if any can be read as
tables of a design, else those of the model's analysis, else what normalisation makes of that
or of the artifacts.

`DbKeepsErd` is about new designs only. Of an update nothing is claimed, because the code and
the name of its check disagree: `_update_db` collects the meeting's changes and shows them to
models, but takes the design from the existing tables (agent.py:470), so no change reaches it;
the validator's check of whether the minutes are reflected (DB_MEETING_001,
db_validator.py:352) asks only whether there is a structure, and passes. No run states
this: nothing in the repository says what an updated design must contain. It is listed as a
hazard.

### ErdGrouping

`SplitComponents` is the connected components and their splits (`Split`) of `erd_grouping.py`,
`MergeGroup` one turn of `_merge_small_groups`: the first of the groups that are `left` joins
one of those `merged`, or is another (`Absorbed`, `Targets`). `GroupTables` adds the tables
without relations and those that were missed (`AllGroups`, `MissingGroups`) and looks whether
all are there (`Covers`), `DrawGroups` writes one file for each group under its number. The
turns of the loop are steps, so that what holds between them can be said.
Two counters number the files of tables without relations; they can meet only if a relation
names a table that does not exist, which the validator refuses, so `DrawnOnce` is stated for
the others. Which columns a box shows is left out.

### GoldRequirements

An atom is a requirement and a number, a candidate the set of atoms merged in it. `Decompose`,
`Normalize`, `Groups`, `DedupGroup` and `Specify3` are TASK1, TASK2, the similarity groups,
TASK3 and the last checks; `NoAnswer` is a second answer that cannot be read. `Answers2` and
`Answers3` are any answers of bounded size, with references that are wrong, repeated or
missing. Within a requirement an atom is known by its number, at most `MaxAtoms` of them.
`Owners` says who keeps an atom that several items merge: the code repairs one after the other,
in the order in which they are first merged (`Turns`), and an item that has nothing else left
by then wins over all others; between the rest the likeness of words decides, which is any
choice here. `Repaired2`, `CoverageRestored` and `DuplicatesRepaired` are the repairs. What a model
writes as an atom's number is taken for this requirement's (`Known`), an unknown candidate in
TASK3 refuses the document (`blamed`): as in the code. Similarity is any grouping into
groups of at most `MaxGroup`; the rounds for groups that are larger are left out, since
`build_similarity_groups` makes none, and so are the files of a run.

### SrsDocument

`ReadMeeting` and `EnrichChanges` are how `document_merge` reads the minutes and has changes
written anew with what is found for them; then `TakeChanges` or `AskForAnswers` begins the
merge with the changes as they are or with a model's answer for each item, `ApplyChange` is
one turn of `merge_items` (`Applied`), and `EndMerge` hands the `items` on. `applied` counts
the turns, `Changes` is what they apply: the meeting's changes, or what the answers come to
and the meeting's additions. `SpecifyRows` is `requirement_generation` with the fine-tuned agent by the contract that
`GoldTraces` checks, `CheckSrs` the validator. Name, detail and source of an item are its
body. A change without a target changes nothing - the fallback that reads minutes without a
model never has one - and an update writes no `meeting_change_items`, so that the validator's
check of them has nothing to look at. An id that is made up may be taken already; the document
is then refused. A run starts from one requirement at least.

### TestScenarios

`GenerateScenarios`, `AskForCases`, `FallbackCases`, `NormalizeCases`, `CoverTypes`,
`FallbackSteps`, `GenerateSteps`, `DetailSteps` and `CheckTs` make a new document; `ApplyRules`,
`RefineScenarios`, `RefineCases`, `RefineSteps` and `GuessTypes` an update. The loops over
scenarios and cases are steps that `turn` counts; `answered` holds the cases until each
scenario has one of every type. Two of the six case types are in the instance, and `MaxHeard`
bounds how often an answer decides about steps: one case at a time has one that is out of the
ordinary. `RefinedCase` is what refining makes of a case: an answer replaces all of it, gets
the place of the case as its number if it names no id, and the first scenario if it names
none; `Echo` marks an answer that repeats the id. An update puts the first scenario's prefix
before every case id, which is kept as a whole behind it (`Whole`), and leaves the steps with
the old ids, so that no step names a case; nothing in the repository says what should be, so
this is listed as a hazard without a property.

`astray` remembers what models may have made clash or be lost, and no more: "id" is in it once
two ids of one list were written alike, or some were written or kept and others left to the agent
(`MayClash`), or a rewritten document had them clash; "no" is the same for the numbers of
steps; "case" is in it once a step was given to a case other than its own. Everything
`EverythingIsTested` says of ids, steps and refusals it says of the runs where the kind
it depends on is not there, those with answers that name nothing or repeat what they were
asked about included.

## 3. Runs

| Run | Configuration | Question |
|---|---|---|
| `gen_timely` | 2 workers, 2 clients, 2 keys, 2 jobs, MaxRetry 1, 1 crash, 1 database error, no pause | what holds when living workers beat in time: `ExclusiveGeneration`, `LeaseHeld`, `ReportCoherent`, `ResultIsFinal`, `ProgressForward`, and the queue implements `JobContract` (`KeepsPromise`) |
| `gen_stalls` | 2 workers, 1 job, MaxRetry 1, 1 crash, 1 database error, 2 pauses, fairness | what is left when they do not: `AttemptsBounded`, `OneDocumentPerAttempt`, `Recoverable`, `CompletedHasDocument`, and every job settles (`JobsSettle`) |
| `gen_overlap` (violation) | 2 workers, 1 key, 2 jobs, 1 pause | is a key refused as long as it is worked on? (`AcceptedAlone`) |
| `review` | 2 workers, 2 clients, 2 approvals, 2 payloads, 3 details, 2 jobs, 1 crash, 1 database error | `OneWriter`, `ReportCoherent`, `ReviewsTheRequest`, and `JobContract` with one attempt |
| `review_live` | 2 workers, 2 jobs, 1 crash, 1 database error, fairness | does a lost review hold up the others? (`EveryJobIsClaimed`) |
| `review_lost` (violation) | 2 workers, 1 job, 1 crash, fairness | does a review whose worker dies end? (`ReviewsEnd`) |
| `review_before` (violation) | 1 worker, 3 details | is the data before approval the previous one? (`BeforeIsPrevious`) |
| `supervisor` | all document codes, new and updated, 3 rounds, fairness | `ExportIsValidated`, `ExportIsComplete`, `ErdIsDrawn`, `RepairsSettle`, `Terminates` |
| `supervisor_merge` (violation) | 2 rounds | is the merge first in every plan? (`MergeIsFirst`) |
| `supervisor_repair` (violation) | ERD, 2 rounds | does a repair that is retried find its ERD? (`RepairKeepsItsSource`) |
| `document_runs` | 2 workers, 2 jobs, 5 requests (new SRS, new and updated DB, new architecture, ERD updated from a given revision), a project with and without documents, 2 tries to render, 1 fault | `RowsNameUploads`, `PictureIsOwn`, `InputsAreOwn`, `OneRowPerDocument`, `BasesAreLatest`, `NothingLeftBehind`, `RegistrationIsAtomic` |
| `design` | see below | `ExportTakesIt`, `WishesHold`, `RepairInScope` (ERD); `DbKeepsErd`; `DrawnOnce`; `GoldTraces`; `ChangesHitTheirOwn`; `EverythingIsTested` |

Several properties of `document_runs` name what it takes to break the ideal: a picture that
is another run's, an input that is another request's, a second row, a base that is no longer
the latest need a run that *met* this one, of the kind the property says. A run by itself,
whatever fails or crashes in it, does none of that.

**Bounds.** Two workers are what it takes for one to interfere with the other: a third would
meet the same table, since all interference is between two writers of a row.
Two clients race between find_active and the insert; two keys and two jobs let a poll recover
one row while it claims another, and give one key a second job after the first. `MaxRetry = 1` is
the code's value. One crash, with its recovery, uses up one retry; in `gen_stalls` two
pauses and a crash use up more than a job has, so that the failure for lack of retries
happens. `MaxDetails = 3` gives the document a detail before, one between and a copy at the
end. Three rounds are one more than the default `max_round` of 2, so that a second replan,
and a second repair, happen. `review_before` needs three details, the least for which the
first and the previous differ. In `document_runs` two runs are what it takes to share a
directory, a diagram, a row or a base, and one fault is what it takes to begin a run again
beside another; five requests cover the ways inputs are found (none, files, the SRS, the ERD
with the SRS, a given revision) and the documents with a picture, a JSON file and neither.

In `design`, each ERD has two or three tables of twelve names, with answers of a model that
repeat, rename, relate and drop them, four lists of a meeting's changes and two repairs, so
that a second repair follows a first; a database design is made again once. `DrawnOnce` is
checked for every graph of five tables, with and without a relation of a table with itself or
with one that does not exist, and pictures of three, so that components are split, merged and
full; six and four are the code's limits. `GoldTraces` has two requirements of up to two atoms,
two candidates or finals in an answer and groups of up to three: an atom may be lost, repeated,
taken from the other requirement, or called wrongly. `ChangesHitTheirOwn` has documents of two
and three items with ids that are missing, repeated or not those of their place, and up to two
changes. `EverythingIsTested` has two requirements, answers with and without ids, numbers and
scenarios, and documents to update whose ids have a prefix or none.

**Fairness.** `GenerationJobs!FairSpec` has weak fairness of `WorkerStep(w)` per worker - a
thread of a live process that is not blocked runs on; no lock is held without an end, since
a poll commits or aborts - and of `HeartbeatExpires(j)`, since clocks advance. It assumes nothing of
clients, of faults, of heartbeats, or that a crashed process is ever restarted: with one
crash at most, the other worker is enough, which is what makes `JobsSettle` say something
about recovery. `ApprovalReviewJobs!FairSpec` is the same without time. `Supervisor!FairSpec`
has weak fairness of `Next`: one thread whose agents return or raise, their calls being
bounded by timeouts.

`document_runs` and `design` check safety only and assume no fairness.

**Deadlock** is checked in the queue runs, and in `document_runs` and `design`, where `Quiet`
is the only step when everything has ended. The supervisor returns, so its runs switch the
check off; `Terminates` says where it may stop.

**Findings.** The five violation runs each show a disagreement between the code and what its
own comments, messages or documentation say; `PROJECT.json` quotes both sides.

1. `gen_overlap`: results are written without a look at the row's owner, so a worker that was
   late frees the key of a row that another worker runs.
2. `review_lost`: reviews whose worker dies stay RUNNING and block their approval.
3. `review_before`: the README promises the previous detail, the code takes the first.
4. `supervisor_merge`: the plan builder's rule that the merge comes first is switched off
   for replans, and their order follows the failed checks.
5. `supervisor_repair`: the ERD that a failed repair keeps is lost when the repair raises.

## 4. Proofs

Every theorem holds for all values of the constants that satisfy the assumption its module
states on them (`ConstantsAssumption`, `GoldAssumption`, `SrsAssumption`, `DrawingAssumption`,
`TsAssumption`, `ErdAssumption`); what a theorem assumes besides is said below. TLC evaluates the assumptions,
and checked the inductive invariants on the instances of the runs before they were proved.

### The generation queue

With any number of faults and pauses:

* `TypeCorrect`, `AttemptsAreBounded`: `[]TypeOK`, `[]AttemptsBounded`.
* `JobsAreRecoverable`: `[]Recoverable`; `CompletedJobsHaveDocuments`: `[]CompletedHasDocument`.
* `AttemptsCommitOneDocument`: `[]OneDocumentPerAttempt`, for a finite set of workers.

Under `MaxPauses = 0` (a living worker's heartbeat never goes stale), without which
`gen_overlap` shows the queue's promises broken:

* `LeaseIsHeld`, `GenerationIsExclusive`: `[]LeaseHeld`, `[]ExclusiveGeneration`.
* `QueueKeepsPromise`: `KeepsPromise`, the refinement of `JobContract`.
* `ReportsAreCoherent`, `ResultsAreFinal`, `ProgressGoesForward`: `[]ReportCoherent`, and the
  action properties `ResultIsFinal` and `ProgressForward`.

`AttemptsBounded` is not inductive: it does not say that a row that waits to be claimed again
has paid for it. `AttemptInv` does (`Paid`), and it needs `LockInv`: rows held by different
open polls are different, a held row is still what the poll saw (PENDING, or PROCESSING and
stale), and no other transaction writes it. So `TypeOK /\ LockInv /\ AttemptInv` is the
inductive invariant; a write through an old session does not break it because `Column` copies
a column that did not change and no write but the poll's touches `retry`, or makes a row
PENDING.

Without pauses, `LeaseInv` adds that a worker's row is PROCESSING and fresh, that nobody
else runs it, and that what `_finish_job` has read is what it writes over; `KeyInv` adds that
an active row holds its key and an ended row holds none, so that the unique index keeps live
rows of one key apart. `TimelyInv` is the conjunction of the five. Exclusive generation
follows from it at once, and for the refinement each action is shown to move each row by a
step of the contract or not at all; a poll's commit may move many.

`OutcomeInv` ties a worker's outcome to its node and to the document it has committed. It
makes `CompletedHasDocument` inductive even when a late worker's write frees a row, since no
write but that of a worker that is done sets COMPLETED. `OneDocumentPerAttempt` is a counting
argument: `DocumentInv` says that the documents of a row and the workers that may still commit
one for it are together no more than the row's claims. A claim pays for one worker, and a
commit turns a worker into a document. `ReportInv` adds, without pauses, what one row reports and
that what `update_progress` has read is what it writes over; the two action properties then
follow for each action from the invariant before it.

### The approval queue

`ApprovalReviewJobsProofs`, with no further assumption (its `MaxDetails` is at least 1, as a
review is of a detail that exists):

* `TypeCorrect`, `RowsHaveOneWriter`, `ReportsAreCoherent`, `RequestIsReviewed`: `[]TypeOK`,
  `[]OneWriter`, `[]ReportCoherent`, `[]ReviewsTheRequest`.
* `QueueKeepsPromise`: `KeepsPromise`, the refinement of `JobContract` with no retry.

`QueueInv` is one invariant for all of them. `WriterInv` adds to `OneWriter` that a row whose claim
is not committed is still QUEUED, so that only its worker can make it RUNNING; `KeyInv`
is the unique index; `DetailInv` says that the later detail a row names has the content that was to
be approved, and that a worker leaves the loading step only with both details stored, which
is why a review that succeeds names them. Crashes leave rows RUNNING for ever
(`review_lost`): the promise that is kept is one of safety.

### The supervisor

`SupervisorProofs`, for any number of rounds and retries:

* `TypeCorrect`, `ExportsAreValidated`, `ExportsAreComplete`, `ErdsAreDrawn`,
  `RepairsAreSettled`: `[]TypeOK`, `[]ExportIsValidated`, `[]ExportIsComplete`, `[]ErdIsDrawn`,
  `[]RepairsSettle`.

What has to be known of a run is where in its plan it is and what its outputs say of each
other. `PlanInv`: a plan ends with the validation, an ERD is drawn right after it was designed,
and a repair comes first. It is the replan's deduplication that makes it worth proving:
`list(dict.fromkeys(...))` keeps the first of each, and the lemmas on `Distinct` show that
the order of two agents survives it. `VerdictInv`: as long as nothing has changed
since a validation found no failed check, the document and its diagram are there. `KeptInv`:
an ERD that a failed repair keeps is still the one the validation refused for its semantics.
`DrawingInv`: an ERD that differs from its diagram is being designed or about to be drawn.

### The runs of the workflow

`DocumentRunsProofs`, for any workers, jobs and requests, any documents registered before, and
any number of crashes and takeovers:

* `TypeCorrect`, `RowsAreUploaded`, `PicturesAreOwn`, `InputsArePrivate`, `OneRowEach`,
  `BasesUpToDate`, `NothingIsLeft`: `[]TypeOK`, `[]RowsNameUploads`, `[]PictureIsOwn`,
  `[]InputsAreOwn`, `[]OneRowPerDocument`, `[]BasesAreLatest`, `[]NothingLeftBehind`.
* `RegistrationAtomic`: the action property `RegistrationIsAtomic`.

The properties say that a document is private, alone or latest unless its run has *met*
another. So `MetInv` comes first: of two runs that are under way at the same time, each has
met the other, including one whose job was taken over. Each of the other invariants then
says what a run that has met nobody can rely on at each of its steps: `PictureOf`, that
the source, the image and the picture of its kind are its own; `InputOf`, that its
directory holds only its files; `RowsOf`, that every row of its document that its session does
not see was registered by a run it has met; `BasesOf`, the same for later versions of its
bases. `AttemptInv` (each attempt has its own number and registers at most once) keeps the
versions apart, and `TxInv` says what an open session holds, which makes the registration
one step.

### The fine-tuned agent

`RequirementsProofs`, for any number of requirements, atoms and items of an answer, and any
size of groups, of `GoldSpec`, the pipeline by itself (the run checks the same next-state
relation beside the other pipelines; so it does for the pipelines below):

* `GoldInvariant`: `[]GoldInv`; `AtomsAreTraced`: `[]GoldTraces`.

The property has two halves. That an accepted specification traces every atom would
follow from the checks alone. That the checks refuse nothing unless a model gave no answer or
named a candidate it was not given needs what every repair achieves: that whatever items a model
answers with, after `Repaired2` each atom of the requirement is merged by exactly one
(`OwnedOnce`, `MissingOnce`), and that after `Repaired3` each candidate of the group is in exactly
one final. These are stated with two predicates on sequences of sets, `OneHas` and `NoneHas`, which
the lemmas carry through appending, picking and dropping. `GoldInv` then says between the steps:
`CandidatesInv` where the run is, `TracedOnce` that the atoms of each finished requirement
are in one candidate and those of the others in none, `FinalsInv` that each candidate is
in one final or still in one group, never both, and that a final names the atoms of its
candidates.

### The requirement document

`RequirementsProofs`, for any items, changes, answers and names, of `SrsSpec`:

* `SrsInvariant`: `[]SrsInv`; `ChangesHit`: `[]ChangesHitTheirOwn`.

`merge_items` applies one change after the other to a list that gets shorter and longer
meanwhile, and finds each change's item by its id. `ChangesHitTheirOwn` says what should come of
it - as if each answer were applied to its own item of the base, all at once - and that says
nothing of a list that is half done. `SoFar(n)` does: after n changes the items are those of
the base that stay, with the first n changes applied (`Now(n)`, `Staying(n)`), then what the
first n answers have added (`Back(n)`), then the meeting's additions so far (`Last(n)`).
`ItemsInv` is `items = SoFar(applied)` while the loop runs. That a turn leads from `SoFar(n)` to
`SoFar(n + 1)` (`SoFarStep`) rests on the id of the next item being where it was in the base
and nowhere before it in the list: ids of the base differ, and what an answer wrote to an
earlier item has that item's id, or none. So a deletion is a pick of one position fewer
(`PickOfFewer`), an update replaces one of the picked (`AppliedUpdate`), an addition is one more at
the end (`PickOfMore`). `RowsInv` carries the functional requirements into the sources of the rows.

### The pictures of an ERD

`DesignProofs`, for any number of tables, relations, domains, scores and limits, of
`DrawSpec`:

* `DrawingInvariant`: `[]DrawInv`; `ErdIsDrawnOnce`: `[]DrawnOnce`.

Each stage hands on a partition, and the argument follows it. `Sorted` enumerates a set
(`SortedEnumerates`), `Pieces` cuts a sequence into parts that have all of it once, so the
pieces of a domain part it, and the domains a component (`Split`); the components part the
tables that have a relation. `MergeInv` says between two turns of the merging that every such
table is in exactly one of the groups left and merged, that none is too full, and that the
tables of a component that fits into a picture are in one group; a turn joins two groups where
there is room. `PicturesInv` adds the tables without relations, so that nothing is missed, and
the numbers under which the files are written differ; `FilesInv` is what the files then show.

### The database design

`DesignProofs`, for any ERDs, any names, any answers of the models and any number of reruns, of
`DbSpec`, about new designs:

* `DbInvHolds`: `[]DbInv`; `DesignKeepsErd`: `[]DbKeepsErd`.

The assumptions (`DbAssumption`) are that what a run is given is a list of tables with the
fields an ERD has, and that a name `valid_table_identifier` accepts is one that
`_standard_table_name` leaves alone (`TABLE_PATTERN` and `GENERIC_TABLE_IDENTIFIERS` in
db_quality.py:155, table_builder.py:310). Nothing is assumed of the models' answers, not even
that they are tables.

`DbKeepsErd` is about what was given and what is accepted; in between the agent writes over its
own reference, which the validator then reads. So `ReferenceInv` says what the reference is: the
ERD as it was given, until a design is written; from then on `Tidy`, with primary keys named
like keys and no column twice in a table, and covering what was given (`Preserved`). Until a
design is refused it has also the columns of the ERD, table by table. `DesignInv` says that the
design is made of the reference: as many tables, the same column names at the same places. It holds because both merges run over the base and take
from a model only what is said of a column that is there (`MergedDesignIs`).

The rest is about `Normal`, which runs on the reference twice and must not change it the
second time. `NormalIs` says what it returns, a tidy list with one table for each standard name, and
`ColumnsOfAllAre` which columns: those of all tables of the name, the first of each column
name. `NormalKeepsTable` is what makes the validator's check of keys mean what it says: a tidy table
that alone has its name comes out as it went in. A design that passes has valid names that
differ, valid names are standard ones, so the validator compares the design with the very
reference (`SameKeysPass`), and with it the ERD. A refused design may have had two tables of
one name; the next run makes one of them, and `NormalCovers` and `CoversFurther` are what then remains.

### The repair of an ERD

`DesignProofs`, for any drafts, answers of the models, minutes and names, and any number of
repairs, of `ErdSpec`:

* `ErdInvHolds`: `[]ErdInv`; `RepairsStayInScope`: the action property `RepairInScope`.

The assumption is that what the agent takes from the models and the minutes are lists where
it reads lists (agent.py:1430 and the normalisation of meeting_erd_requirements.py take something
else instead of what is none), and that the tables of a draft have the fields and the kind of names
the agent's own normalisation gives them. Which tables, columns, keys and relations there are is open.

A repair is a composition of up to seven rewritings of the document, most of them loops, and
`RepairInScope` says what none of them may touch. `Kept(before, after, W)` is the form every
one of them is brought to: as many tables, the same physical names, the same column names at the same
places, no key taken away, and other entity names in `W` only. It composes
(`KeptFurther`), and it is shown of the keys (`EnsurePksIs`), a patch of names (`PatchedIs`), the rules
that tell names apart and match them to the table's words (`DistinctIs`, `MatchedIs`), the
relations found for open foreign keys and the quality rules after them (`SyncIs`, `CompleteIs`).

The property is not inductive, and one step of the argument needs the history. The rules that tell names
apart run in `Scope`, where the entities and the *tables* that failed are; a table is there
because it has no primary key, and an entity of it would then be renamed although no complaint
names it. It never is: such a repair gives up. `ErdInv` says why. When the validator gets the
ERD, and until a repair has ended, every table without a key has no column named like one
(`AllKeys`): the quality rules marked them all before, and nothing since has taken a key
away (`AllKeysStay`). So the repair of the keys finds no column to mark, some key is
missing still, and the repair ends with the ERD it was given. With `RepairInv`, that what a repair
is about is what the validator says of this very document, the two scopes are the same
wherever anything changes.

### The test scenarios

`RequirementsProofs`, for any requirements, case types, answers and earlier documents, of
`TsSpec`:

* `TestsInvariant`: `[]TsInv`; `EverythingIsTestedAlways`: `[]EverythingIsTested`.

`StageInv` and `TraceInv` say which scenarios there are and that every requirement is traced from
the first stage on; `CaseInv` that the scenarios before the loop's turn have a case of every
type, `StepInv` that the cases before it have steps. `IdInv` is what makes the verdict of the
validator follow (`VerdictInv`): unless "id" is astray, the ids differ. A fallback's is its
scenario and its place; those of one answer have the number of their scenario as a prefix and
are either all written, and differently, or all the agent's, whose indices grow. In an update
the first prefix goes before all of them, and either all are kept, or all are written, or all
are places: `RefinedDiffer` shows that they differ then, which takes that `Whole` loses nothing
of an id (`WholeOnce`). An answer that mixes the three ways, where a place may meet an id that
was kept, is what "id" stands for. A document to be updated is assumed to have passed the
validator: its ids and step numbers differ.

### Lemmas, and what stays with TLC

The models pick the first, the last or the k-th of something with CHOOSE, which means nothing
unless there is one. `NaturalLemmas` shows that there is: every set of naturals that is not
empty has a least element, a bounded one a greatest, and the elements of a finite set of
naturals have ranks that enumerate it. It argues with a least counterexample, from the
well-foundedness of `<`, since the theorems on induction take a predicate as a
parameter, which the provers cannot instantiate. `PositionProperties` and `PickProperties` say
what `Positions` returns; `SortedEnumerates` that a finite set put in an order has each of its
elements once; the lemmas after them, what becomes of a pick that loses a position, gets one
or has an element replaced. `DocumentRuns`, `Supervisor`, `GoldRequirements`, `SrsDocument`,
`ErdGrouping`, `TestScenarios` and the normalisation in `ErdTables` are written with such
positions and not with folds for that reason, and the loops whose turns depend on each other are
steps.

The ERD agent has loops inside one step, each turn of which rewrites what the turn before it wrote:
the synchronisation of foreign keys, the completion of relations, the names of the entities, the
meeting's requirements. `Loops` writes such a loop as the recursive function of what there is
after n turns, with the turn as a constant of the module. `LoopLemmas` proves, for any turn and
any predicate, that the function is defined by its equation and that what every turn keeps
holds at the end (`LoopKeeps`). An instance of it with the turn and the predicate of a loop
(`SyncLoop`, `RegroundLoop`, `GrantLoop` and five more) gives the induction over that loop as a
lemma without operator parameters, which the provers can cite.

What stays with TLC:

* Liveness (`JobsSettle`, `EveryJobIsClaimed`, `ReviewsEnd`, `Terminates`), which needs ENABLED.
* The disagreements of the violation runs.
* Two properties of the design of an ERD. `ExportTakesIt` says that the quality rules, run once
  more, correct nothing: that inference, completion and synchronisation together reach a
  fixed point in one run, for which one has to know which relation each turn settles and that no later
  turn undoes it. `WishesHold` says that what was granted first is still there after
  everything else was, and after another merge and normalisation. Both need a description
  of what these loops make, not only of what they keep.

## 5. Not modelled

* The language model client, search and embeddings are functions of their inputs and of
  external services. The specifications let every agent fail, and every model answer with
  anything of its constants or nothing.
* The DOCX writer, parsers and templates are layout. What the export decides about an image
  that is missing is in `DocumentRuns`.
* Interface, architecture and image analysis build their structures from keyword tables and a
  model's texts; what their outputs mean for the other agents is in `Supervisor`. Of the
  pipelines that are modelled, wording is left out: descriptions, types and lengths of columns,
  screens, texts and procedures, prompts, similarity scores.
* `ErdDesign` takes the first draft of a table list as given: `Drafts` stands for what the rule
  pipeline and the models may write.
* Ingestion, RAG, fine-tuning and their data are offline pipelines.

## 6. Plan

Done: `GenerationJobs` with `JobContract`; `ApprovalReviewJobs`; `Supervisor`; `DocumentRuns`;
the design pipelines; the proofs of every safety property of the two queues, the supervisor,
the runs, the fine-tuned agent, the requirement document, the pictures, the database design and
the test scenarios; the repairs of an ERD. What is left:

* `ExportTakesIt` and `WishesHold` as theorems: what inference and synchronisation make of the
  relations, pair by pair of tables.

None of the modules has a RECURSIVE operator.

## 7. Running

    tlc -workers 2 -config GenerationJobsTimely.cfg MCGenerationJobs
    tlapm GenerationJobsProofs.tla
    tlapm DocumentRunsProofs.tla

`PROJECT.json` gives the module and configuration of every run. The longest take about two
minutes each with two workers.
