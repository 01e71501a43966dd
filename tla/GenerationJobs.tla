--------------------------- MODULE GenerationJobs ---------------------------
(***************************************************************************)
(* The generation job queue: the rows of tbl_generation_job, the API       *)
(* handlers that insert them, and the workers that claim them, run the     *)
(* document workflow and write the result back.                            *)
(*                                                                         *)
(* The table is the only thing the processes share.  A step of this module *)
(* is one database statement or commit, or one workflow node; every write  *)
(* of the code that is a SELECT followed by an UPDATE of the columns that  *)
(* changed (SQLAlchemy's unit of work) is two steps, a "load" and a        *)
(* "flush", because no lock is held between them.                          *)
(*                                                                         *)
(* Wall-clock time is abstracted to one bit per row: whether heartbeat_dt  *)
(* is older than job_worker_stale_timeout.                                 *)
(***************************************************************************)
EXTENDS Naturals, FiniteSets

CONSTANTS
  Workers,      \* worker processes, each running run_generation_worker_loop
  Clients,      \* concurrent POST /generate requests
  Keys,         \* (project_sn, docs_cd) pairs
  NoKey,        \* SQL NULL in active_key; a client that is not between two statements
  MaxJobs,      \* bound: rows ever inserted
  MaxRetry,     \* max_retry_cnt of every row (1 in the code)
  MaxCrashes,   \* bound: worker processes that die
  MaxDbErrors,  \* bound: transactions the database refuses
  MaxPauses     \* bound: times the heartbeat of a living worker goes stale

ASSUME ConstantsAssumption ==
  /\ NoKey \notin Keys
  /\ MaxJobs \in Nat
  /\ MaxRetry \in Nat
  /\ MaxCrashes \in Nat
  /\ MaxDbErrors \in Nat
  /\ MaxPauses \in Nat

Jobs  == 1 .. MaxJobs     \* job_sn, in the order of requested_dt
NoJob == 0

VARIABLES
  jobs,      \* the committed rows of tbl_generation_job
  check,     \* per client: the key find_active found free, not yet inserted
  pc,        \* per worker: where it stands in run_once
  job,       \* per worker: the row it claims or has claimed
  stale,     \* per worker: the stale rows its open poll transaction has locked
  node,      \* per worker: the workflow node it is in
  outcome,   \* per worker: state["status"] of its workflow
  loaded,    \* per worker: the row as its open session read it
  claims,    \* history: how often each row was claimed
  exports,   \* history: documents committed for each row by the export node
  faults     \* history: crashes, database errors and pauses so far

queueVars  == <<jobs, claims, exports>>
workerVars == <<pc, job, stale, node, outcome, loaded>>
vars == <<jobs, check, pc, job, stale, node, outcome, loaded, claims, exports, faults>>

-----------------------------------------------------------------------------
(* Rows *)

Statuses   == {"ABSENT", "PENDING", "PROCESSING", "COMPLETED", "FAILED"}
Active     == {"PENDING", "PROCESSING"}
Terminal   == {"COMPLETED", "FAILED"}
Heartbeats == {"none", "fresh", "stale"}
Errors     == {"none", "stale", "workflow"}

Row == [status: Statuses, key: Keys \cup {NoKey}, active_key: Keys \cup {NoKey},
        progress: 0 .. 100, retry: Nat, heartbeat: Heartbeats, error: Errors]

NoRow == [status |-> "ABSENT", key |-> NoKey, active_key |-> NoKey,
          progress |-> 0, retry |-> 0, heartbeat |-> "none", error |-> "none"]

NewRow(k) == [status |-> "PENDING", key |-> k, active_key |-> k,
              progress |-> 0, retry |-> 0, heartbeat |-> "none", error |-> "none"]

\* Variant: the claim forgets the heartbeat.
ClaimedUnseen(r) == [r EXCEPT !.status = "PROCESSING", !.progress = 5]

\* claim_next: the columns a claim writes.
Claimed(r) == [r EXCEPT !.status = "PROCESSING", !.progress = 5, !.heartbeat = "fresh"]

\* Variant: the comparison with max_retry_cnt is off by one.
RecoveredOnceMore(r) ==
  IF r.retry <= MaxRetry
  THEN [r EXCEPT !.retry = r.retry + 1, !.status = "PENDING",
                 !.progress = 0, !.heartbeat = "none"]
  ELSE [r EXCEPT !.status = "FAILED", !.error = "stale", !.active_key = NoKey]

\* Variant: the requeue forgets to count the retry.
RecoveredUncounted(r) ==
  IF r.retry < MaxRetry
  THEN [r EXCEPT !.status = "PENDING", !.progress = 0, !.heartbeat = "none"]
  ELSE [r EXCEPT !.status = "FAILED", !.error = "stale", !.active_key = NoKey]

\* recover_stale_jobs: requeued while a retry is left, failed afterwards.
Recovered(r) ==
  IF r.retry < MaxRetry
  THEN [r EXCEPT !.retry = r.retry + 1, !.status = "PENDING",
                 !.progress = 0, !.heartbeat = "none"]
  ELSE [r EXCEPT !.status = "FAILED", !.error = "stale", !.active_key = NoKey]

\* An UPDATE carries only the columns whose value differs from the loaded one.
Column(old, new, stored) == IF new = old THEN stored ELSE new

\* update_progress, flushed over row r by a session that had loaded row s.
Reported(r, s, p) ==
  [r EXCEPT !.status    = Column(s.status, "PROCESSING", r.status),
            !.progress  = Column(s.progress, IF p > s.progress THEN p ELSE s.progress,
                                 r.progress),
            !.heartbeat = "fresh"]

\* Variant: success leaves the job's key taken.
SucceededKeepsKey(r, s) ==
  [r EXCEPT !.status = "COMPLETED", !.progress = 100, !.error = "none", !.heartbeat = "fresh"]

\* mark_succeeded and mark_failed: no condition on the row's status or owner.
Succeeded(r, s) ==
  [r EXCEPT !.status     = Column(s.status, "COMPLETED", r.status),
            !.progress   = Column(s.progress, 100, r.progress),
            !.error      = Column(s.error, "none", r.error),
            !.active_key = Column(s.active_key, NoKey, r.active_key),
            !.heartbeat  = "fresh"]

Failed(r, s) ==
  [r EXCEPT !.status     = Column(s.status, "FAILED", r.status),
            !.error      = Column(s.error, "workflow", r.error),
            !.active_key = Column(s.active_key, NoKey, r.active_key),
            !.heartbeat  = "fresh"]

-----------------------------------------------------------------------------
(* Workers *)

Nodes    == {"preprocess", "supervisor", "export", "cleanup"}
Outcomes == {"RUNNING", "DONE", "FAILED"}

\* The progress each node reports as it starts.
NodeProgress(n) == CASE n = "preprocess" -> 10
                     [] n = "supervisor" -> 30
                     [] n = "export"     -> 90
                     [] n = "cleanup"    -> 95

\* Variant: the graph leads from the export back to the supervisor.
ExportLoops(n) == CASE n = "preprocess" -> "supervisor"
                    [] n = "supervisor" -> "export"
                    [] n = "export"     -> "supervisor"

\* The edges of the workflow graph a successful node follows.
NextNode(n) == CASE n = "preprocess" -> "supervisor"
                 [] n = "supervisor" -> "export"
                 [] n = "export"     -> "cleanup"

InWorkflow == {"load", "flush", "body"}
Running(w) == pc[w] \in InWorkflow \cup {"finLoad", "finFlush"}

\* The rows an open poll transaction holds under SELECT ... FOR UPDATE.
Held(w) == stale[w] \cup ({job[w]} \ {NoJob})

\* Variant: the poll selects without FOR UPDATE.
NothingLocked == {}

Locked == UNION {Held(w) : w \in {v \in Workers : pc[v] = "polling"}}

NextJob == {j \in Jobs : /\ jobs[j].status = "ABSENT"
                         /\ \A i \in Jobs : i < j => jobs[i].status # "ABSENT"}

Init ==
  /\ jobs    = [j \in Jobs |-> NoRow]
  /\ check   = [c \in Clients |-> NoKey]
  /\ pc      = [w \in Workers |-> "idle"]
  /\ job     = [w \in Workers |-> NoJob]
  /\ stale   = [w \in Workers |-> {}]
  /\ node    = [w \in Workers |-> "preprocess"]
  /\ outcome = [w \in Workers |-> "RUNNING"]
  /\ loaded  = [w \in Workers |-> NoRow]
  /\ claims  = [j \in Jobs |-> 0]
  /\ exports = [j \in Jobs |-> 0]
  /\ faults  = [crashes |-> 0, dbErrors |-> 0, pauses |-> 0]

-----------------------------------------------------------------------------
(* POST /generate: create_generation_job *)

\* find_active sees no job in progress for k.  (When it sees one the request
\* ends with 409 and nothing has changed.)
FindActive(c, k) ==
  /\ check[c] = NoKey
  /\ \A j \in Jobs : jobs[j].key = k => jobs[j].status \notin Active
  /\ check' = [check EXCEPT ![c] = k]
  /\ UNCHANGED <<queueVars, workerVars, faults>>

\* INSERT and commit; the unique index on active_key lets it through.
InsertJob(c) ==
  /\ check[c] # NoKey
  /\ \A j \in Jobs : jobs[j].active_key # check[c]
  /\ \E j \in NextJob : jobs' = [jobs EXCEPT ![j] = NewRow(check[c])]
  /\ check' = [check EXCEPT ![c] = NoKey]
  /\ UNCHANGED <<claims, exports, workerVars, faults>>

\* IntegrityError: another request inserted the same key since find_active;
\* rollback, and the request ends with 409 (or 500 if that job already ended).
InsertRejected(c) ==
  /\ check[c] # NoKey
  /\ \E j \in Jobs : jobs[j].active_key = check[c]
  /\ check' = [check EXCEPT ![c] = NoKey]
  /\ UNCHANGED <<queueVars, workerVars, faults>>

-----------------------------------------------------------------------------
(* The poll transaction of run_once: recover_stale_jobs, then claim_next *)

\* Variant: the heartbeat is not compared, every row in progress counts as stale.
AllProcessing == {j \in Jobs : jobs[j].status = "PROCESSING"} \ Locked

\* Variant: the poll does not look for stale rows.
NoStaleRows == {}

StaleRows == {j \in Jobs : jobs[j].status = "PROCESSING" /\ jobs[j].heartbeat = "stale"} \ Locked

\* What claim_next can select: the unlocked PENDING rows, and those this very
\* transaction has just requeued.
Claimable(recovered) ==
  ({j \in Jobs : jobs[j].status = "PENDING"} \ Locked)
    \cup {j \in recovered : jobs[j].retry < MaxRetry}

\* Both SELECT ... FOR UPDATE SKIP LOCKED.
Poll(w) ==
  /\ pc[w] = "idle"
  /\ stale' = [stale EXCEPT ![w] = StaleRows]
  /\ LET candidates == Claimable(StaleRows)
     IN  /\ StaleRows \cup candidates # {}
         /\ \/ /\ candidates = {}
               /\ job' = job
            \/ \E j \in candidates :
                 /\ \A i \in candidates : j <= i
                 /\ job' = [job EXCEPT ![w] = j]
  /\ pc' = [pc EXCEPT ![w] = "polling"]
  /\ UNCHANGED <<queueVars, check, node, outcome, loaded, faults>>

\* Nothing stale, nothing pending: run_once returns False.
PollEmpty(w) ==
  /\ pc[w] = "idle"
  /\ StaleRows \cup Claimable(StaleRows) = {}
  /\ UNCHANGED vars

AfterPoll(w, j) ==
  LET r == IF j \in stale[w] THEN Recovered(jobs[j]) ELSE jobs[j]
  IN  IF j = job[w] THEN Claimed(r) ELSE r

\* Variant: the "no job" return is missing.
AlwaysStarts(w) == "load"

\* run_once returns unless it has claimed a job.
AfterCommit(w) == IF job[w] = NoJob THEN "idle" ELSE "load"

\* Commit: the requeues, the stale failures and the claim appear together.
PollCommit(w) ==
  /\ pc[w] = "polling"
  /\ jobs' = [j \in Jobs |-> AfterPoll(w, j)]
  /\ claims' = [j \in Jobs |-> IF j = job[w] THEN claims[j] + 1 ELSE claims[j]]
  /\ stale' = [stale EXCEPT ![w] = {}]
  /\ pc' = [pc EXCEPT ![w] = AfterCommit(w)]
  /\ UNCHANGED <<check, job, node, outcome, loaded, exports, faults>>

\* What run_once holds is local: leaving it forgets everything.
Leave(w, where) ==
  /\ pc'      = [pc EXCEPT ![w] = where]
  /\ job'     = [job EXCEPT ![w] = NoJob]
  /\ stale'   = [stale EXCEPT ![w] = {}]
  /\ node'    = [node EXCEPT ![w] = "preprocess"]
  /\ outcome' = [outcome EXCEPT ![w] = "RUNNING"]
  /\ loaded'  = [loaded EXCEPT ![w] = NoRow]

DbError ==
  /\ faults.dbErrors < MaxDbErrors
  /\ faults' = [faults EXCEPT !.dbErrors = @ + 1]

\* The transaction fails and is rolled back; run_once returns False.
PollAbort(w) ==
  /\ pc[w] = "polling"
  /\ DbError
  /\ Leave(w, "idle")
  /\ UNCHANGED <<queueVars, check>>

-----------------------------------------------------------------------------
(* The workflow, one node after the other, each reporting its progress first *)

\* update_progress reads the row; a terminal row is left alone.
LoadProgress(w) ==
  /\ pc[w] = "load"
  /\ \/ /\ jobs[job[w]].status \in Terminal
        /\ pc' = [pc EXCEPT ![w] = "body"]
        /\ UNCHANGED loaded
     \/ /\ jobs[job[w]].status \notin Terminal
        /\ pc' = [pc EXCEPT ![w] = "flush"]
        /\ loaded' = [loaded EXCEPT ![w] = jobs[job[w]]]
  /\ UNCHANGED <<queueVars, check, job, stale, node, outcome, faults>>

\* ... and writes it, waiting for a poll that has locked it.
FlushProgress(w) ==
  /\ pc[w] = "flush"
  /\ job[w] \notin Locked
  /\ jobs' = [jobs EXCEPT ![job[w]] =
                Reported(jobs[job[w]], loaded[w], NodeProgress(node[w]))]
  /\ pc' = [pc EXCEPT ![w] = "body"]
  /\ loaded' = [loaded EXCEPT ![w] = NoRow]
  /\ UNCHANGED <<claims, exports, check, job, stale, node, outcome, faults>>

\* update_generation_job_progress swallows whatever the database raises.
ProgressLost(w) ==
  /\ pc[w] \in {"load", "flush"}
  /\ DbError
  /\ pc' = [pc EXCEPT ![w] = "body"]
  /\ loaded' = [loaded EXCEPT ![w] = NoRow]
  /\ UNCHANGED <<queueVars, check, job, stale, node, outcome>>

Enter(w, n) ==
  /\ node' = [node EXCEPT ![w] = n]
  /\ pc' = [pc EXCEPT ![w] = "load"]

\* Preprocessing and the supervisor lead on; the export commits the document.
NodeSucceeds(w) ==
  /\ pc[w] = "body"
  /\ \/ /\ node[w] \in {"preprocess", "supervisor"}
        /\ UNCHANGED <<outcome, exports>>
     \/ /\ node[w] = "export"
        /\ outcome' = [outcome EXCEPT ![w] = "DONE"]
        /\ exports' = [exports EXCEPT ![job[w]] = @ + 1]
  /\ Enter(w, NextNode(node[w]))
  /\ UNCHANGED <<jobs, claims, check, job, stale, loaded, faults>>

\* A node that ends with status FAILED is routed to the cleanup node.
NodeFails(w) ==
  /\ pc[w] = "body"
  /\ node[w] \in {"preprocess", "supervisor", "export"}
  /\ Enter(w, "cleanup")
  /\ outcome' = [outcome EXCEPT ![w] = "FAILED"]
  /\ UNCHANGED <<queueVars, check, job, stale, loaded, faults>>

\* END: the heartbeat thread is stopped and joined before anything is written.
CleanupEnds(w) ==
  /\ pc[w] = "body"
  /\ node[w] = "cleanup"
  /\ pc' = [pc EXCEPT ![w] = "finLoad"]
  /\ UNCHANGED <<queueVars, check, job, stale, node, outcome, loaded, faults>>

\* workflow.invoke raises: run_once calls _mark_failed.
WorkflowRaises(w) ==
  /\ pc[w] = "body"
  /\ pc' = [pc EXCEPT ![w] = "finLoad"]
  /\ outcome' = [outcome EXCEPT ![w] = "FAILED"]
  /\ UNCHANGED <<queueVars, check, job, stale, node, loaded, faults>>

-----------------------------------------------------------------------------
(* _finish_job and _mark_failed *)

LoadFinish(w) ==
  /\ pc[w] = "finLoad"
  /\ loaded' = [loaded EXCEPT ![w] = jobs[job[w]]]
  /\ pc' = [pc EXCEPT ![w] = "finFlush"]
  /\ UNCHANGED <<queueVars, check, job, stale, node, outcome, faults>>

\* Variant: the status of the final workflow state is not looked at.
AlwaysSucceeded(w, r) == Succeeded(r, loaded[w])

\* _finish_job: a workflow that ended DONE has succeeded, anything else failed.
Finished(w, r) ==
  IF outcome[w] = "DONE" THEN Succeeded(r, loaded[w]) ELSE Failed(r, loaded[w])

FlushFinish(w) ==
  /\ pc[w] = "finFlush"
  /\ job[w] \notin Locked
  /\ jobs' = [jobs EXCEPT ![job[w]] = Finished(w, jobs[job[w]])]
  /\ Leave(w, "idle")
  /\ UNCHANGED <<claims, exports, check, faults>>

\* The result cannot be persisted: rolled back and swallowed, the row stays
\* PROCESSING and nobody beats its heart any more.
FinishLost(w) ==
  /\ pc[w] \in {"finLoad", "finFlush"}
  /\ DbError
  /\ Leave(w, "idle")
  /\ UNCHANGED <<queueVars, check>>

-----------------------------------------------------------------------------
(* Time, heartbeats and processes *)

Attended(j) == \E w \in Workers : Running(w) /\ job[w] = j

\* stale_timeout passes for a row nobody works on.
HeartbeatExpires(j) ==
  /\ jobs[j].status = "PROCESSING"
  /\ jobs[j].heartbeat = "fresh"
  /\ ~Attended(j)
  /\ jobs' = [jobs EXCEPT ![j].heartbeat = "stale"]
  /\ UNCHANGED <<claims, exports, check, workerVars, faults>>

\* ... or for one whose worker is alive but late: the process is suspended, its
\* heartbeat thread starved, or the database away.
WorkerPauses(j) ==
  /\ jobs[j].status = "PROCESSING"
  /\ jobs[j].heartbeat = "fresh"
  /\ Attended(j)
  /\ faults.pauses < MaxPauses
  /\ faults' = [faults EXCEPT !.pauses = @ + 1]
  /\ jobs' = [jobs EXCEPT ![j].heartbeat = "stale"]
  /\ UNCHANGED <<claims, exports, check, workerVars>>

\* JobHeartbeat._run: touch_heartbeat, while the workflow runs.
TouchHeartbeat(w) ==
  /\ pc[w] \in InWorkflow
  /\ jobs[job[w]].status = "PROCESSING"
  /\ jobs[job[w]].heartbeat = "stale"
  /\ job[w] \notin Locked
  /\ jobs' = [jobs EXCEPT ![job[w]].heartbeat = "fresh"]
  /\ UNCHANGED <<claims, exports, check, workerVars, faults>>

\* The process dies; the server rolls its open transaction back.
Crash(w) ==
  /\ pc[w] # "down"
  /\ faults.crashes < MaxCrashes
  /\ faults' = [faults EXCEPT !.crashes = @ + 1]
  /\ Leave(w, "down")
  /\ UNCHANGED <<queueVars, check>>

Restart(w) ==
  /\ pc[w] = "down"
  /\ pc' = [pc EXCEPT ![w] = "idle"]
  /\ UNCHANGED <<queueVars, check, job, stale, node, outcome, loaded, faults>>

-----------------------------------------------------------------------------

ClientStep(c) ==
  \/ \E k \in Keys : FindActive(c, k)
  \/ InsertJob(c)
  \/ InsertRejected(c)

\* What a running worker does when nothing fails.
WorkerStep(w) ==
  \/ Poll(w) \/ PollEmpty(w) \/ PollCommit(w)
  \/ LoadProgress(w) \/ FlushProgress(w)
  \/ NodeSucceeds(w) \/ NodeFails(w) \/ CleanupEnds(w) \/ WorkflowRaises(w)
  \/ LoadFinish(w) \/ FlushFinish(w)

WorkerFault(w) == PollAbort(w) \/ ProgressLost(w) \/ FinishLost(w) \/ Crash(w)

Next ==
  \/ \E c \in Clients : ClientStep(c)
  \/ \E w \in Workers : WorkerStep(w) \/ WorkerFault(w) \/ TouchHeartbeat(w) \/ Restart(w)
  \/ \E j \in Jobs : HeartbeatExpires(j) \/ WorkerPauses(j)

Spec == Init /\ [][Next]_vars

\* Every live worker thread keeps running and the clock keeps ticking.  Nothing
\* is assumed of clients, of faults or of a restart.
FairSpec ==
  /\ Spec
  /\ \A w \in Workers : WF_vars(WorkerStep(w))
  /\ \A j \in Jobs : WF_vars(HeartbeatExpires(j))

-----------------------------------------------------------------------------
(* Properties *)

PCs == {"idle", "polling", "load", "flush", "body", "finLoad", "finFlush", "down"}

\* Type invariant: every variable has its type, and a worker names a row exactly
\* when it runs one.
TypeOK ==
  /\ jobs    \in [Jobs -> Row]
  /\ check   \in [Clients -> Keys \cup {NoKey}]
  /\ pc      \in [Workers -> PCs]
  /\ job     \in [Workers -> Jobs \cup {NoJob}]
  /\ stale   \in [Workers -> SUBSET Jobs]
  /\ node    \in [Workers -> Nodes]
  /\ outcome \in [Workers -> Outcomes]
  /\ loaded  \in [Workers -> Row]
  /\ claims  \in [Jobs -> Nat]
  /\ exports \in [Jobs -> Nat]
  /\ faults  \in [crashes : Nat, dbErrors : Nat, pauses : Nat]
  /\ \A w \in Workers : Running(w) => job[w] # NoJob

\* Two workers never generate documents for the same project and document code
\* at the same time: neither one row twice nor two rows of one key.
ExclusiveGeneration ==
  \A v, w \in Workers :
    v # w /\ Running(v) /\ Running(w) => jobs[job[v]].key # jobs[job[w]].key

\* The row a worker runs is PROCESSING and fresh until it writes the result:
\* nobody can requeue it under the worker's feet.
LeaseHeld ==
  \A w \in Workers :
    Running(w) => /\ jobs[job[w]].status = "PROCESSING"
                  /\ jobs[job[w]].heartbeat = "fresh"

\* What GET /generation-jobs answers is coherent: a completed job is at 100, has
\* no error and a document; a failed one has an error; and a row keeps its
\* active_key, which blocks new requests, exactly as long as it is in progress.
ReportCoherent ==
  \A j \in Jobs :
    /\ jobs[j].status = "COMPLETED" => /\ jobs[j].progress = 100
                                       /\ jobs[j].error = "none"
                                       /\ exports[j] > 0
    /\ jobs[j].status = "FAILED" => jobs[j].error # "none"
    /\ jobs[j].active_key = IF jobs[j].status \in Active THEN jobs[j].key ELSE NoKey

\* A result, once reported, is never changed.
ResultIsFinal ==
  [][\A j \in Jobs : jobs[j].status \in Terminal => jobs'[j] = jobs[j]]_vars

\* The progress a client polls goes backwards only when the job is requeued,
\* which costs it a retry.
ProgressForward ==
  [][\A j \in Jobs : jobs'[j].progress < jobs[j].progress
                       => jobs'[j].retry = jobs[j].retry + 1]_vars

\* A job is claimed at most once more than it was requeued, and requeued at most
\* max_retry_cnt times, whatever stalls, dies or is refused.
AttemptsBounded ==
  \A j \in Jobs : /\ claims[j] <= jobs[j].retry + 1
                   /\ jobs[j].retry <= MaxRetry

\* However often it is rerun, an attempt commits at most one document.
OneDocumentPerAttempt == \A j \in Jobs : exports[j] <= claims[j]

\* A row in progress carries a heartbeat, without which recover_stale_jobs
\* (heartbeat_dt < stale_before) would never see it.
Recoverable ==
  \A j \in Jobs : jobs[j].status = "PROCESSING" => jobs[j].heartbeat # "none"

\* A completed job has its document.
CompletedHasDocument ==
  \A j \in Jobs : jobs[j].status = "COMPLETED" => exports[j] > 0

\* The queue as its clients see it.
Phase(j) == CASE jobs[j].status = "ABSENT"     -> "absent"
              [] jobs[j].status = "PENDING"    -> "waiting"
              [] jobs[j].status = "PROCESSING" -> "running"
              [] jobs[j].status = "COMPLETED"  -> "completed"
              [] jobs[j].status = "FAILED"     -> "failed"

Promise == INSTANCE JobContract WITH
  phase    <- [j \in Jobs |-> Phase(j)],
  key      <- [j \in Jobs |-> jobs[j].key],
  attempts <- claims

\* The queue implements its contract: jobs of one key one after the other, at
\* most 1 + max_retry_cnt attempts each, one end.
KeepsPromise == Promise!Spec

\* A request is refused as long as documents of its key are being generated: a job
\* is accepted only when no worker is at work on that key.
AcceptedAlone ==
  [][\A c \in Clients :
       InsertJob(c) => \A w \in Workers : Running(w) => jobs[job[w]].key # check[c]]_vars

\* Every accepted job ends, and stays ended.
JobsSettle ==
  \A j \in Jobs : jobs[j].status = "PENDING" ~> [](jobs[j].status \in Terminal)

=============================================================================
