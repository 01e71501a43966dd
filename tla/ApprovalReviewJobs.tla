------------------------- MODULE ApprovalReviewJobs -------------------------
(***************************************************************************)
(* The approval review queue: the rows of tbl_approval_review_job, the     *)
(* POST /approval-review handlers that insert them, and the workers that   *)
(* claim them, compare two details of the document under approval and      *)
(* write the result back.                                                  *)
(*                                                                         *)
(* Unlike the generation queue it has no recovery: nothing reads           *)
(* heartbeat_dt, so heartbeats are left out, and once a row is claimed     *)
(* only its worker writes it, so a SELECT followed by an UPDATE of it is   *)
(* one step.                                                               *)
(***************************************************************************)
EXTENDS Naturals, Sequences

CONSTANTS
  Workers,      \* worker processes, each running run_approval_review_worker_loop
  Clients,      \* concurrent POST /approval-review requests
  Approvals,    \* docs_aprv_sn: requests to approve the document
  NoApproval,   \* SQL NULL in active_key; a client that is not between two statements
  Payloads,     \* what a detail row holds: docs_path and docs_dtl_cn
  MaxDetails,   \* bound: detail rows of the document
  MaxJobs,      \* bound: rows ever inserted
  MaxCrashes,   \* bound: worker processes that die
  MaxDbErrors   \* bound: transactions the database refuses

ASSUME ConstantsAssumption ==
  /\ NoApproval \notin Approvals
  /\ MaxDetails \in Nat \ {0}
  /\ MaxJobs \in Nat
  /\ MaxCrashes \in Nat
  /\ MaxDbErrors \in Nat

Jobs     == 1 .. MaxJobs     \* job_sn, in the order of requested_dt
NoJob    == 0
NoDetail == 0

VARIABLES
  details,   \* tbl_docs_detail of the document, in the order of docs_dtl_sn
  request,   \* tbl_docs_approve: the detail each approval was requested for
  jobs,      \* the committed rows of tbl_approval_review_job
  check,     \* per client: the approval find_active found free, not yet inserted
  pc,        \* per worker: where it stands in run_once
  job,       \* per worker: the row it claims or has claimed
  stage,     \* per worker: the step of the agent it is in
  claims,    \* history: how often each row was claimed
  faults     \* history: crashes and database errors so far

docVars    == <<details, request>>
workerVars == <<pc, job, stage>>
vars == <<details, request, jobs, check, pc, job, stage, claims, faults>>

-----------------------------------------------------------------------------
(* Rows *)

Statuses == {"ABSENT", "QUEUED", "RUNNING", "SUCCEEDED", "FAILED"}
Active   == {"QUEUED", "RUNNING"}
Terminal == {"SUCCEEDED", "FAILED"}

Row == [status: Statuses, key: Approvals \cup {NoApproval},
        active_key: Approvals \cup {NoApproval}, progress: 0 .. 100,
        before: 0 .. MaxDetails, after: 0 .. MaxDetails, failed: BOOLEAN]

NoRow == [status |-> "ABSENT", key |-> NoApproval, active_key |-> NoApproval,
          progress |-> 0, before |-> NoDetail, after |-> NoDetail, failed |-> FALSE]

NewRow(a) == [NoRow EXCEPT !.status = "QUEUED", !.key = a, !.active_key = a]

Claimed(r) == [r EXCEPT !.status = "RUNNING", !.progress = 5]

\* update_progress: never backwards, and not on a row that has ended.
Reported(r, p) ==
  IF r.status \in Terminal THEN r
  ELSE [r EXCEPT !.progress = IF p > r.progress THEN p ELSE r.progress]

\* update_snapshots.
Snapshot(r, pair) ==
  IF r.status \in Terminal THEN r ELSE [r EXCEPT !.before = pair[1], !.after = pair[2]]

Succeeded(r) == [r EXCEPT !.status = "SUCCEEDED", !.progress = 100, !.failed = FALSE,
                          !.active_key = NoApproval]

\* Variant: a failed review keeps its key.
FailedKeepsKey(r) == [r EXCEPT !.status = "FAILED", !.failed = TRUE]

\* mark_failed: failed stands for error_cd and error_msg.
Failed(r) == [r EXCEPT !.status = "FAILED", !.failed = TRUE, !.active_key = NoApproval]

-----------------------------------------------------------------------------
(* The two details a review compares *)

\* Variant: one row too many is dropped, whatever it holds.
PairOneEarlier(n) == <<1, IF n > 1 THEN n - 1 ELSE 1>>

\* get_review_docs_detail_pair: the first detail, and the latest one up to the
\* requested detail, of which the copies at the end are dropped.
Pair(n) ==
  <<1, CHOOSE k \in 1 .. n : /\ \A i \in k .. n : details[i] = details[n]
                             /\ k = 1 \/ details[k - 1] # details[n]>>

-----------------------------------------------------------------------------
(* Workers *)

Stages == {"LOADING", "CHANGE_ANALYSIS", "IMPACT_ANALYSIS", "CONSISTENCY_CHECK"}

StageProgress(s) == CASE s = "LOADING"           -> 10
                      [] s = "CHANGE_ANALYSIS"   -> 30
                      [] s = "IMPACT_ANALYSIS"   -> 50
                      [] s = "CONSISTENCY_CHECK" -> 75

Running(w) == pc[w] \in {"report", "work", "succeed", "fail"}

\* Variant: the claim selects without FOR UPDATE.
NothingLocked == {}

\* The rows an open claim transaction holds under SELECT ... FOR UPDATE.
Locked == {job[w] : w \in {v \in Workers : pc[v] = "claiming"}}

\* Variant: a row waits for the rows before it to end.
InStrictOrder == {j \in Jobs : /\ jobs[j].status = "QUEUED"
                               /\ \A i \in Jobs : i < j => jobs[i].status \notin Active}

Claimable == {j \in Jobs : jobs[j].status = "QUEUED"} \ Locked

NextJob == {j \in Jobs : /\ jobs[j].status = "ABSENT"
                         /\ \A i \in Jobs : i < j => jobs[i].status # "ABSENT"}

Init ==
  /\ \E p \in Payloads : details = <<p>>
  /\ request = [a \in Approvals |-> NoDetail]
  /\ jobs    = [j \in Jobs |-> NoRow]
  /\ check   = [c \in Clients |-> NoApproval]
  /\ pc      = [w \in Workers |-> "idle"]
  /\ job     = [w \in Workers |-> NoJob]
  /\ stage   = [w \in Workers |-> "LOADING"]
  /\ claims  = [j \in Jobs |-> 0]
  /\ faults  = [crashes |-> 0, dbErrors |-> 0]

-----------------------------------------------------------------------------
(* The document and its approvals, written by other services *)

\* The document is regenerated or edited: a new detail.
Revise(p) ==
  /\ Len(details) < MaxDetails
  /\ details' = Append(details, p)
  /\ UNCHANGED <<request, jobs, check, workerVars, claims, faults>>

\* Approval is requested for the latest detail, or for a copy of it made then.
RequestApproval(a) ==
  /\ request[a] = NoDetail
  /\ \/ UNCHANGED details
     \/ /\ Len(details) < MaxDetails
        /\ details' = Append(details, details[Len(details)])
  /\ request' = [request EXCEPT ![a] = Len(details')]
  /\ UNCHANGED <<jobs, check, workerVars, claims, faults>>

-----------------------------------------------------------------------------
(* POST /approval-review: create_approval_review_job *)

\* The approval exists and find_active sees no job in progress for it.
FindActive(c, a) ==
  /\ check[c] = NoApproval
  /\ request[a] # NoDetail
  /\ \A j \in Jobs : jobs[j].key = a => jobs[j].status \notin Active
  /\ check' = [check EXCEPT ![c] = a]
  /\ UNCHANGED <<docVars, jobs, workerVars, claims, faults>>

\* Variant: no unique index on active_key.
AnyKeyIsFree(a) == TRUE

KeyIsFree(a) == \A j \in Jobs : jobs[j].active_key # a

\* INSERT and commit; the unique index on active_key lets it through.
InsertJob(c) ==
  /\ check[c] # NoApproval
  /\ KeyIsFree(check[c])
  /\ \E j \in NextJob : jobs' = [jobs EXCEPT ![j] = NewRow(check[c])]
  /\ check' = [check EXCEPT ![c] = NoApproval]
  /\ UNCHANGED <<docVars, workerVars, claims, faults>>

\* IntegrityError: another request was faster; rollback.
InsertRejected(c) ==
  /\ check[c] # NoApproval
  /\ ~KeyIsFree(check[c])
  /\ check' = [check EXCEPT ![c] = NoApproval]
  /\ UNCHANGED <<docVars, jobs, workerVars, claims, faults>>

-----------------------------------------------------------------------------
(* run_once *)

\* claim_next: SELECT ... FOR UPDATE SKIP LOCKED of the oldest queued row.
Claim(w) ==
  /\ pc[w] = "idle"
  /\ \E j \in Claimable :
       /\ \A i \in Claimable : j <= i
       /\ job' = [job EXCEPT ![w] = j]
  /\ pc' = [pc EXCEPT ![w] = "claiming"]
  /\ UNCHANGED <<docVars, jobs, check, stage, claims, faults>>

\* Nothing queued: run_once returns False.
ClaimEmpty(w) ==
  /\ pc[w] = "idle"
  /\ Claimable = {}
  /\ UNCHANGED vars

ClaimCommit(w) ==
  /\ pc[w] = "claiming"
  /\ jobs' = [jobs EXCEPT ![job[w]] = Claimed(jobs[job[w]])]
  /\ claims' = [claims EXCEPT ![job[w]] = @ + 1]
  /\ pc' = [pc EXCEPT ![w] = "report"]
  /\ UNCHANGED <<docVars, check, job, stage, faults>>

DbError ==
  /\ faults.dbErrors < MaxDbErrors
  /\ faults' = [faults EXCEPT !.dbErrors = @ + 1]

\* Variant: the worker still names the row it has finished with.
LeaveWithJob(w, where) ==
  /\ pc'    = [pc EXCEPT ![w] = where]
  /\ stage' = [stage EXCEPT ![w] = "LOADING"]
  /\ UNCHANGED job

\* What run_once holds is local: leaving it forgets everything.
Leave(w, where) ==
  /\ pc'    = [pc EXCEPT ![w] = where]
  /\ job'   = [job EXCEPT ![w] = NoJob]
  /\ stage' = [stage EXCEPT ![w] = "LOADING"]

ClaimAbort(w) ==
  /\ pc[w] = "claiming"
  /\ DbError
  /\ Leave(w, "idle")
  /\ UNCHANGED <<docVars, jobs, check, claims>>

\* The agent reports the step it starts ...
Report(w) ==
  /\ pc[w] = "report"
  /\ jobs' = [jobs EXCEPT ![job[w]] = Reported(jobs[job[w]], StageProgress(stage[w]))]
  /\ pc' = [pc EXCEPT ![w] = "work"]
  /\ UNCHANGED <<docVars, check, job, stage, claims, faults>>

\* ... and goes on if the report cannot be written.
ReportLost(w) ==
  /\ pc[w] = "report"
  /\ DbError
  /\ pc' = [pc EXCEPT ![w] = "work"]
  /\ UNCHANGED <<docVars, jobs, check, job, stage, claims>>

Enter(w, s) ==
  /\ stage' = [stage EXCEPT ![w] = s]
  /\ pc' = [pc EXCEPT ![w] = "report"]

\* The two details are read and their content is stored in the row.
Load(w) ==
  /\ pc[w] = "work" /\ stage[w] = "LOADING"
  /\ jobs' = [jobs EXCEPT ![job[w]] = Snapshot(@, Pair(request[@.key]))]
  /\ Enter(w, "CHANGE_ANALYSIS")
  /\ UNCHANGED <<docVars, check, job, claims, faults>>

\* The snapshot callback raises again what the database raised.
SnapshotLost(w) ==
  /\ pc[w] = "work" /\ stage[w] = "LOADING"
  /\ DbError
  /\ pc' = [pc EXCEPT ![w] = "fail"]
  /\ UNCHANGED <<docVars, jobs, check, job, stage, claims>>

\* The consistency check is skipped when the project has no requirement document.
Analyse(w) ==
  /\ pc[w] = "work"
  /\ \/ /\ stage[w] = "CHANGE_ANALYSIS"
        /\ Enter(w, "IMPACT_ANALYSIS")
     \/ /\ stage[w] = "IMPACT_ANALYSIS"
        /\ \/ Enter(w, "CONSISTENCY_CHECK")
           \/ pc' = [pc EXCEPT ![w] = "succeed"] /\ UNCHANGED stage
     \/ /\ stage[w] = "CONSISTENCY_CHECK"
        /\ pc' = [pc EXCEPT ![w] = "succeed"]
        /\ UNCHANGED stage
  /\ UNCHANGED <<docVars, jobs, check, job, claims, faults>>

\* A lookup, a file or the language model fails.
AgentRaises(w) ==
  /\ pc[w] = "work"
  /\ pc' = [pc EXCEPT ![w] = "fail"]
  /\ UNCHANGED <<docVars, jobs, check, job, stage, claims, faults>>

MarkSucceeded(w) ==
  /\ pc[w] = "succeed"
  /\ jobs' = [jobs EXCEPT ![job[w]] = Succeeded(@)]
  /\ Leave(w, "idle")
  /\ UNCHANGED <<docVars, check, claims, faults>>

MarkFailed(w) ==
  /\ pc[w] = "fail"
  /\ jobs' = [jobs EXCEPT ![job[w]] = Failed(@)]
  /\ Leave(w, "idle")
  /\ UNCHANGED <<docVars, check, claims, faults>>

\* The result cannot be written: the error is logged, and the worker moves on.
ResultLost(w) ==
  /\ pc[w] \in {"succeed", "fail"}
  /\ DbError
  /\ Leave(w, "idle")
  /\ UNCHANGED <<docVars, jobs, check, claims>>

Crash(w) ==
  /\ pc[w] # "down"
  /\ faults.crashes < MaxCrashes
  /\ faults' = [faults EXCEPT !.crashes = @ + 1]
  /\ Leave(w, "down")
  /\ UNCHANGED <<docVars, jobs, check, claims>>

Restart(w) ==
  /\ pc[w] = "down"
  /\ pc' = [pc EXCEPT ![w] = "idle"]
  /\ UNCHANGED <<docVars, jobs, check, job, stage, claims, faults>>

-----------------------------------------------------------------------------

Outside ==
  \/ \E p \in Payloads : Revise(p)
  \/ \E a \in Approvals : RequestApproval(a)

ClientStep(c) ==
  \/ \E a \in Approvals : FindActive(c, a)
  \/ InsertJob(c)
  \/ InsertRejected(c)

WorkerStep(w) ==
  \/ Claim(w) \/ ClaimEmpty(w) \/ ClaimCommit(w) \/ Report(w) \/ Load(w) \/ Analyse(w)
  \/ AgentRaises(w) \/ MarkSucceeded(w) \/ MarkFailed(w)

WorkerFault(w) ==
  ClaimAbort(w) \/ ReportLost(w) \/ SnapshotLost(w) \/ ResultLost(w) \/ Crash(w)

Next ==
  \/ Outside
  \/ \E c \in Clients : ClientStep(c)
  \/ \E w \in Workers : WorkerStep(w) \/ WorkerFault(w) \/ Restart(w)

Spec == Init /\ [][Next]_vars

\* Live workers keep running.  Nothing is assumed of clients, faults or restarts.
FairSpec == Spec /\ \A w \in Workers : WF_vars(WorkerStep(w))

-----------------------------------------------------------------------------
(* Properties *)

PCs == {"idle", "claiming", "report", "work", "succeed", "fail", "down"}

\* Type invariant: every variable has its type, and a worker names a row exactly
\* when it is claiming or running one.
TypeOK ==
  /\ details \in Seq(Payloads) /\ Len(details) \in 1 .. MaxDetails
  /\ request \in [Approvals -> 0 .. Len(details)]
  /\ jobs    \in [Jobs -> Row]
  /\ check   \in [Clients -> Approvals \cup {NoApproval}]
  /\ pc      \in [Workers -> PCs]
  /\ job     \in [Workers -> Jobs \cup {NoJob}]
  /\ stage   \in [Workers -> Stages]
  /\ claims  \in [Jobs -> Nat]
  /\ faults  \in [crashes : Nat, dbErrors : Nat]
  /\ \A w \in Workers : job[w] = NoJob <=> pc[w] \in {"idle", "down"}

\* A row is in the hands of at most one worker, from the claim to the result; that
\* is why its writes need no locks.
OneWriter ==
  /\ \A v, w \in Workers : v # w /\ job[v] # NoJob => job[v] # job[w]
  /\ \A w \in Workers : Running(w) => jobs[job[w]].status = "RUNNING"

\* What GET /approval-review-jobs answers is coherent: a finished review is at 100,
\* with both details and no error; a failed one has an error; and a row keeps its
\* active_key, which blocks new requests, exactly as long as it is in progress.
ReportCoherent ==
  \A j \in Jobs :
    /\ jobs[j].status = "SUCCEEDED" => /\ jobs[j].progress = 100 /\ ~jobs[j].failed
                                       /\ jobs[j].before # NoDetail
                                       /\ jobs[j].after # NoDetail
    /\ jobs[j].status = "FAILED" => jobs[j].failed
    /\ jobs[j].active_key = IF jobs[j].status \in Active THEN jobs[j].key ELSE NoApproval

\* The data reviewed as "after" is the data approval was requested for, however the
\* document was revised since.
ReviewsTheRequest ==
  \A j \in Jobs :
    jobs[j].after # NoDetail => details[jobs[j].after] = details[request[jobs[j].key]]

\* The queue as its clients see it.
Phase(j) == CASE jobs[j].status = "ABSENT"    -> "absent"
              [] jobs[j].status = "QUEUED"    -> "waiting"
              [] jobs[j].status = "RUNNING"   -> "running"
              [] jobs[j].status = "SUCCEEDED" -> "completed"
              [] jobs[j].status = "FAILED"    -> "failed"

Promise == INSTANCE JobContract WITH
  Keys     <- Approvals,
  NoKey    <- NoApproval,
  MaxRetry <- 0,
  phase    <- [j \in Jobs |-> Phase(j)],
  key      <- [j \in Jobs |-> jobs[j].key],
  attempts <- claims

\* The queue implements the contract of a queue without retries: jobs of one
\* approval one after the other, one attempt each, one end.
KeepsPromise == Promise!Spec

\* A review that is lost does not hold up the others: every queued job is claimed.
EveryJobIsClaimed == \A j \in Jobs : jobs[j].status = "QUEUED" ~> jobs[j].status # "QUEUED"

\* The table comes to hold the result or the error of every review that was started.
ReviewsEnd == \A j \in Jobs : jobs[j].status = "RUNNING" ~> jobs[j].status \in Terminal

\* The data compared with is the detail right before the one reviewed.
BeforeIsPrevious ==
  \A j \in Jobs : jobs[j].after > 1 => jobs[j].before = jobs[j].after - 1

=============================================================================
