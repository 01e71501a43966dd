---------------------- MODULE ApprovalReviewJobsProofs ----------------------
(* Theorems about the approval review queue, for every value of its constants. *)
EXTENDS ApprovalReviewJobs, NaturalLemmas, SequenceTheorems, TLAPS

(* What holds of the rows in every reachable state. *)

\* A row in progress, and no other, holds its key; the approval was requested.
Keyed(r) ==
  /\ r.status # "ABSENT" => r.key \in Approvals /\ request[r.key] # NoDetail
  /\ r.active_key = IF r.status \in Active THEN r.key ELSE NoApproval

\* The unique index on active_key, and what find_active has seen.
KeyInv ==
  /\ \A j \in Jobs : Keyed(jobs[j])
  /\ \A i, j \in Jobs :
       i # j /\ jobs[i].active_key = jobs[j].active_key => jobs[i].active_key = NoApproval
  /\ \A c \in Clients : check[c] # NoApproval => request[check[c]] # NoDetail

\* A row is handed to one worker, which holds its lock until the claim is committed.
WriterInv ==
  /\ OneWriter
  /\ \A w \in Workers : pc[w] = "claiming" => jobs[job[w]].status = "QUEUED"

\* The details a row names exist, and the later one holds what was to be approved.
Loaded(r) == r.before # NoDetail /\ r.after # NoDetail

Traced(r) ==
  /\ r.after <= Len(details)
  /\ r.status = "ABSENT" => r.after = NoDetail
  /\ r.after # NoDetail => details[r.after] = details[request[r.key]]

\* A worker is past the loading step only with the details stored in its row.
DetailInv ==
  /\ \A j \in Jobs : Traced(jobs[j])
  /\ \A w \in Workers :
       /\ pc[w] = "succeed" => stage[w] # "LOADING"
       /\ stage[w] # "LOADING" => Running(w) /\ Loaded(jobs[job[w]])

\* What one row reports.
RowReport(r) ==
  /\ r.status = "SUCCEEDED" => r.progress = 100 /\ ~r.failed /\ Loaded(r)
  /\ r.status = "FAILED" => r.failed

ReportInv == \A j \in Jobs : RowReport(jobs[j])

\* The inductive invariant.
QueueInv == TypeOK /\ KeyInv /\ WriterInv /\ DetailInv /\ ReportInv

-----------------------------------------------------------------------------
(* The operators of the module *)

LEMMA ColumnTypes ==
  ASSUME NEW r \in Row
  PROVE  /\ \A v \in Statuses : [r EXCEPT !.status = v] \in Row
         /\ \A v \in Approvals \cup {NoApproval} : [r EXCEPT !.key = v] \in Row
         /\ \A v \in Approvals \cup {NoApproval} : [r EXCEPT !.active_key = v] \in Row
         /\ \A v \in 0 .. 100 : [r EXCEPT !.progress = v] \in Row
         /\ \A v \in 0 .. MaxDetails : [r EXCEPT !.before = v] \in Row
         /\ \A v \in 0 .. MaxDetails : [r EXCEPT !.after = v] \in Row
         /\ \A v \in BOOLEAN : [r EXCEPT !.failed = v] \in Row
BY DEF Row

LEMMA NewRowType == NoRow \in Row /\ \A a \in Approvals : NewRow(a) \in Row
<1>1. NoRow \in Row
  BY ConstantsAssumption DEF NoRow, Row, Statuses, NoDetail
<1>2. ASSUME NEW a \in Approvals PROVE NewRow(a) \in Row
  <2> DEFINE r1 == [NoRow EXCEPT !.status = "QUEUED"]
             r2 == [r1 EXCEPT !.key = a]
  <2>1. r1 \in Row BY <1>1, ColumnTypes DEF Statuses
  <2> HIDE DEF r1
  <2>2. r2 \in Row BY <2>1, ColumnTypes
  <2> HIDE DEF r2
  <2>3. [r2 EXCEPT !.active_key = a] \in Row BY <2>2, ColumnTypes
  <2> QED BY <2>3 DEF NewRow, r1, r2
<1> QED BY <1>1, <1>2

LEMMA StageProgressType == ASSUME NEW s \in Stages PROVE StageProgress(s) \in 0 .. 100
BY DEF Stages, StageProgress

LEMMA ClaimedType == ASSUME NEW r \in Row PROVE Claimed(r) \in Row
<1> DEFINE r1 == [r EXCEPT !.status = "RUNNING"]
<1>1. r1 \in Row BY ColumnTypes DEF Statuses
<1> HIDE DEF r1
<1>2. [r1 EXCEPT !.progress = 5] \in Row
  <2>1. 5 \in 0 .. 100 OBVIOUS
  <2> QED BY <1>1, <2>1, ColumnTypes
<1> QED BY <1>2 DEF Claimed, r1

LEMMA ReportedType == ASSUME NEW r \in Row, NEW p \in 0 .. 100 PROVE Reported(r, p) \in Row
<1> DEFINE q == IF p > r.progress THEN p ELSE r.progress
<1>1. q \in 0 .. 100 BY DEF Row
<1> HIDE DEF q
<1>2. [r EXCEPT !.progress = q] \in Row BY <1>1, ColumnTypes
<1> QED BY <1>2 DEF Reported, q

LEMMA SnapshotType ==
  ASSUME NEW r \in Row, NEW pair, pair[1] \in 0 .. MaxDetails, pair[2] \in 0 .. MaxDetails
  PROVE  Snapshot(r, pair) \in Row
<1> DEFINE r1 == [r EXCEPT !.before = pair[1]]
<1>1. r1 \in Row BY ColumnTypes
<1> HIDE DEF r1
<1>2. [r1 EXCEPT !.after = pair[2]] \in Row BY <1>1, ColumnTypes
<1> QED BY <1>2 DEF Snapshot, r1

LEMMA FailedType == ASSUME NEW r \in Row PROVE Failed(r) \in Row
<1> DEFINE r1 == [r EXCEPT !.status = "FAILED"]
           r2 == [r1 EXCEPT !.failed = TRUE]
<1>1. r1 \in Row BY ColumnTypes DEF Statuses
<1> HIDE DEF r1
<1>2. r2 \in Row BY <1>1, ColumnTypes
<1> HIDE DEF r2
<1>3. [r2 EXCEPT !.active_key = NoApproval] \in Row BY <1>2, ColumnTypes
<1> QED BY <1>3 DEF Failed, r1, r2

LEMMA SucceededType == ASSUME NEW r \in Row PROVE Succeeded(r) \in Row
<1> DEFINE r1 == [r EXCEPT !.status = "SUCCEEDED"]
           r2 == [r1 EXCEPT !.progress = 100]
           r3 == [r2 EXCEPT !.failed = FALSE]
<1>1. r1 \in Row BY ColumnTypes DEF Statuses
<1> HIDE DEF r1
<1>2. r2 \in Row
  <2>1. 100 \in 0 .. 100 OBVIOUS
  <2> QED BY <1>1, <2>1, ColumnTypes
<1> HIDE DEF r2
<1>3. r3 \in Row BY <1>2, ColumnTypes
<1> HIDE DEF r3
<1>4. [r3 EXCEPT !.active_key = NoApproval] \in Row BY <1>3, ColumnTypes
<1> QED BY <1>4 DEF Succeeded, r1, r2, r3

\* The pair of a requested detail: the first one, and one that is not later and holds
\* the same data.  (A least number is chosen: the first of the copies at the end.)
LEMMA PairProperties ==
  ASSUME details \in Seq(Payloads), NEW n \in 1 .. Len(details)
  PROVE  /\ Pair(n)[1] = 1
         /\ Pair(n)[2] \in 1 .. n
         /\ details[Pair(n)[2]] = details[n]
<1> DEFINE Same == {k \in 1 .. n : \A i \in k .. n : details[i] = details[n]}
           First(k) == k = 1 \/ details[k - 1] # details[n]
<1>1. n \in Same /\ Same \in SUBSET Nat
  OBVIOUS
<1>2. PICK k \in Same : \A m \in Same : k <= m
  BY <1>1, LeastNatural
<1>3. First(k)
  <2> SUFFICES ASSUME k # 1, details[k - 1] = details[n] PROVE FALSE
    OBVIOUS
  <2>1. k - 1 \in 1 .. n
    OBVIOUS
  <2>2. ASSUME NEW i \in (k - 1) .. n PROVE details[i] = details[n]
    <3>1. i = k - 1 \/ i \in k .. n
      BY <2>1
    <3> QED BY <3>1, <1>2
  <2>3. k - 1 \in Same
    BY <2>1, <2>2
  <2> QED BY <1>2, <2>3
<1>4. \E m \in 1 .. n : (\A i \in m .. n : details[i] = details[n]) /\ First(m)
  BY <1>3
<1>5. /\ Pair(n)[2] \in 1 .. n
      /\ \A i \in Pair(n)[2] .. n : details[i] = details[n]
  BY <1>4 DEF Pair
<1>6. Pair(n)[2] \in Pair(n)[2] .. n
  BY <1>5
<1> QED BY <1>5, <1>6 DEF Pair

-----------------------------------------------------------------------------
(* Type correctness *)

\* The detail an approval was requested for, of a row that is run, exists.
LEMMA RequestedPair ==
  ASSUME TypeOK, KeyInv, WriterInv, NEW w \in Workers, Running(w)
  PROVE  /\ job[w] \in Jobs /\ jobs[job[w]] \in Row /\ jobs[job[w]].status = "RUNNING"
         /\ jobs[job[w]].key \in Approvals
         /\ request[jobs[job[w]].key] \in 1 .. Len(details)
<1>1. job[w] \in Jobs /\ jobs[job[w]] \in Row /\ jobs[job[w]].status = "RUNNING"
  BY DEF TypeOK, WriterInv, OneWriter, Running
<1>2. Keyed(jobs[job[w]])
  BY <1>1 DEF KeyInv
<1> QED BY <1>1, <1>2 DEF Keyed, TypeOK, NoDetail

LEMMA InitTypeOK == Init => TypeOK
<1> SUFFICES ASSUME Init PROVE TypeOK
  OBVIOUS
<1>1. details \in Seq(Payloads) /\ Len(details) = 1
  <2>1. PICK p \in Payloads : details = <<p>>
    BY DEF Init
  <2>2. <<p>> \in Seq(Payloads) /\ Len(<<p>>) = 1
    OBVIOUS
  <2> QED BY <2>1, <2>2
<1>2. 1 \in 1 .. MaxDetails
  BY ConstantsAssumption
<1>3. request \in [Approvals -> 0 .. Len(details)]
  BY <1>1 DEF Init, NoDetail
<1>4. jobs \in [Jobs -> Row] /\ claims \in [Jobs -> Nat]
  BY NewRowType DEF Init
<1>5. faults \in [crashes : Nat, dbErrors : Nat]
  BY DEF Init
<1>6. /\ check \in [Clients -> Approvals \cup {NoApproval}]
      /\ pc \in [Workers -> PCs] /\ job \in [Workers -> Jobs \cup {NoJob}]
      /\ stage \in [Workers -> Stages]
      /\ \A w \in Workers : job[w] = NoJob <=> pc[w] \in {"idle", "down"}
  BY DEF Init, PCs, Stages
<1> QED BY <1>1, <1>2, <1>3, <1>4, <1>5, <1>6 DEF TypeOK

\* The steps of the workers leave the document alone; those that write a row write one
\* of its type.
LEMMA WorkerTypes ==
  ASSUME TypeOK, KeyInv, WriterInv, NEW w \in Workers, UNCHANGED <<docVars, check>>,
         jobs' = jobs \/ \E r \in Row : jobs' = [jobs EXCEPT ![job[w]] = r],
         pc' \in [Workers -> PCs], job' \in [Workers -> Jobs \cup {NoJob}],
         stage' \in [Workers -> Stages], claims' \in [Jobs -> Nat],
         faults' \in [crashes : Nat, dbErrors : Nat],
         \A v \in Workers : job'[v] = NoJob <=> pc'[v] \in {"idle", "down"}
  PROVE  TypeOK'
<1>1. jobs' \in [Jobs -> Row]
  BY DEF TypeOK
<1> QED BY <1>1 DEF TypeOK, docVars

LEMMA NextTypeOK == TypeOK /\ KeyInv /\ WriterInv /\ [Next]_vars => TypeOK'
<1> SUFFICES ASSUME TypeOK, KeyInv, WriterInv, [Next]_vars PROVE TypeOK'
  OBVIOUS
<1> USE DEF docVars, workerVars
<1>1. ASSUME Outside PROVE TypeOK'
  <2>1. ASSUME NEW p \in Payloads, Revise(p) PROVE TypeOK'
    <3>1. /\ details' \in Seq(Payloads) /\ Len(details') = Len(details) + 1
          /\ Len(details') \in 1 .. MaxDetails
      BY <2>1, AppendProperties, ConstantsAssumption DEF Revise, TypeOK
    <3>2. request' \in [Approvals -> 0 .. Len(details')]
      BY <2>1, <3>1 DEF Revise, TypeOK
    <3> QED BY <2>1, <3>1, <3>2 DEF Revise, TypeOK
  <2>2. ASSUME NEW a \in Approvals, RequestApproval(a) PROVE TypeOK'
    <3>1. /\ details' \in Seq(Payloads) /\ Len(details') \in 1 .. MaxDetails
          /\ Len(details) <= Len(details')
      <4>1. CASE details' = details
        BY <4>1 DEF TypeOK
      <4>2. CASE /\ Len(details) < MaxDetails
                 /\ details' = Append(details, details[Len(details)])
        <5>1. details[Len(details)] \in Payloads
          BY ElementOfSeq DEF TypeOK
        <5> QED BY <4>2, <5>1, AppendProperties, ConstantsAssumption DEF TypeOK
      <4> QED BY <2>2, <4>1, <4>2 DEF RequestApproval
    <3>2. request' \in [Approvals -> 0 .. Len(details')]
      BY <2>2, <3>1 DEF RequestApproval, TypeOK
    <3> QED BY <2>2, <3>1, <3>2 DEF RequestApproval, TypeOK
  <2> QED BY <1>1, <2>1, <2>2 DEF Outside
<1>2. ASSUME NEW c \in Clients, ClientStep(c) PROVE TypeOK'
  <2>1. CASE InsertJob(c)
    BY <2>1, NewRowType DEF InsertJob, NextJob, TypeOK
  <2>2. CASE ~InsertJob(c)
    BY <1>2, <2>2 DEF ClientStep, FindActive, InsertRejected, TypeOK
  <2> QED BY <2>1, <2>2
<1>3. ASSUME NEW w \in Workers, WorkerStep(w) PROVE TypeOK'
  <2>1. CASE Claim(w)
    BY <2>1 DEF Claim, Claimable, TypeOK, PCs, Jobs, NoJob
  <2>2. CASE ClaimEmpty(w)
    BY <2>2 DEF ClaimEmpty, vars, TypeOK
  <2>3. CASE ClaimCommit(w)
    <3>1. job[w] \in Jobs /\ Claimed(jobs[job[w]]) \in Row
      BY <2>3, ClaimedType DEF ClaimCommit, TypeOK, NoJob
    <3> QED BY <2>3, <3>1, WorkerTypes DEF ClaimCommit, TypeOK, PCs
  <2>4. CASE Report(w)
    <3>1. Reported(jobs[job[w]], StageProgress(stage[w])) \in Row
      BY <2>4, RequestedPair, ReportedType, StageProgressType DEF Report, Running, TypeOK
    <3> QED BY <2>4, <3>1, WorkerTypes DEF Report, TypeOK, PCs
  <2>5. CASE Load(w)
    <3> DEFINE n == request[jobs[job[w]].key]
               r == Snapshot(jobs[job[w]], Pair(n))
    <3>1. /\ job[w] \in Jobs /\ jobs[job[w]] \in Row /\ n \in 1 .. Len(details)
          /\ Len(details) <= MaxDetails /\ Len(details) \in Nat
      BY <2>5, RequestedPair DEF Load, Running, TypeOK
    <3> HIDE DEF n
    <3>2. Pair(n)[1] = 1 /\ Pair(n)[2] \in 1 .. n
      BY <3>1, PairProperties DEF TypeOK
    <3>3. r \in Row
      BY <3>1, <3>2, SnapshotType, ConstantsAssumption
    <3>4. jobs' = [jobs EXCEPT ![job[w]] = r]
      BY <2>5 DEF Load, n
    <3> HIDE DEF r
    <3> QED BY <2>5, <3>3, <3>4, WorkerTypes DEF Load, Enter, TypeOK, PCs, Stages
  <2>6. CASE Analyse(w)
    BY <2>6, WorkerTypes DEF Analyse, Enter, TypeOK, PCs, Stages
  <2>7. CASE AgentRaises(w)
    BY <2>7, WorkerTypes DEF AgentRaises, TypeOK, PCs
  <2>8. CASE MarkSucceeded(w)
    <3>1. Succeeded(jobs[job[w]]) \in Row
      BY <2>8, RequestedPair, SucceededType DEF MarkSucceeded, Running
    <3> QED BY <2>8, <3>1, WorkerTypes DEF MarkSucceeded, Leave, TypeOK, PCs, Stages, NoJob
  <2>9. CASE MarkFailed(w)
    <3>1. Failed(jobs[job[w]]) \in Row
      BY <2>9, RequestedPair, FailedType DEF MarkFailed, Running
    <3> QED BY <2>9, <3>1, WorkerTypes DEF MarkFailed, Leave, TypeOK, PCs, Stages, NoJob
  <2> QED BY <1>3, <2>1, <2>2, <2>3, <2>4, <2>5, <2>6, <2>7, <2>8, <2>9 DEF WorkerStep
<1>4. ASSUME NEW w \in Workers, WorkerFault(w) PROVE TypeOK'
  <2>0. faults' \in [crashes : Nat, dbErrors : Nat]
    <3>1. \/ faults' = [faults EXCEPT !.dbErrors = @ + 1]
          \/ faults' = [faults EXCEPT !.crashes = @ + 1]
      BY <1>4 DEF WorkerFault, ClaimAbort, ReportLost, SnapshotLost, ResultLost, Crash, DbError
    <3> QED BY <3>1 DEF TypeOK
  <2>1. CASE ReportLost(w)
    BY <2>0, <2>1, WorkerTypes DEF ReportLost, TypeOK, PCs
  <2>2. CASE SnapshotLost(w)
    BY <2>0, <2>2, WorkerTypes DEF SnapshotLost, TypeOK, PCs
  <2>3. CASE ClaimAbort(w)
    BY <2>0, <2>3, WorkerTypes DEF ClaimAbort, Leave, TypeOK, PCs, Stages, NoJob
  <2>4. CASE ResultLost(w)
    BY <2>0, <2>4, WorkerTypes DEF ResultLost, Leave, TypeOK, PCs, Stages, NoJob
  <2>5. CASE Crash(w)
    BY <2>0, <2>5, WorkerTypes DEF Crash, Leave, TypeOK, PCs, Stages, NoJob
  <2> QED BY <1>4, <2>1, <2>2, <2>3, <2>4, <2>5 DEF WorkerFault
<1>5. ASSUME NEW w \in Workers, Restart(w) PROVE TypeOK'
  BY <1>5, WorkerTypes DEF Restart, TypeOK, PCs
<1>6. CASE UNCHANGED vars
  BY <1>6 DEF vars, TypeOK
<1> QED BY <1>1, <1>2, <1>3, <1>4, <1>5, <1>6 DEF Next

-----------------------------------------------------------------------------
(* What a step may make of the rows: it writes at most one of them *)

Inserted(j) ==
  /\ jobs[j].status = "ABSENT" /\ UNCHANGED <<docVars, workerVars, claims>>
  /\ \E c \in Clients : /\ check[c] # NoApproval /\ KeyIsFree(check[c])
                        /\ jobs'[j] = NewRow(check[c])

Taken(j) == \E w \in Workers : ClaimCommit(w) /\ job[w] = j /\ jobs'[j] = Claimed(jobs[j])

ProgressWritten(j) ==
  \E w \in Workers : /\ Report(w) /\ job[w] = j
                     /\ jobs'[j] = Reported(jobs[j], StageProgress(stage[w]))

DetailsWritten(j) ==
  \E w \in Workers : /\ Load(w) /\ job[w] = j
                     /\ jobs'[j] = Snapshot(jobs[j], Pair(request[jobs[j].key]))

ResultWritten(j) ==
  \E w \in Workers : /\ job[w] = j
                     /\ \/ MarkSucceeded(w) /\ jobs'[j] = Succeeded(jobs[j])
                        \/ MarkFailed(w) /\ jobs'[j] = Failed(jobs[j])

Written(j) ==
  Inserted(j) \/ Taken(j) \/ ProgressWritten(j) \/ DetailsWritten(j) \/ ResultWritten(j)

LEMMA RowWritten ==
  ASSUME TypeOK, [Next]_vars
  PROVE  \/ jobs' = jobs /\ claims' = claims
         \/ \E i \in Jobs : /\ Written(i)
                            /\ \A j \in Jobs \ {i} : jobs'[j] = jobs[j] /\ claims'[j] = claims[j]
<1> USE DEF docVars, workerVars
<1>0. ASSUME NEW i \in Jobs, NEW r, jobs' = [jobs EXCEPT ![i] = r]
      PROVE  jobs'[i] = r /\ \A j \in Jobs \ {i} : jobs'[j] = jobs[j]
  BY <1>0 DEF TypeOK
<1>1. \A w \in Workers : pc[w] \notin {"idle", "down"} => job[w] \in Jobs
  BY DEF TypeOK
<1>2. ASSUME NEW c \in Clients, InsertJob(c)
      PROVE  \E i \in Jobs : /\ Written(i)
                             /\ \A j \in Jobs \ {i} : jobs'[j] = jobs[j] /\ claims'[j] = claims[j]
  <2>1. PICK i \in NextJob : jobs' = [jobs EXCEPT ![i] = NewRow(check[c])]
    BY <1>2 DEF InsertJob
  <2>2. i \in Jobs /\ jobs[i].status = "ABSENT"
    BY <2>1 DEF NextJob
  <2>3. Inserted(i)
    BY <1>0, <1>2, <2>1, <2>2 DEF InsertJob, Inserted
  <2> QED BY <1>0, <1>2, <2>1, <2>2, <2>3 DEF InsertJob, Written
<1>3. ASSUME NEW w \in Workers, WorkerStep(w)
      PROVE  \/ jobs' = jobs /\ claims' = claims
             \/ \E i \in Jobs : /\ Written(i)
                                /\ \A j \in Jobs \ {i} : /\ jobs'[j] = jobs[j]
                                                         /\ claims'[j] = claims[j]
  <2>1. CASE ClaimCommit(w)
    <3>1. /\ job[w] \in Jobs /\ jobs' = [jobs EXCEPT ![job[w]] = Claimed(jobs[job[w]])]
          /\ claims' = [claims EXCEPT ![job[w]] = @ + 1]
      BY <2>1, <1>1 DEF ClaimCommit
    <3>2. Taken(job[w])
      BY <2>1, <1>0, <3>1 DEF Taken
    <3> QED BY <1>0, <3>1, <3>2 DEF Written, TypeOK
  <2>2. CASE Report(w)
    <3>0. job[w] \in Jobs
      BY <2>2, <1>1 DEF Report
    <3>1. /\ claims' = claims
          /\ jobs' = [jobs EXCEPT ![job[w]] = Reported(jobs[job[w]], StageProgress(stage[w]))]
      BY <2>2, Zenon DEF Report
    <3>2. jobs'[job[w]] = Reported(jobs[job[w]], StageProgress(stage[w]))
      BY <1>0, <3>0, <3>1
    <3>3. ProgressWritten(job[w])
      BY <2>2, <3>2, Zenon DEF ProgressWritten
    <3> QED BY <1>0, <3>0, <3>1, <3>3 DEF Written
  <2>3. CASE Load(w)
    <3>0. job[w] \in Jobs
      BY <2>3, <1>1 DEF Load
    <3>1. /\ claims' = claims
          /\ jobs' = [jobs EXCEPT ![job[w]] =
                        Snapshot(jobs[job[w]], Pair(request[jobs[job[w]].key]))]
      BY <2>3 DEF Load
    <3>2. DetailsWritten(job[w])
      BY <2>3, <1>0, <3>0, <3>1 DEF DetailsWritten
    <3> QED BY <1>0, <3>0, <3>1, <3>2 DEF Written
  <2>4. CASE MarkSucceeded(w)
    BY <2>4, <1>0, <1>1 DEF MarkSucceeded, Written, ResultWritten
  <2>5. CASE MarkFailed(w)
    BY <2>5, <1>0, <1>1 DEF MarkFailed, Written, ResultWritten
  <2>6. CASE Claim(w) \/ ClaimEmpty(w) \/ Analyse(w) \/ AgentRaises(w)
    BY <2>6 DEF Claim, ClaimEmpty, vars, Analyse, AgentRaises
  <2> QED BY <1>3, <2>1, <2>2, <2>3, <2>4, <2>5, <2>6 DEF WorkerStep
<1>4. ASSUME Outside PROVE jobs' = jobs /\ claims' = claims
  BY <1>4 DEF Outside, Revise, RequestApproval
<1>5. ASSUME NEW c \in Clients, ClientStep(c), ~InsertJob(c) PROVE jobs' = jobs /\ claims' = claims
  BY <1>5 DEF ClientStep, FindActive, InsertRejected
<1>6. ASSUME NEW w \in Workers, WorkerFault(w) \/ Restart(w) PROVE jobs' = jobs /\ claims' = claims
  BY <1>6 DEF WorkerFault, ClaimAbort, ReportLost, SnapshotLost, ResultLost, Crash, Restart
<1>7. CASE UNCHANGED vars
  BY <1>7 DEF vars
<1> QED BY <1>2, <1>3, <1>4, <1>5, <1>6, <1>7 DEF Next

-----------------------------------------------------------------------------
(* One writer for each row *)

LEMMA InitWriterInv == Init => WriterInv
BY DEF Init, WriterInv, OneWriter, Running

\* A step of one worker that takes no new row and leaves the rows of the others in
\* the state they are in.
LEMMA WritersKept ==
  ASSUME TypeOK, WriterInv, NEW w \in Workers,
         \A v \in Workers : v # w => pc'[v] = pc[v] /\ job'[v] = job[v],
         job'[w] \in {job[w], NoJob},
         \A v \in Workers : v # w /\ job[v] # NoJob => jobs'[job[v]].status = jobs[job[v]].status,
         Running(w)' => jobs'[job'[w]].status = "RUNNING",
         pc'[w] = "claiming" => jobs'[job'[w]].status = "QUEUED"
  PROVE  WriterInv'
<1>1. ASSUME NEW u \in Workers, NEW v \in Workers, u # v, job'[u] # NoJob
      PROVE  job'[u] # job'[v]
  BY <1>1 DEF WriterInv, OneWriter
<1>2. ASSUME NEW v \in Workers, Running(v)' PROVE jobs'[job'[v]].status = "RUNNING"
  <2>1. CASE v = w
    BY <1>2, <2>1
  <2>2. CASE v # w
    <3>1. Running(v) /\ job'[v] = job[v]
      BY <1>2, <2>2 DEF Running
    <3>2. job[v] # NoJob /\ jobs[job[v]].status = "RUNNING"
      BY <3>1 DEF TypeOK, Running, WriterInv, OneWriter
    <3> QED BY <2>2, <3>1, <3>2
  <2> QED BY <2>1, <2>2
<1>3. ASSUME NEW v \in Workers, pc'[v] = "claiming" PROVE jobs'[job'[v]].status = "QUEUED"
  <2>1. CASE v = w
    BY <1>3, <2>1
  <2>2. CASE v # w
    <3>1. pc[v] = "claiming" /\ job'[v] = job[v]
      BY <1>3, <2>2
    <3>2. job[v] # NoJob /\ jobs[job[v]].status = "QUEUED"
      BY <3>1 DEF TypeOK, WriterInv
    <3> QED BY <2>2, <3>1, <3>2
  <2> QED BY <2>1, <2>2
<1> QED BY <1>1, <1>2, <1>3 DEF WriterInv, OneWriter

\* A step of a running worker that writes its row, which is nobody else's.
LEMMA OwnRowWritten ==
  ASSUME TypeOK, WriterInv, NEW w \in Workers, NEW r, job[w] # NoJob,
         jobs' = [jobs EXCEPT ![job[w]] = r],
         \A v \in Workers : v # w => pc'[v] = pc[v] /\ job'[v] = job[v],
         job'[w] \in {job[w], NoJob},
         Running(w)' => job'[w] = job[w] /\ r.status = "RUNNING",
         pc'[w] # "claiming"
  PROVE  WriterInv'
<1>1. job[w] \in Jobs
  BY DEF TypeOK
<1>2. jobs'[job[w]] = r /\ \A j \in Jobs \ {job[w]} : jobs'[j] = jobs[j]
  BY <1>1 DEF TypeOK
<1>3. \A v \in Workers : v # w /\ job[v] # NoJob => job[v] \in Jobs \ {job[w]}
  BY DEF WriterInv, OneWriter, TypeOK
<1> QED BY <1>2, <1>3, WritersKept

LEMMA NextWriterInv == TypeOK /\ KeyInv /\ WriterInv /\ [Next]_vars => WriterInv'
<1> SUFFICES ASSUME TypeOK, KeyInv, WriterInv, [Next]_vars PROVE WriterInv'
  OBVIOUS
<1> USE DEF docVars, workerVars
<1>0. ASSUME UNCHANGED <<jobs, pc, job>> PROVE WriterInv'
  BY <1>0 DEF WriterInv, OneWriter, Running
<1>1. ASSUME Outside PROVE WriterInv'
  BY <1>1, <1>0 DEF Outside, Revise, RequestApproval
<1>2. ASSUME NEW c \in Clients, ClientStep(c) PROVE WriterInv'
  <2>1. CASE InsertJob(c)
    <3>1. PICK i \in NextJob : jobs' = [jobs EXCEPT ![i] = NewRow(check[c])]
      BY <2>1 DEF InsertJob
    <3>2. \A w \in Workers : Running(w) \/ pc[w] = "claiming" => jobs'[job[w]] = jobs[job[w]]
      BY <3>1 DEF NextJob, WriterInv, OneWriter, TypeOK, Running
    <3> QED BY <2>1, <3>2 DEF InsertJob, WriterInv, OneWriter, Running
  <2>2. CASE ~InsertJob(c)
    BY <1>2, <2>2, <1>0 DEF ClientStep, FindActive, InsertRejected
  <2> QED BY <2>1, <2>2
<1>3. ASSUME NEW w \in Workers, WorkerStep(w) PROVE WriterInv'
  <2>1. CASE Claim(w)
    <3>1. PICK j \in Claimable : job' = [job EXCEPT ![w] = j]
      BY <2>1 DEF Claim
    <3>2. j \in Jobs /\ jobs[j].status = "QUEUED" /\ j \notin Locked
      BY <3>1 DEF Claimable
    <3>3. ASSUME NEW v \in Workers, v # w, job[v] = j PROVE FALSE
      <4>1. pc[v] \notin {"idle", "down"} /\ pc[v] \in PCs
        BY <3>2, <3>3 DEF TypeOK, Jobs, NoJob
      <4>2. pc[v] # "claiming"
        BY <3>2, <3>3 DEF Locked
      <4>3. Running(v)
        BY <4>1, <4>2 DEF PCs, Running
      <4> QED BY <3>2, <3>3, <4>3 DEF WriterInv, OneWriter
    <3>4. /\ \A v \in Workers : v # w => pc'[v] = pc[v] /\ job'[v] = job[v]
          /\ pc'[w] = "claiming" /\ job'[w] = j /\ jobs' = jobs
      BY <2>1, <3>1 DEF Claim, TypeOK
    <3>5. OneWriter'
      BY <3>3, <3>4 DEF WriterInv, OneWriter, Running
    <3>6. \A v \in Workers : pc'[v] = "claiming" => jobs'[job'[v]].status = "QUEUED"
      BY <3>2, <3>4 DEF WriterInv
    <3> QED BY <3>5, <3>6 DEF WriterInv
  <2>2. CASE ClaimEmpty(w)
    BY <2>2, <1>0 DEF ClaimEmpty, vars
  <2>3. CASE ClaimCommit(w)
    <3>1. job[w] # NoJob /\ job[w] \in Jobs
      BY <2>3 DEF ClaimCommit, TypeOK
    <3>2. jobs[job[w]] \in Row
      BY <3>1 DEF TypeOK
    <3>3. Claimed(jobs[job[w]]).status = "RUNNING"
      BY <3>2 DEF Claimed, Row
    <3> QED BY <2>3, <3>1, <3>3, OwnRowWritten DEF ClaimCommit, TypeOK, Running
  <2>4. CASE Report(w)
    <3>1. job[w] # NoJob /\ Reported(jobs[job[w]], StageProgress(stage[w])).status = "RUNNING"
      BY <2>4, RequestedPair DEF Report, TypeOK, Reported, Row, Running
    <3> QED BY <2>4, <3>1, OwnRowWritten DEF Report, TypeOK, Running
  <2>5. CASE Load(w)
    <3> DEFINE r == Snapshot(jobs[job[w]], Pair(request[jobs[job[w]].key]))
    <3>1. job[w] # NoJob /\ r.status = "RUNNING"
      BY <2>5, RequestedPair DEF Load, TypeOK, Snapshot, Row, Running
    <3>2. jobs' = [jobs EXCEPT ![job[w]] = r]
      BY <2>5 DEF Load
    <3> HIDE DEF r
    <3> QED BY <2>5, <3>1, <3>2, OwnRowWritten DEF Load, Enter, TypeOK, Running
  <2>6. CASE Analyse(w)
    BY <2>6, WritersKept DEF Analyse, Enter, TypeOK, Running, WriterInv, OneWriter
  <2>7. CASE AgentRaises(w)
    BY <2>7, WritersKept DEF AgentRaises, TypeOK, Running, WriterInv, OneWriter
  <2>8. CASE MarkSucceeded(w)
    BY <2>8, OwnRowWritten DEF MarkSucceeded, Leave, TypeOK, Running
  <2>9. CASE MarkFailed(w)
    BY <2>9, OwnRowWritten DEF MarkFailed, Leave, TypeOK, Running
  <2> QED BY <1>3, <2>1, <2>2, <2>3, <2>4, <2>5, <2>6, <2>7, <2>8, <2>9 DEF WorkerStep
<1>4. ASSUME NEW w \in Workers, WorkerFault(w) PROVE WriterInv'
  <2>1. CASE ReportLost(w) \/ SnapshotLost(w)
    BY <2>1, WritersKept DEF ReportLost, SnapshotLost, TypeOK, Running, WriterInv, OneWriter
  <2>2. CASE ClaimAbort(w) \/ ResultLost(w) \/ Crash(w)
    BY <2>2, WritersKept DEF ClaimAbort, ResultLost, Crash, Leave, TypeOK, Running
  <2> QED BY <1>4, <2>1, <2>2 DEF WorkerFault
<1>5. ASSUME NEW w \in Workers, Restart(w) PROVE WriterInv'
  BY <1>5, WritersKept DEF Restart, TypeOK, Running
<1>6. CASE UNCHANGED vars
  BY <1>6, <1>0 DEF vars
<1> QED BY <1>1, <1>2, <1>3, <1>4, <1>5, <1>6 DEF Next

-----------------------------------------------------------------------------
(* What the writes do to the columns of a row *)

LEMMA RunningRow ==
  ASSUME TypeOK, KeyInv, WriterInv, NEW w \in Workers, Running(w)
  PROVE  /\ jobs[job[w]] \in Row /\ jobs[job[w]].status = "RUNNING"
         /\ Keyed(jobs[job[w]])
BY RequestedPair DEF KeyInv

LEMMA InsertedColumns ==
  ASSUME TypeOK, NEW i \in Jobs, Inserted(i)
  PROVE  /\ jobs[i].status = "ABSENT" /\ claims'[i] = claims[i]
         /\ \E c \in Clients : /\ check[c] \in Approvals /\ KeyIsFree(check[c])
                               /\ jobs'[i].key = check[c] /\ jobs'[i].active_key = check[c]
         /\ jobs'[i].status = "QUEUED"
         /\ jobs'[i].before = NoDetail /\ jobs'[i].after = NoDetail
BY DEF Inserted, NewRow, NoRow, TypeOK

LEMMA TakenColumns ==
  ASSUME TypeOK, WriterInv, NEW i \in Jobs, Taken(i)
  PROVE  /\ jobs[i].status = "QUEUED" /\ jobs'[i].status = "RUNNING"
         /\ claims'[i] = claims[i] + 1
         /\ jobs'[i].key = jobs[i].key /\ jobs'[i].active_key = jobs[i].active_key
         /\ jobs'[i].before = jobs[i].before /\ jobs'[i].after = jobs[i].after
<1>1. PICK w \in Workers : ClaimCommit(w) /\ job[w] = i /\ jobs'[i] = Claimed(jobs[i])
  BY DEF Taken
<1>2. jobs[i] \in Row /\ jobs[i].status = "QUEUED" /\ claims'[i] = claims[i] + 1
  BY <1>1 DEF ClaimCommit, WriterInv, TypeOK
<1> QED BY <1>1, <1>2 DEF Claimed, Row

LEMMA ProgressColumns ==
  ASSUME TypeOK, KeyInv, WriterInv, NEW i \in Jobs, ProgressWritten(i)
  PROVE  /\ jobs[i].status = "RUNNING" /\ jobs'[i].status = "RUNNING"
         /\ claims'[i] = claims[i]
         /\ jobs'[i].key = jobs[i].key /\ jobs'[i].active_key = jobs[i].active_key
         /\ jobs'[i].before = jobs[i].before /\ jobs'[i].after = jobs[i].after
<1>1. PICK w \in Workers : /\ Report(w) /\ job[w] = i
                           /\ jobs'[i] = Reported(jobs[i], StageProgress(stage[w]))
  BY DEF ProgressWritten
<1>2. jobs[i] \in Row /\ jobs[i].status = "RUNNING" /\ claims' = claims
  BY <1>1, RunningRow DEF Report, Running
<1> QED BY <1>1, <1>2 DEF Reported, Row

LEMMA DetailsColumns ==
  ASSUME TypeOK, KeyInv, WriterInv, NEW i \in Jobs, DetailsWritten(i)
  PROVE  /\ jobs[i].status = "RUNNING" /\ jobs'[i].status = "RUNNING"
         /\ claims'[i] = claims[i] /\ details' = details /\ request' = request
         /\ jobs'[i].key = jobs[i].key /\ jobs'[i].active_key = jobs[i].active_key
         /\ jobs'[i].before = 1 /\ jobs'[i].after \in 1 .. Len(details)
         /\ details[jobs'[i].after] = details[request[jobs[i].key]]
<1>1. PICK w \in Workers : /\ Load(w) /\ job[w] = i
                           /\ jobs'[i] = Snapshot(jobs[i], Pair(request[jobs[i].key]))
  BY DEF DetailsWritten
<1>2. /\ jobs[i] \in Row /\ jobs[i].status = "RUNNING" /\ claims' = claims
      /\ request[jobs[i].key] \in 1 .. Len(details)
      /\ details' = details /\ request' = request
  BY <1>1, RequestedPair DEF Load, Running, docVars
<1> DEFINE n == request[jobs[i].key]
<1> HIDE DEF n
<1>3. /\ Pair(n)[1] = 1 /\ Pair(n)[2] \in 1 .. n /\ details[Pair(n)[2]] = details[n]
      /\ n \in 1 .. Len(details)
  BY <1>2, PairProperties DEF TypeOK, n
<1>4. jobs'[i] = [jobs[i] EXCEPT !.before = Pair(n)[1], !.after = Pair(n)[2]]
  BY <1>1, <1>2 DEF Snapshot, Terminal, n
<1>5. jobs'[i].before = 1 /\ jobs'[i].after = Pair(n)[2]
  BY <1>2, <1>3, <1>4 DEF Row
<1>6. Pair(n)[2] \in 1 .. Len(details)
  BY <1>3 DEF TypeOK
<1> QED BY <1>2, <1>3, <1>4, <1>5, <1>6 DEF Row, n

LEMMA ResultColumns ==
  ASSUME TypeOK, KeyInv, WriterInv, NEW i \in Jobs, ResultWritten(i)
  PROVE  /\ jobs[i].status = "RUNNING" /\ jobs'[i].status \in Terminal
         /\ claims'[i] = claims[i]
         /\ jobs'[i].key = jobs[i].key /\ jobs'[i].active_key = NoApproval
         /\ jobs'[i].before = jobs[i].before /\ jobs'[i].after = jobs[i].after
         /\ jobs'[i].status = "SUCCEEDED" =>
              /\ jobs'[i].progress = 100 /\ ~jobs'[i].failed
              /\ \E w \in Workers : pc[w] = "succeed" /\ job[w] = i
         /\ jobs'[i].status = "FAILED" => jobs'[i].failed
<1>1. PICK w \in Workers : /\ job[w] = i
                           /\ \/ MarkSucceeded(w) /\ jobs'[i] = Succeeded(jobs[i])
                              \/ MarkFailed(w) /\ jobs'[i] = Failed(jobs[i])
  BY DEF ResultWritten
<1>2. jobs[i] \in Row /\ jobs[i].status = "RUNNING" /\ claims' = claims
  BY <1>1, RunningRow DEF MarkSucceeded, MarkFailed, Running
<1>3. CASE MarkSucceeded(w) /\ jobs'[i] = Succeeded(jobs[i])
  <2>1. pc[w] = "succeed" /\ job[w] = i
    BY <1>1, <1>3 DEF MarkSucceeded
  <2>2. /\ jobs'[i].status = "SUCCEEDED" /\ jobs'[i].progress = 100 /\ jobs'[i].failed = FALSE
        /\ jobs'[i].key = jobs[i].key /\ jobs'[i].active_key = NoApproval
        /\ jobs'[i].before = jobs[i].before /\ jobs'[i].after = jobs[i].after
    BY <1>2, <1>3 DEF Succeeded, Row
  <2> QED BY <1>2, <2>1, <2>2 DEF Terminal
<1>4. CASE MarkFailed(w) /\ jobs'[i] = Failed(jobs[i])
  BY <1>2, <1>4 DEF Failed, Row, Terminal
<1> QED BY <1>1, <1>3, <1>4

\* Details are only added, and an approval stays with the detail it was requested for.
LEMMA DocumentGrows ==
  ASSUME TypeOK, [Next]_vars
  PROVE  /\ Len(details) <= Len(details')
         /\ \A k \in 1 .. Len(details) : details'[k] = details[k]
         /\ \A a \in Approvals : request[a] # NoDetail => request'[a] = request[a]
<1> USE DEF docVars, workerVars
<1>0. ASSUME NEW p, details' = Append(details, p)
      PROVE  /\ Len(details) <= Len(details')
             /\ \A k \in 1 .. Len(details) : details'[k] = details[k]
  BY <1>0 DEF TypeOK
<1>1. ASSUME NEW p \in Payloads, Revise(p)
      PROVE  /\ Len(details) <= Len(details') /\ request' = request
             /\ \A k \in 1 .. Len(details) : details'[k] = details[k]
  BY <1>0, <1>1 DEF Revise
<1>2. ASSUME NEW a \in Approvals, RequestApproval(a)
      PROVE  /\ Len(details) <= Len(details')
             /\ \A k \in 1 .. Len(details) : details'[k] = details[k]
             /\ \A b \in Approvals : request[b] # NoDetail => request'[b] = request[b]
  <2>1. /\ Len(details) <= Len(details')
        /\ \A k \in 1 .. Len(details) : details'[k] = details[k]
    BY <1>0, <1>2 DEF RequestApproval, TypeOK
  <2>2. \A b \in Approvals : request[b] # NoDetail => request'[b] = request[b]
    BY <1>2 DEF RequestApproval, TypeOK
  <2> QED BY <2>1, <2>2
<1>3. ASSUME UNCHANGED <<details, request>>
      PROVE  /\ Len(details) <= Len(details') /\ request' = request
             /\ \A k \in 1 .. Len(details) : details'[k] = details[k]
  BY <1>3 DEF TypeOK
<1>4. ASSUME NEW c \in Clients, ClientStep(c) PROVE UNCHANGED <<details, request>>
  BY <1>4 DEF ClientStep, FindActive, InsertJob, InsertRejected
<1>5. ASSUME NEW w \in Workers, WorkerStep(w) PROVE UNCHANGED <<details, request>>
  BY <1>5 DEF WorkerStep, Claim, ClaimEmpty, vars, ClaimCommit, Report, Load, Analyse,
              AgentRaises, MarkSucceeded, MarkFailed
<1>6. ASSUME NEW w \in Workers, WorkerFault(w) \/ Restart(w) PROVE UNCHANGED <<details, request>>
  BY <1>6 DEF WorkerFault, ClaimAbort, ReportLost, SnapshotLost, ResultLost, Crash, Restart
<1>7. ASSUME UNCHANGED vars PROVE UNCHANGED <<details, request>>
  BY <1>7 DEF vars
<1>8. CASE Outside
  BY <1>1, <1>2, <1>8 DEF Outside
<1>9. CASE UNCHANGED <<details, request>>
  BY <1>3, <1>9
<1> QED BY <1>4, <1>5, <1>6, <1>7, <1>8, <1>9 DEF Next

-----------------------------------------------------------------------------
(* One job in progress per approval *)

LEMMA InitKeyInv == Init => KeyInv
<1> SUFFICES ASSUME Init PROVE KeyInv
  OBVIOUS
<1>1. \A j \in Jobs : jobs[j] = NoRow
  BY DEF Init
<1>2. \A j \in Jobs : Keyed(jobs[j]) /\ jobs[j].active_key = NoApproval
  BY <1>1 DEF Keyed, NoRow, Active
<1>3. \A c \in Clients : check[c] = NoApproval
  BY DEF Init
<1> QED BY <1>2, <1>3 DEF KeyInv

LEMMA ClientsKept ==
  ASSUME TypeOK, KeyInv, [Next]_vars, NEW c \in Clients, check'[c] # NoApproval
  PROVE  request'[check'[c]] # NoDetail
<1> USE DEF docVars, workerVars
<1>1. ASSUME check'[c] = check[c] PROVE request'[check'[c]] # NoDetail
  BY <1>1, DocumentGrows DEF KeyInv, TypeOK
<1>2. ASSUME NEW d \in Clients, ClientStep(d) PROVE request'[check'[c]] # NoDetail
  <2>1. ASSUME NEW a \in Approvals, FindActive(d, a) PROVE request'[check'[c]] # NoDetail
    <3>1. request' = request /\ request[a] # NoDetail /\ check'[d] = a
          /\ (c # d => check'[c] = check[c])
      BY <2>1 DEF FindActive, TypeOK
    <3> QED BY <3>1, <1>1
  <2>2. ASSUME InsertJob(d) \/ InsertRejected(d) PROVE check'[c] = check[c]
    BY <2>2 DEF InsertJob, InsertRejected, TypeOK
  <2> QED BY <1>1, <1>2, <2>1, <2>2 DEF ClientStep
<1>3. ASSUME UNCHANGED check PROVE request'[check'[c]] # NoDetail
  BY <1>1, <1>3
<1>4. ASSUME Outside PROVE UNCHANGED check
  BY <1>4 DEF Outside, Revise, RequestApproval
<1>5. ASSUME NEW w \in Workers, WorkerStep(w) PROVE UNCHANGED check
  BY <1>5 DEF WorkerStep, Claim, ClaimEmpty, vars, ClaimCommit, Report, Load, Analyse,
              AgentRaises, MarkSucceeded, MarkFailed
<1>6. ASSUME NEW w \in Workers, WorkerFault(w) \/ Restart(w) PROVE UNCHANGED check
  BY <1>6 DEF WorkerFault, ClaimAbort, ReportLost, SnapshotLost, ResultLost, Crash, Restart
<1>7. ASSUME UNCHANGED vars PROVE UNCHANGED check
  BY <1>7 DEF vars
<1> QED BY <1>2, <1>3, <1>4, <1>5, <1>6, <1>7 DEF Next

\* A write of a row in progress keeps its key, or gives the unique key up.
LEMMA KeyColumns ==
  ASSUME TypeOK, KeyInv, WriterInv, NEW i \in Jobs, Written(i), ~Inserted(i)
  PROVE  /\ jobs[i].status \in Active /\ jobs'[i].key = jobs[i].key
         /\ jobs'[i].status # "ABSENT"
         /\ jobs'[i].active_key = IF jobs'[i].status \in Active THEN jobs[i].active_key
                                                                ELSE NoApproval
<1>1. CASE Taken(i)
  BY <1>1, TakenColumns DEF Active
<1>2. CASE ProgressWritten(i)
  BY <1>2, ProgressColumns DEF Active
<1>3. CASE DetailsWritten(i)
  BY <1>3, DetailsColumns DEF Active
<1>4. CASE ResultWritten(i)
  BY <1>4, ResultColumns DEF Active, Terminal
<1> QED BY <1>1, <1>2, <1>3, <1>4 DEF Written

LEMMA KeyedKept ==
  ASSUME TypeOK, KeyInv, WriterInv, [Next]_vars, NEW j \in Jobs
  PROVE  Keyed(jobs[j])'
<1>0. Keyed(jobs[j]) /\ jobs[j] \in Row
  BY DEF KeyInv, TypeOK
<1>1. CASE jobs'[j] = jobs[j]
  BY <1>0, <1>1, DocumentGrows DEF Keyed
<1>2. CASE Written(j) /\ ~Inserted(j)
  <2>1. /\ jobs[j].status \in Active /\ jobs'[j].key = jobs[j].key
        /\ jobs'[j].active_key = IF jobs'[j].status \in Active THEN jobs[j].active_key
                                                               ELSE NoApproval
    BY <1>2, KeyColumns
  <2>2. /\ jobs[j].key \in Approvals /\ request[jobs[j].key] # NoDetail
        /\ jobs[j].active_key = jobs[j].key
    BY <1>0, <2>1 DEF Keyed, Active
  <2> QED BY <2>1, <2>2, DocumentGrows DEF Keyed
<1>3. CASE Inserted(j)
  <2>1. PICK c \in Clients : /\ check[c] # NoApproval /\ jobs'[j] = NewRow(check[c])
    BY <1>3 DEF Inserted
  <2>2. check[c] \in Approvals /\ request[check[c]] # NoDetail
    BY <2>1 DEF TypeOK, KeyInv
  <2>3. /\ jobs'[j].key = check[c] /\ jobs'[j].active_key = check[c]
        /\ jobs'[j].status = "QUEUED"
    BY <2>1 DEF NewRow, NoRow
  <2> QED BY <2>2, <2>3, DocumentGrows DEF Keyed, Active
<1> QED BY <1>1, <1>2, <1>3, RowWritten

LEMMA NextKeyInv == TypeOK /\ KeyInv /\ WriterInv /\ [Next]_vars => KeyInv'
<1> SUFFICES ASSUME TypeOK, KeyInv, WriterInv, [Next]_vars PROVE KeyInv'
  OBVIOUS
<1>1. ASSUME NEW i \in Jobs, NEW j \in Jobs, i # j,
             jobs'[i].active_key = jobs'[j].active_key
      PROVE  jobs'[i].active_key = NoApproval
  <2>1. CASE jobs'[i] = jobs[i] /\ jobs'[j] = jobs[j]
    BY <1>1, <2>1 DEF KeyInv
  <2>2. ASSUME NEW k \in Jobs, NEW m \in Jobs, k # m, Written(k), jobs'[m] = jobs[m],
               jobs'[k].active_key = jobs'[m].active_key
        PROVE  jobs'[m].active_key = NoApproval
    <3>1. CASE Inserted(k)
      <4>1. PICK c \in Clients : KeyIsFree(check[c]) /\ jobs'[k].active_key = check[c]
        BY <3>1, InsertedColumns
      <4> QED BY <2>2, <4>1 DEF KeyIsFree
    <3>2. CASE ~Inserted(k)
      BY <2>2, <3>2, KeyColumns DEF KeyInv
    <3> QED BY <3>1, <3>2
  <2>3. CASE \E k \in Jobs : Written(k) /\ \A m \in Jobs \ {k} : jobs'[m] = jobs[m]
    BY <1>1, <2>1, <2>2, <2>3
  <2> QED BY <2>1, <2>3, RowWritten
<1> QED BY <1>1, KeyedKept, ClientsKept DEF KeyInv

-----------------------------------------------------------------------------
(* The details a row names *)

LEMMA InitDetailInv == Init => DetailInv
<1> SUFFICES ASSUME Init PROVE DetailInv
  OBVIOUS
<1>1. Len(details) = 1
  BY DEF Init
<1>2. \A j \in Jobs : Traced(jobs[j])
  BY <1>1 DEF Init, Traced, NoRow, NoDetail
<1> QED BY <1>2 DEF Init, DetailInv, Running

LEMMA TracedKept ==
  ASSUME TypeOK, KeyInv, WriterInv, DetailInv, [Next]_vars, NEW j \in Jobs
  PROVE  Traced(jobs[j])'
<1>0. /\ Traced(jobs[j]) /\ Keyed(jobs[j]) /\ jobs[j].after \in Nat
      /\ Len(details) \in Nat /\ Len(details') \in Nat
  <2>1. Len(details) \in Nat /\ Len(details') \in Nat
    BY NextTypeOK DEF TypeOK
  <2>2. jobs[j].after \in Nat
    BY ConstantsAssumption DEF TypeOK, Row
  <2> QED BY <2>1, <2>2 DEF DetailInv, KeyInv
\* The row keeps the detail and the approval it has.
<1>1. ASSUME jobs'[j].after = jobs[j].after, jobs'[j].key = jobs[j].key,
             jobs'[j].status = "ABSENT" => jobs[j].status = "ABSENT"
      PROVE  Traced(jobs[j])'
  <2>1. jobs'[j].after <= Len(details')
    BY <1>0, <1>1, DocumentGrows DEF Traced
  <2>2. ASSUME jobs'[j].after # NoDetail
        PROVE  details'[jobs'[j].after] = details'[request'[jobs'[j].key]]
    <3>1. /\ jobs[j].after \in 1 .. Len(details)
          /\ details[jobs[j].after] = details[request[jobs[j].key]]
      BY <1>0, <1>1, <2>2 DEF Traced, NoDetail
    <3>2. jobs[j].key \in Approvals /\ request[jobs[j].key] # NoDetail
      BY <1>0, <1>1, <2>2 DEF Traced, Keyed
    <3>3. /\ request[jobs[j].key] \in 1 .. Len(details)
          /\ request'[jobs[j].key] = request[jobs[j].key]
      BY <3>2, DocumentGrows DEF TypeOK, NoDetail
    <3> QED BY <1>1, <3>1, <3>3, DocumentGrows
  <2> QED BY <1>0, <1>1, <2>1, <2>2 DEF Traced
<1>2. CASE jobs'[j] = jobs[j]
  BY <1>1, <1>2
<1>3. CASE Inserted(j)
  BY <1>0, <1>3, InsertedColumns DEF Traced, NoDetail
<1>4. CASE DetailsWritten(j)
  <2>1. /\ jobs'[j].status = "RUNNING" /\ details' = details /\ request' = request
        /\ jobs'[j].after \in 1 .. Len(details) /\ jobs'[j].key = jobs[j].key
        /\ details[jobs'[j].after] = details[request[jobs[j].key]]
    BY <1>4, DetailsColumns
  <2> QED BY <1>0, <2>1 DEF Traced
<1>5. CASE Taken(j)
  BY <1>1, <1>5, TakenColumns
<1>6. CASE ProgressWritten(j)
  BY <1>1, <1>6, ProgressColumns
<1>7. CASE ResultWritten(j)
  BY <1>1, <1>7, ResultColumns DEF Terminal
<1> QED BY <1>2, <1>3, <1>4, <1>5, <1>6, <1>7, RowWritten DEF Written

\* Once stored, the details stay in the row.
LEMMA LoadedKept ==
  ASSUME TypeOK, KeyInv, WriterInv, DetailInv, [Next]_vars, NEW j \in Jobs, Loaded(jobs[j])
  PROVE  Loaded(jobs[j])'
<1>1. CASE jobs'[j] = jobs[j]
  BY <1>1 DEF Loaded
<1>2. CASE Inserted(j)
  BY <1>2 DEF Inserted, Loaded, DetailInv, Traced
<1>3. CASE DetailsWritten(j)
  BY <1>3, DetailsColumns DEF Loaded, NoDetail
<1>4. CASE Taken(j)
  BY <1>4, TakenColumns DEF Loaded
<1>5. CASE ProgressWritten(j)
  BY <1>5, ProgressColumns DEF Loaded
<1>6. CASE ResultWritten(j)
  BY <1>6, ResultColumns DEF Loaded
<1> QED BY <1>1, <1>2, <1>3, <1>4, <1>5, <1>6, RowWritten DEF Written

LEMMA LoadStores ==
  ASSUME TypeOK, KeyInv, WriterInv, NEW w \in Workers, Load(w)
  PROVE  Loaded(jobs'[job[w]])
<1>1. /\ job[w] \in Jobs /\ jobs[job[w]] \in Row
      /\ jobs'[job[w]] = Snapshot(jobs[job[w]], Pair(request[jobs[job[w]].key]))
  BY RequestedPair DEF Load, Running, TypeOK
<1>2. DetailsWritten(job[w])
  BY <1>1 DEF DetailsWritten
<1> QED BY <1>1, <1>2, DetailsColumns DEF Loaded, NoDetail

\* A worker leaves the loading step with the details stored in its row.
LEMMA StageReached ==
  ASSUME TypeOK, DetailInv, [Next]_vars, NEW v \in Workers
  PROVE  /\ pc'[v] = "succeed" => stage'[v] # "LOADING"
         /\ stage'[v] # "LOADING" =>
              /\ Running(v)' /\ Running(v) /\ job'[v] = job[v]
              /\ Load(v) \/ stage[v] # "LOADING"
<1> DEFINE Goal ==
      /\ pc'[v] = "succeed" => stage'[v] # "LOADING"
      /\ stage'[v] # "LOADING" =>
           /\ Running(v)' /\ Running(v) /\ job'[v] = job[v]
           /\ Load(v) \/ stage[v] # "LOADING"
<1> USE DEF docVars, workerVars
<1>0. /\ pc[v] = "succeed" => stage[v] # "LOADING"
      /\ stage[v] # "LOADING" => Running(v)
  BY DEF DetailInv
<1>1. ASSUME pc'[v] = pc[v], job'[v] = job[v], stage'[v] = stage[v] PROVE Goal
  BY <1>0, <1>1 DEF Running
<1>2. ASSUME UNCHANGED workerVars PROVE Goal
  BY <1>1, <1>2
<1>3. ASSUME Outside PROVE UNCHANGED workerVars
  BY <1>3 DEF Outside, Revise, RequestApproval
<1>4. ASSUME NEW c \in Clients, ClientStep(c) PROVE UNCHANGED workerVars
  BY <1>4 DEF ClientStep, FindActive, InsertJob, InsertRejected
<1>5. ASSUME NEW w \in Workers, w # v, WorkerStep(w) \/ WorkerFault(w) \/ Restart(w) PROVE Goal
  <2>1. pc'[v] = pc[v] /\ job'[v] = job[v] /\ stage'[v] = stage[v]
    <3>1. CASE WorkerStep(w)
      BY <1>5, <3>1 DEF WorkerStep, Claim, ClaimEmpty, vars, ClaimCommit, Report, Load, Enter,
                        Analyse, AgentRaises, MarkSucceeded, MarkFailed, Leave, TypeOK
    <3>2. CASE WorkerFault(w) \/ Restart(w)
      BY <1>5, <3>2 DEF WorkerFault, ClaimAbort, ReportLost, SnapshotLost, ResultLost, Crash,
                        Restart, Leave, TypeOK
    <3> QED BY <1>5, <3>1, <3>2
  <2> QED BY <1>1, <2>1
<1>6. ASSUME WorkerStep(v) PROVE Goal
  <2>1. CASE Claim(v) \/ ClaimCommit(v) \/ Report(v) \/ AgentRaises(v)
    BY <1>0, <2>1 DEF Claim, ClaimCommit, Report, AgentRaises, Running, TypeOK
  <2>2. CASE ClaimEmpty(v)
    BY <1>2, <2>2 DEF ClaimEmpty, vars
  <2>3. CASE Load(v)
    BY <2>3 DEF Load, Enter, Running, TypeOK, Stages
  <2>4. CASE Analyse(v)
    BY <2>4 DEF Analyse, Enter, Running, TypeOK
  <2>5. CASE MarkSucceeded(v) \/ MarkFailed(v)
    BY <2>5 DEF MarkSucceeded, MarkFailed, Leave, Running, TypeOK
  <2> QED BY <1>6, <2>1, <2>2, <2>3, <2>4, <2>5 DEF WorkerStep
<1>7. ASSUME WorkerFault(v) \/ Restart(v) PROVE Goal
  BY <1>0, <1>7 DEF WorkerFault, ClaimAbort, ReportLost, SnapshotLost, ResultLost, Crash,
                    Restart, Leave, Running, TypeOK
<1>8. ASSUME UNCHANGED vars PROVE UNCHANGED workerVars
  BY <1>8 DEF vars
<1> HIDE DEF Goal
<1>9. Goal
  BY <1>2, <1>3, <1>4, <1>5, <1>6, <1>7, <1>8 DEF Next
<1> QED BY <1>9 DEF Goal

LEMMA NextDetailInv == TypeOK /\ KeyInv /\ WriterInv /\ DetailInv /\ [Next]_vars => DetailInv'
<1> SUFFICES ASSUME TypeOK, KeyInv, WriterInv, DetailInv, [Next]_vars PROVE DetailInv'
  OBVIOUS
<1>1. \A j \in Jobs : Traced(jobs[j])'
  BY TracedKept
<1>2. ASSUME NEW v \in Workers PROVE pc'[v] = "succeed" => stage'[v] # "LOADING"
  BY StageReached
<1>3. ASSUME NEW v \in Workers, stage'[v] # "LOADING"
      PROVE  Running(v)' /\ Loaded(jobs'[job'[v]])
  <2>0. Running(v)' /\ job'[v] = job[v] /\ Running(v) /\ (Load(v) \/ stage[v] # "LOADING")
    BY <1>3, StageReached
  <2>1. job[v] \in Jobs
    BY <2>0, RequestedPair
  <2>2. CASE Load(v)
    BY <2>0, <2>2, LoadStores
  <2>3. CASE stage[v] # "LOADING"
    <3>1. Loaded(jobs[job[v]])
      BY <2>1, <2>3 DEF DetailInv
    <3>2. PICK j \in Jobs : j = job[v]
      BY <2>1
    <3> QED BY <2>0, <3>1, <3>2, LoadedKept DEF Loaded
  <2> QED BY <2>0, <2>2, <2>3
<1> QED BY <1>1, <1>2, <1>3 DEF DetailInv

-----------------------------------------------------------------------------
(* What a row reports, and the inductive invariant *)

LEMMA InitReportInv == Init => ReportInv
BY DEF Init, ReportInv, RowReport, NoRow

LEMMA NextReportInv ==
  TypeOK /\ KeyInv /\ WriterInv /\ DetailInv /\ ReportInv /\ [Next]_vars => ReportInv'
<1> SUFFICES ASSUME TypeOK, KeyInv, WriterInv, DetailInv, ReportInv, [Next]_vars, NEW j \in Jobs
             PROVE  RowReport(jobs[j])'
  BY DEF ReportInv
<1>1. CASE jobs'[j] = jobs[j]
  BY <1>1 DEF ReportInv, RowReport, Loaded
<1>2. CASE Inserted(j)
  BY <1>2, InsertedColumns DEF RowReport
<1>3. CASE Taken(j)
  BY <1>3, TakenColumns DEF RowReport
<1>4. CASE ProgressWritten(j)
  BY <1>4, ProgressColumns DEF RowReport
<1>5. CASE DetailsWritten(j)
  BY <1>5, DetailsColumns DEF RowReport
<1>6. CASE ResultWritten(j)
  <2>1. jobs'[j].status = "FAILED" => jobs'[j].failed
    BY <1>6, ResultColumns
  <2>2. ASSUME jobs'[j].status = "SUCCEEDED"
        PROVE  jobs'[j].progress = 100 /\ ~jobs'[j].failed /\ Loaded(jobs'[j])
    <3>1. /\ jobs'[j].progress = 100 /\ ~jobs'[j].failed
          /\ jobs'[j].before = jobs[j].before /\ jobs'[j].after = jobs[j].after
          /\ \E w \in Workers : pc[w] = "succeed" /\ job[w] = j
      BY <1>6, <2>2, ResultColumns
    <3>2. Loaded(jobs[j])
      BY <3>1 DEF DetailInv
    <3> QED BY <3>1, <3>2 DEF Loaded
  <2> QED BY <2>1, <2>2 DEF RowReport
<1> QED BY <1>1, <1>2, <1>3, <1>4, <1>5, <1>6, RowWritten DEF Written

\* Every reachable state satisfies the inductive invariant.
THEOREM QueueInvariant == Spec => []QueueInv
<1>1. Init => QueueInv
  BY InitTypeOK, InitKeyInv, InitWriterInv, InitDetailInv, InitReportInv DEF QueueInv
<1>2. QueueInv /\ [Next]_vars => QueueInv'
  BY NextTypeOK, NextKeyInv, NextWriterInv, NextDetailInv, NextReportInv DEF QueueInv
<1> QED BY <1>1, <1>2, PTL DEF Spec

\* Every variable keeps its type, and a worker names a row exactly while it has one.
THEOREM TypeCorrect == Spec => []TypeOK
<1>1. QueueInv => TypeOK
  BY DEF QueueInv
<1> QED BY <1>1, QueueInvariant, PTL

\* No row is ever in the hands of two workers, whatever crashes or database errors
\* come between the claim and the result.
THEOREM RowsHaveOneWriter == Spec => []OneWriter
<1>1. QueueInv => OneWriter
  BY DEF QueueInv, WriterInv
<1> QED BY <1>1, QueueInvariant, PTL

\* What GET /approval-review-jobs answers is coherent.
THEOREM ReportsAreCoherent == Spec => []ReportCoherent
<1>1. QueueInv => ReportCoherent
  BY DEF QueueInv, KeyInv, Keyed, ReportInv, RowReport, Loaded, ReportCoherent
<1> QED BY <1>1, QueueInvariant, PTL

\* The review is of the data approval was requested for.
THEOREM RequestIsReviewed == Spec => []ReviewsTheRequest
<1>1. QueueInv => ReviewsTheRequest
  BY DEF QueueInv, DetailInv, Traced, ReviewsTheRequest
<1> QED BY <1>1, QueueInvariant, PTL

-----------------------------------------------------------------------------
(* The queue implements its contract, without a retry *)

\* What the contract lets every job do in a step.
Advances == \A j \in Jobs : \/ Promise!Accept(j) \/ Promise!Start(j) \/ Promise!Retry(j)
                            \/ Promise!End(j) \/ Promise!Stay(j)

LEMMA PromiseByRow == ASSUME TypeOK', Advances PROVE Promise!Next
<1>1. claims' = [j \in Jobs |-> claims'[j]]
  BY DEF TypeOK
<1>2. [j \in Jobs |-> Phase(j)]' = [j \in Jobs |-> ([i \in Jobs |-> Phase(i)]')[j]]
  OBVIOUS
<1>3. [j \in Jobs |-> jobs[j].key]' = [j \in Jobs |-> ([i \in Jobs |-> jobs[i].key]')[j]]
  OBVIOUS
<1> QED BY <1>1, <1>2, <1>3, Zenon DEF Promise!Next, Advances

\* A row that keeps status, key and claims does not move in the contract.
LEMMA RowStays ==
  ASSUME TypeOK, NEW j \in Jobs, jobs'[j].status = jobs[j].status,
         jobs'[j].key = jobs[j].key, claims'[j] = claims[j]
  PROVE  Promise!Stay(j)
<1>1. jobs[j].status \in Statuses
  BY DEF TypeOK, Row
<1>2. Phase(j)' = Phase(j)
  BY <1>1 DEF Phase, Statuses
<1> QED BY <1>2 DEF Promise!Stay

LEMMA InitPromise == Init => Promise!Init
BY DEF Init, Promise!Init, Phase, NoRow

\* The row another request would disturb: it holds the key that is to be free.
LEMMA AcceptedAlone ==
  ASSUME QueueInv, NEW i \in Jobs, Inserted(i),
         \A j \in Jobs \ {i} : jobs'[j] = jobs[j] /\ claims'[j] = claims[j]
  PROVE  Promise!Accept(i)
<1>1. PICK c \in Clients :
        /\ check[c] \in Approvals /\ KeyIsFree(check[c]) /\ jobs'[i].key = check[c]
        /\ jobs[i].status = "ABSENT" /\ jobs'[i].status = "QUEUED" /\ claims'[i] = claims[i]
  BY InsertedColumns DEF QueueInv
<1>2. Phase(i) = "absent" /\ Phase(i)' = "waiting"
  BY <1>1 DEF Phase
<1>3. ASSUME NEW j \in Jobs \ {i}, jobs'[j].key = check[c] PROVE Phase(j)' \notin Promise!Live
  <2>1. jobs'[j].status = jobs[j].status /\ jobs[j].key = check[c] /\ jobs[j].status \in Statuses
    BY <1>3 DEF QueueInv, TypeOK, Row
  <2>2. jobs[j].status \notin Active
    BY <1>1, <2>1 DEF KeyIsFree, QueueInv, KeyInv, Keyed
  <2> QED BY <2>1, <2>2 DEF Phase, Active, Statuses, Promise!Live
<1> QED BY <1>1, <1>2, <1>3 DEF Promise!Accept

LEMMA RowAdvances ==
  ASSUME QueueInv, NEW i \in Jobs, Written(i), ~Inserted(i)
  PROVE  Promise!Start(i) \/ Promise!End(i) \/ Promise!Stay(i)
<1>1. CASE Taken(i)
  <2>1. /\ jobs[i].status = "QUEUED" /\ jobs'[i].status = "RUNNING"
        /\ claims'[i] = claims[i] + 1 /\ jobs'[i].key = jobs[i].key
    BY <1>1, TakenColumns DEF QueueInv
  <2> QED BY <2>1 DEF Promise!Start, Phase
<1>2. CASE ProgressWritten(i)
  BY <1>2, ProgressColumns, RowStays DEF QueueInv
<1>3. CASE DetailsWritten(i)
  BY <1>3, DetailsColumns, RowStays DEF QueueInv
<1>4. CASE ResultWritten(i)
  <2>1. /\ jobs[i].status = "RUNNING" /\ jobs'[i].status \in {"SUCCEEDED", "FAILED"}
        /\ claims'[i] = claims[i] /\ jobs'[i].key = jobs[i].key
    BY <1>4, ResultColumns DEF QueueInv, Terminal
  <2> QED BY <2>1 DEF Promise!End, Phase
<1> QED BY <1>1, <1>2, <1>3, <1>4 DEF Written

LEMMA NextKeepsPromise == QueueInv /\ [Next]_vars => [Promise!Next]_(Promise!vars)
<1> SUFFICES ASSUME QueueInv, [Next]_vars PROVE Advances
  BY NextTypeOK, PromiseByRow DEF QueueInv
<1>1. CASE jobs' = jobs /\ claims' = claims
  BY <1>1, RowStays DEF Advances, QueueInv
<1>2. ASSUME NEW i \in Jobs, Written(i),
             \A j \in Jobs \ {i} : jobs'[j] = jobs[j] /\ claims'[j] = claims[j]
      PROVE  Advances
  <2>1. \A j \in Jobs \ {i} : Promise!Stay(j)
    BY <1>2, RowStays DEF QueueInv
  <2>2. Promise!Accept(i) \/ Promise!Start(i) \/ Promise!End(i) \/ Promise!Stay(i)
    BY <1>2, AcceptedAlone, RowAdvances
  <2> QED BY <2>1, <2>2 DEF Advances
<1> QED BY <1>1, <1>2, RowWritten DEF QueueInv

\* The approval review queue implements the contract with no retry: one live job per
\* approval, one attempt, one end for good.
THEOREM QueueKeepsPromise == Spec => KeepsPromise
<1>1. Init => Promise!Init
  BY InitPromise
<1>2. QueueInv /\ [Next]_vars => [Promise!Next]_(Promise!vars)
  BY NextKeepsPromise
<1> QED BY <1>1, <1>2, QueueInvariant, PTL DEF Spec, KeepsPromise, Promise!Spec

=============================================================================
