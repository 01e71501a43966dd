------------------------ MODULE GenerationJobsProofs ------------------------
(* Theorems about the generation job queue, for every value of its constants. *)
EXTENDS GenerationJobs, FiniteSetTheorems, TLAPS

(* What the write operations make of a row. *)

LEMMA NodeProgressType == ASSUME NEW n \in Nodes PROVE NodeProgress(n) \in 0 .. 100
BY DEF Nodes, NodeProgress

\* Writing one column with a value of its type keeps the row's type.
LEMMA ColumnTypes ==
  ASSUME NEW r \in Row
  PROVE  /\ \A v \in Statuses : [r EXCEPT !.status = v] \in Row
         /\ \A v \in Keys \cup {NoKey} : [r EXCEPT !.active_key = v] \in Row
         /\ \A v \in 0 .. 100 : [r EXCEPT !.progress = v] \in Row
         /\ \A v \in Nat : [r EXCEPT !.retry = v] \in Row
         /\ \A v \in Heartbeats : [r EXCEPT !.heartbeat = v] \in Row
         /\ \A v \in Errors : [r EXCEPT !.error = v] \in Row
BY DEF Row

\* An operation that writes several columns is proved column by column.
LEMMA ThreeColumns ==
  ASSUME NEW r \in Row, NEW a \in Statuses, NEW p \in 0 .. 100, NEW h \in Heartbeats
  PROVE  [r EXCEPT !.status = a, !.progress = p, !.heartbeat = h] \in Row
<1> DEFINE r1 == [r EXCEPT !.status = a]
           r2 == [r1 EXCEPT !.progress = p]
<1>1. r1 \in Row BY ColumnTypes
<1> HIDE DEF r1
<1>2. r2 \in Row BY <1>1, ColumnTypes
<1> HIDE DEF r2
<1>3. [r2 EXCEPT !.heartbeat = h] \in Row BY <1>2, ColumnTypes
<1> QED BY <1>3 DEF r1, r2

LEMMA PollTypes ==
  ASSUME NEW r \in Row
  PROVE  Claimed(r) \in Row /\ Recovered(r) \in Row
<1>1. Claimed(r) \in Row
  <2>1. 5 \in 0 .. 100 OBVIOUS
  <2> QED BY <2>1, ThreeColumns DEF Claimed, Statuses, Heartbeats
<1>2. Recovered(r) \in Row
  <2>1. CASE r.retry < MaxRetry
    <3> DEFINE r1 == [r EXCEPT !.retry = r.retry + 1]
    <3>1. r1 \in Row
      <4>1. r.retry + 1 \in Nat BY DEF Row
      <4> QED BY <4>1, ColumnTypes
    <3> HIDE DEF r1
    <3>2. 0 \in 0 .. 100 OBVIOUS
    <3>3. [r1 EXCEPT !.status = "PENDING", !.progress = 0, !.heartbeat = "none"] \in Row
      BY <3>2, <3>1, ThreeColumns DEF Statuses, Heartbeats
    <3> QED BY <2>1, <3>3 DEF Recovered, r1
  <2>2. CASE ~(r.retry < MaxRetry)
    <3> DEFINE r1 == [r EXCEPT !.status = "FAILED"]
               r2 == [r1 EXCEPT !.error = "stale"]
    <3>1. r1 \in Row BY ColumnTypes DEF Statuses
    <3> HIDE DEF r1
    <3>2. r2 \in Row BY <3>1, ColumnTypes DEF Errors
    <3> HIDE DEF r2
    <3>3. [r2 EXCEPT !.active_key = NoKey] \in Row BY <3>2, ColumnTypes
    <3> QED BY <2>2, <3>3 DEF Recovered, r1, r2
  <2> QED BY <2>1, <2>2
<1> QED BY <1>1, <1>2

LEMMA ReportedType ==
  ASSUME NEW r \in Row, NEW s \in Row, NEW p \in 0 .. 100
  PROVE  Reported(r, s, p) \in Row
<1>1. Reported(r, s, p) \in Row
  <2> DEFINE a == Column(s.status, "PROCESSING", r.status)
             q == Column(s.progress, IF p > s.progress THEN p ELSE s.progress, r.progress)
  <2>1. a \in Statuses /\ q \in 0 .. 100 BY DEF Column, Row, Statuses
  <2> HIDE DEF a, q
  <2>2. [r EXCEPT !.status = a, !.progress = q, !.heartbeat = "fresh"] \in Row
    BY <2>1, ThreeColumns DEF Heartbeats
  <2> QED BY <2>2 DEF Reported, a, q
<1> QED BY <1>1

LEMMA ResultTypes ==
  ASSUME NEW r \in Row, NEW s \in Row
  PROVE  Succeeded(r, s) \in Row /\ Failed(r, s) \in Row
<1>1. Succeeded(r, s) \in Row
  <2> DEFINE a == Column(s.status, "COMPLETED", r.status)
             q == Column(s.progress, 100, r.progress)
             e == Column(s.error, "none", r.error)
             k == Column(s.active_key, NoKey, r.active_key)
             r1 == [r EXCEPT !.error = e]
             r2 == [r1 EXCEPT !.active_key = k]
  <2>1. a \in Statuses /\ q \in 0 .. 100 /\ e \in Errors /\ k \in Keys \cup {NoKey}
    BY DEF Column, Row, Statuses, Errors
  <2> HIDE DEF a, q, e, k
  <2>2. r1 \in Row BY <2>1, ColumnTypes
  <2> HIDE DEF r1
  <2>3. r2 \in Row BY <2>1, <2>2, ColumnTypes
  <2> HIDE DEF r2
  <2>4. [r2 EXCEPT !.status = a, !.progress = q, !.heartbeat = "fresh"] \in Row
    BY <2>1, <2>3, ThreeColumns DEF Heartbeats
  <2> QED BY <2>4 DEF Succeeded, a, q, e, k, r1, r2
<1>2. Failed(r, s) \in Row
  <2> DEFINE a == Column(s.status, "FAILED", r.status)
             e == Column(s.error, "workflow", r.error)
             k == Column(s.active_key, NoKey, r.active_key)
             r1 == [r EXCEPT !.status = a]
             r2 == [r1 EXCEPT !.error = e]
             r3 == [r2 EXCEPT !.active_key = k]
  <2>1. a \in Statuses /\ e \in Errors /\ k \in Keys \cup {NoKey}
    BY DEF Column, Row, Statuses, Errors
  <2> HIDE DEF a, e, k
  <2>2. r1 \in Row BY <2>1, ColumnTypes
  <2> HIDE DEF r1
  <2>3. r2 \in Row BY <2>1, <2>2, ColumnTypes
  <2> HIDE DEF r2
  <2>4. r3 \in Row BY <2>1, <2>3, ColumnTypes
  <2> HIDE DEF r3
  <2>5. [r3 EXCEPT !.heartbeat = "fresh"] \in Row
    BY <2>4, ColumnTypes DEF Heartbeats
  <2> QED BY <2>5 DEF Failed, a, e, k, r1, r2, r3
<1> QED BY <1>1, <1>2

LEMMA NewRowType == NoRow \in Row /\ \A k \in Keys : NewRow(k) \in Row
BY DEF NoRow, NewRow, Row, Statuses, Heartbeats, Errors

LEMMA FinishedType ==
  ASSUME TypeOK, NEW w \in Workers, NEW r \in Row
  PROVE  Finished(w, r) \in Row
BY ResultTypes DEF Finished, TypeOK

-----------------------------------------------------------------------------
(* Type correctness *)

LEMMA InitTypeOK == Init => TypeOK
BY ConstantsAssumption, NewRowType
   DEF Init, TypeOK, Jobs, NoJob, PCs, Nodes, Outcomes, Running, InWorkflow

LEMMA NextTypeOK == TypeOK /\ [Next]_vars => TypeOK'
<1> SUFFICES ASSUME TypeOK, [Next]_vars PROVE TypeOK'
  OBVIOUS
<1> USE ConstantsAssumption DEF TypeOK, NoJob, PCs, Nodes, Outcomes, Running, InWorkflow,
                                queueVars, workerVars
<1>1. ASSUME NEW c \in Clients, ClientStep(c) PROVE TypeOK'
  <2>1. ASSUME NEW k \in Keys, FindActive(c, k) PROVE TypeOK'
    BY <2>1 DEF FindActive
  <2>2. CASE InsertJob(c)
    BY <2>2, NewRowType DEF InsertJob, NextJob
  <2>3. CASE InsertRejected(c)
    BY <2>3 DEF InsertRejected
  <2> QED BY <1>1, <2>1, <2>2, <2>3 DEF ClientStep
<1>2. ASSUME NEW w \in Workers, WorkerStep(w) PROVE TypeOK'
  <2>1. CASE Poll(w)
    BY <2>1 DEF Poll, StaleRows, Claimable
  <2>2. CASE PollEmpty(w)
    BY <2>2 DEF PollEmpty, vars
  <2>3. CASE PollCommit(w)
    <3>1. \A j \in Jobs : AfterPoll(w, j) \in Row
      BY PollTypes DEF AfterPoll
    <3> QED BY <2>3, <3>1 DEF PollCommit, AfterCommit
  <2>4. CASE LoadProgress(w)
    BY <2>4 DEF LoadProgress
  <2>5. CASE FlushProgress(w)
    <3>1. Reported(jobs[job[w]], loaded[w], NodeProgress(node[w])) \in Row
      <4>1. job[w] \in Jobs
        BY <2>5 DEF FlushProgress
      <4>2. jobs[job[w]] \in Row /\ loaded[w] \in Row /\ NodeProgress(node[w]) \in 0 .. 100
        BY <4>1, NodeProgressType
      <4> QED BY <4>2, ReportedType
    <3> QED BY <2>5, <3>1, NewRowType DEF FlushProgress
  <2>6. CASE NodeSucceeds(w)
    BY <2>6 DEF NodeSucceeds, Enter, NextNode
  <2>7. CASE NodeFails(w)
    BY <2>7 DEF NodeFails, Enter
  <2>8. CASE CleanupEnds(w)
    BY <2>8 DEF CleanupEnds
  <2>9. CASE WorkflowRaises(w)
    BY <2>9 DEF WorkflowRaises
  <2>10. CASE LoadFinish(w)
    BY <2>10 DEF LoadFinish
  <2>11. CASE FlushFinish(w)
    <3>1. Finished(w, jobs[job[w]]) \in Row
      BY <2>11, FinishedType DEF FlushFinish
    <3> QED BY <2>11, <3>1, NewRowType DEF FlushFinish, Leave
  <2> QED BY <1>2, <2>1, <2>2, <2>3, <2>4, <2>5, <2>6, <2>7, <2>8, <2>9, <2>10, <2>11
          DEF WorkerStep
<1>3. ASSUME NEW w \in Workers, WorkerFault(w) PROVE TypeOK'
  <2>1. CASE PollAbort(w)
    BY <2>1, NewRowType DEF PollAbort, DbError, Leave
  <2>2. CASE ProgressLost(w)
    BY <2>2, NewRowType DEF ProgressLost, DbError
  <2>3. CASE FinishLost(w)
    BY <2>3, NewRowType DEF FinishLost, DbError, Leave
  <2>4. CASE Crash(w)
    BY <2>4, NewRowType DEF Crash, Leave
  <2> QED BY <1>3, <2>1, <2>2, <2>3, <2>4 DEF WorkerFault
<1>4. ASSUME NEW w \in Workers, TouchHeartbeat(w) PROVE TypeOK'
  <2>1. job[w] \in Jobs /\ [jobs[job[w]] EXCEPT !.heartbeat = "fresh"] \in Row
    BY <1>4, ColumnTypes DEF TouchHeartbeat, Heartbeats
  <2> QED BY <1>4, <2>1 DEF TouchHeartbeat
<1>5. ASSUME NEW w \in Workers, Restart(w) PROVE TypeOK'
  BY <1>5 DEF Restart
<1>6. ASSUME NEW j \in Jobs, HeartbeatExpires(j) PROVE TypeOK'
  <2>1. [jobs[j] EXCEPT !.heartbeat = "stale"] \in Row
    BY ColumnTypes DEF Heartbeats
  <2> QED BY <1>6, <2>1 DEF HeartbeatExpires
<1>7. ASSUME NEW j \in Jobs, WorkerPauses(j) PROVE TypeOK'
  <2>1. [jobs[j] EXCEPT !.heartbeat = "stale"] \in Row
    BY ColumnTypes DEF Heartbeats
  <2> QED BY <1>7, <2>1 DEF WorkerPauses
<1>8. CASE UNCHANGED vars
  BY <1>8 DEF vars
<1> QED BY <1>1, <1>2, <1>3, <1>4, <1>5, <1>6, <1>7, <1>8 DEF Next

\* Every variable keeps its type, and a worker that runs a job names its row.
THEOREM TypeCorrect == Spec => []TypeOK
<1>1. TypeOK /\ [Next]_vars => TypeOK'
  BY NextTypeOK
<1> QED BY InitTypeOK, <1>1, PTL DEF Spec

-----------------------------------------------------------------------------
(* The attempts of a job are bounded, whatever stalls, dies or is refused *)

\* What a poll selected: stale rows in progress, and a row that is pending or that
\* the poll itself requeues.
Selected(w) ==
  /\ \A j \in stale[w] : jobs[j].status = "PROCESSING" /\ jobs[j].heartbeat = "stale"
  /\ \/ job[w] = NoJob
     \/ jobs[job[w]].status = "PENDING"
     \/ job[w] \in stale[w] /\ jobs[job[w]].retry < MaxRetry

\* What a poll has locked stays as it was selected until the poll commits, and no
\* two polls have locked the same row.
LockInv ==
  /\ \A w \in Workers : pc[w] \in {"idle", "down"} => job[w] = NoJob
  /\ \A w \in Workers : pc[w] = "polling" => Selected(w)
  /\ \A v, w \in Workers :
       v # w /\ pc[v] = "polling" /\ pc[w] = "polling" => Held(v) \cap Held(w) = {}

\* A row waiting to be claimed has paid for all its claims with retries.
Paid(r, n) ==
  /\ n <= r.retry + 1 /\ r.retry <= MaxRetry
  /\ r.status = "PENDING" => n <= r.retry
  /\ r.status = "ABSENT"  => n = 0

AttemptInv == \A j \in Jobs : Paid(jobs[j], claims[j])

\* A step that neither starts a poll nor writes a row some poll has locked.
LEMMA LocksKept ==
  ASSUME LockInv,
         \A v \in Workers : pc'[v] \in {"idle", "down"} => job'[v] = NoJob,
         \A v \in Workers : pc'[v] = "polling" =>
           /\ pc[v] = "polling" /\ job'[v] = job[v] /\ stale'[v] = stale[v]
           /\ \A j \in Held(v) : jobs'[j] = jobs[j]
  PROVE  LockInv'
<1>1. ASSUME NEW w \in Workers, pc'[w] = "polling" PROVE Selected(w)'
  BY <1>1 DEF LockInv, Selected, Held
<1>2. ASSUME NEW v \in Workers, NEW w \in Workers, v # w,
             pc'[v] = "polling", pc'[w] = "polling"
      PROVE  (Held(v) \cap Held(w) = {})'
  BY <1>2 DEF LockInv, Held
<1> QED BY <1>1, <1>2 DEF LockInv

\* A row no poll can have locked: it is new, or in progress and fresh.
LEMMA Unlocked ==
  ASSUME LockInv, NEW j \in Jobs,
         \/ jobs[j].status = "ABSENT"
         \/ jobs[j].status = "PROCESSING" /\ jobs[j].heartbeat = "fresh",
         NEW w \in Workers, pc[w] = "polling"
  PROVE  j \notin Held(w)
BY DEF LockInv, Selected, Held

LEMMA InitLockInv == Init => LockInv
BY DEF Init, LockInv

LEMMA NextLockInv == TypeOK /\ LockInv /\ [Next]_vars => LockInv'
<1> SUFFICES ASSUME TypeOK, LockInv, [Next]_vars PROVE LockInv'
  OBVIOUS
<1> USE DEF queueVars, workerVars
<1>1. ASSUME NEW c \in Clients, ClientStep(c) PROVE LockInv'
  <2>1. ASSUME NEW k \in Keys, FindActive(c, k) PROVE LockInv'
    BY <2>1, LocksKept DEF FindActive, LockInv
  <2>2. CASE InsertJob(c)
    <3>1. PICK j \in NextJob : jobs' = [jobs EXCEPT ![j] = NewRow(check[c])]
      BY <2>2 DEF InsertJob
    <3>2. \A w \in Workers : pc[w] = "polling" => j \notin Held(w)
      BY <3>1, Unlocked DEF NextJob
    <3>3. \A w \in Workers : pc[w] = "polling" => \A i \in Held(w) : jobs'[i] = jobs[i]
      BY <3>1, <3>2 DEF Held, TypeOK, NoJob
    <3> QED BY <2>2, <3>3, LocksKept DEF InsertJob, LockInv
  <2>3. CASE InsertRejected(c)
    BY <2>3, LocksKept DEF InsertRejected, LockInv
  <2> QED BY <1>1, <2>1, <2>2, <2>3 DEF ClientStep
<1>2. ASSUME NEW w \in Workers, WorkerStep(w) PROVE LockInv'
  <2>1. CASE Poll(w)
    <3>1. /\ \A v \in Workers : v # w => /\ pc'[v] = pc[v] /\ job'[v] = job[v]
                                         /\ stale'[v] = stale[v]
          /\ jobs' = jobs /\ stale'[w] = StaleRows /\ pc'[w] = "polling"
          /\ \/ job'[w] = NoJob
             \/ job'[w] \in Claimable(StaleRows)
      BY <2>1 DEF Poll, LockInv, TypeOK
    <3>2. Selected(w)'
      BY <3>1 DEF Selected, StaleRows, Claimable
    <3>3. ASSUME NEW v \in Workers, v # w, pc[v] = "polling"
          PROVE  Held(v) \cap Held(w)' = {}
      <4>1. Held(v) \subseteq Locked
        BY <3>3 DEF Locked
      <4>2. Held(w)' \cap Locked = {}
        BY <3>1 DEF Held, StaleRows, Claimable
      <4> QED BY <4>1, <4>2
    <3>4. \A v \in Workers : v # w => Held(v)' = Held(v)
      BY <3>1 DEF Held
    <3>5. \A v \in Workers : v # w /\ pc'[v] = "polling" => Selected(v)'
      BY <3>1 DEF LockInv, Selected
    <3> QED BY <3>1, <3>2, <3>3, <3>4, <3>5 DEF LockInv
  <2>2. CASE PollEmpty(w)
    BY <2>2, LocksKept DEF PollEmpty, vars, LockInv
  <2>3. CASE PollCommit(w)
    <3>1. \A j \in Jobs : j \notin Held(w) => jobs'[j] = jobs[j]
      BY <2>3 DEF PollCommit, AfterPoll, Held, Jobs, NoJob
    <3>2. \A v \in Workers : v # w /\ pc[v] = "polling" =>
            \A j \in Held(v) : jobs'[j] = jobs[j]
      BY <2>3, <3>1 DEF PollCommit, LockInv, TypeOK, Held
    <3>3. /\ pc'[w] # "polling"
          /\ pc'[w] \in {"idle", "down"} => job[w] = NoJob
          /\ job' = job
          /\ \A v \in Workers : v # w => pc'[v] = pc[v] /\ stale'[v] = stale[v]
      BY <2>3 DEF PollCommit, AfterCommit, TypeOK
    <3> QED BY <3>2, <3>3, LocksKept DEF LockInv
  <2>4. CASE LoadProgress(w)
    BY <2>4, LocksKept DEF LoadProgress, LockInv, TypeOK
  <2>5. CASE FlushProgress(w)
    <3>1. \A v \in Workers : pc[v] = "polling" => \A j \in Held(v) : jobs'[j] = jobs[j]
      BY <2>5 DEF FlushProgress, Locked, TypeOK
    <3> QED BY <2>5, <3>1, LocksKept DEF FlushProgress, LockInv, TypeOK
  <2>6. CASE NodeSucceeds(w)
    BY <2>6, LocksKept DEF NodeSucceeds, Enter, LockInv, TypeOK
  <2>7. CASE NodeFails(w)
    BY <2>7, LocksKept DEF NodeFails, Enter, LockInv, TypeOK
  <2>8. CASE CleanupEnds(w)
    BY <2>8, LocksKept DEF CleanupEnds, LockInv, TypeOK
  <2>9. CASE WorkflowRaises(w)
    BY <2>9, LocksKept DEF WorkflowRaises, LockInv, TypeOK
  <2>10. CASE LoadFinish(w)
    BY <2>10, LocksKept DEF LoadFinish, LockInv, TypeOK
  <2>11. CASE FlushFinish(w)
    <3>1. \A v \in Workers : pc[v] = "polling" => \A j \in Held(v) : jobs'[j] = jobs[j]
      BY <2>11 DEF FlushFinish, Locked, TypeOK
    <3> QED BY <2>11, <3>1, LocksKept DEF FlushFinish, Leave, LockInv, TypeOK
  <2> QED BY <1>2, <2>1, <2>2, <2>3, <2>4, <2>5, <2>6, <2>7, <2>8, <2>9, <2>10, <2>11
          DEF WorkerStep
<1>3. ASSUME NEW w \in Workers, WorkerFault(w) PROVE LockInv'
  <2>1. CASE PollAbort(w)
    BY <2>1, LocksKept DEF PollAbort, DbError, Leave, LockInv, TypeOK
  <2>2. CASE ProgressLost(w)
    BY <2>2, LocksKept DEF ProgressLost, DbError, LockInv, TypeOK
  <2>3. CASE FinishLost(w)
    BY <2>3, LocksKept DEF FinishLost, DbError, Leave, LockInv, TypeOK
  <2>4. CASE Crash(w)
    BY <2>4, LocksKept DEF Crash, Leave, LockInv, TypeOK
  <2> QED BY <1>3, <2>1, <2>2, <2>3, <2>4 DEF WorkerFault
<1>4. ASSUME NEW w \in Workers, TouchHeartbeat(w) PROVE LockInv'
  <2>1. \A v \in Workers : pc[v] = "polling" => \A j \in Held(v) : jobs'[j] = jobs[j]
    BY <1>4 DEF TouchHeartbeat, Locked, TypeOK
  <2> QED BY <1>4, <2>1, LocksKept DEF TouchHeartbeat, LockInv
<1>5. ASSUME NEW w \in Workers, Restart(w) PROVE LockInv'
  BY <1>5, LocksKept DEF Restart, LockInv, TypeOK
<1>6. ASSUME NEW j \in Jobs, HeartbeatExpires(j) \/ WorkerPauses(j) PROVE LockInv'
  <2>1. \A v \in Workers : pc[v] = "polling" => j \notin Held(v)
    BY <1>6, Unlocked DEF HeartbeatExpires, WorkerPauses
  <2>2. \A v \in Workers : pc[v] = "polling" => \A i \in Held(v) : jobs'[i] = jobs[i]
    BY <1>6, <2>1 DEF HeartbeatExpires, WorkerPauses, TypeOK, Held, NoJob
  <2> QED BY <1>6, <2>2, LocksKept DEF HeartbeatExpires, WorkerPauses, LockInv
<1>7. CASE UNCHANGED vars
  BY <1>7, LocksKept DEF vars, LockInv
<1> QED BY <1>1, <1>2, <1>3, <1>4, <1>5, <1>6, <1>7 DEF Next

\* A row that keeps its retry count stays paid for, unless it becomes pending or
\* its claims are counted again.
LEMMA PaidKept ==
  ASSUME NEW r \in Row, NEW s \in Row, NEW n \in Nat, Paid(r, n),
         s.retry = r.retry, s.status \in {r.status, "PROCESSING", "COMPLETED", "FAILED"}
  PROVE  Paid(s, n)
BY DEF Paid, Row

LEMMA WritesPaid ==
  ASSUME NEW r \in Row, NEW n \in Nat, Paid(r, n)
  PROVE  /\ \A s \in Row, p \in 0 .. 100 : Paid(Reported(r, s, p), n)
         /\ \A s \in Row : Paid(Succeeded(r, s), n) /\ Paid(Failed(r, s), n)
         /\ \A h \in Heartbeats : Paid([r EXCEPT !.heartbeat = h], n)
<1>1. ASSUME NEW s \in Row, NEW p \in 0 .. 100 PROVE Paid(Reported(r, s, p), n)
  <2>1. /\ Reported(r, s, p).retry = r.retry
        /\ Reported(r, s, p).status \in {r.status, "PROCESSING"}
    BY DEF Reported, Column, Row
  <2> QED BY <2>1, ReportedType, PaidKept
<1>2. ASSUME NEW s \in Row PROVE Paid(Succeeded(r, s), n) /\ Paid(Failed(r, s), n)
  <2>1. /\ Succeeded(r, s).retry = r.retry
        /\ Succeeded(r, s).status \in {r.status, "COMPLETED"}
    BY DEF Succeeded, Column, Row
  <2>2. /\ Failed(r, s).retry = r.retry
        /\ Failed(r, s).status \in {r.status, "FAILED"}
    BY DEF Failed, Column, Row
  <2> QED BY <2>1, <2>2, ResultTypes, PaidKept
<1>3. ASSUME NEW h \in Heartbeats PROVE Paid([r EXCEPT !.heartbeat = h], n)
  <2>1. /\ [r EXCEPT !.heartbeat = h].retry = r.retry
        /\ [r EXCEPT !.heartbeat = h].status = r.status
    BY DEF Row
  <2> QED BY <2>1, ColumnTypes, PaidKept
<1> QED BY <1>1, <1>2, <1>3

\* A requeue buys the next claim; a claim spends it.
LEMMA RecoveredPaid ==
  ASSUME NEW r \in Row, NEW n \in Nat, Paid(r, n), r.status = "PROCESSING"
  PROVE  Paid(Recovered(r), n)
BY ConstantsAssumption DEF Paid, Recovered, Row

LEMMA ClaimedPaid ==
  ASSUME NEW r \in Row, NEW n \in Nat, Paid(r, n), r.status = "PENDING"
  PROVE  Paid(Claimed(r), n + 1)
BY DEF Paid, Claimed, Row

LEMMA InitAttemptInv == Init => AttemptInv
BY ConstantsAssumption DEF Init, AttemptInv, Paid, NoRow

\* The commit of a poll pays for what it claims.
LEMMA PollCommitPaid ==
  ASSUME TypeOK, LockInv, AttemptInv, NEW w \in Workers, PollCommit(w), NEW j \in Jobs
  PROVE  Paid(jobs'[j], claims'[j])
<1> DEFINE r == IF j \in stale[w] THEN Recovered(jobs[j]) ELSE jobs[j]
<1>1. /\ jobs'[j] = IF j = job[w] THEN Claimed(r) ELSE r
      /\ claims'[j] = IF j = job[w] THEN claims[j] + 1 ELSE claims[j]
  BY DEF PollCommit, AfterPoll
<1>2. jobs[j] \in Row /\ claims[j] \in Nat /\ Paid(jobs[j], claims[j])
  BY DEF TypeOK, AttemptInv
<1>3. Selected(w)
  BY DEF PollCommit, LockInv
<1>4. r \in Row
  BY <1>2, PollTypes
<1>5. Paid(r, claims[j])
  BY <1>2, <1>3, RecoveredPaid DEF Selected
<1>6. j = job[w] => r.status = "PENDING"
  <2>1. CASE j \in stale[w]
    <3>1. j = job[w] => jobs[j].retry < MaxRetry
      BY <2>1, <1>3 DEF Selected, Jobs, NoJob
    <3> QED BY <2>1, <3>1, <1>2 DEF Recovered, Row
  <2>2. CASE j \notin stale[w]
    BY <2>2, <1>3 DEF Selected, Jobs, NoJob
  <2> QED BY <2>1, <2>2
<1> HIDE DEF r
<1> QED BY <1>1, <1>2, <1>4, <1>5, <1>6, ClaimedPaid

LEMMA NextAttemptInv == TypeOK /\ LockInv /\ AttemptInv /\ [Next]_vars => AttemptInv'
<1> SUFFICES ASSUME TypeOK, LockInv, AttemptInv, [Next]_vars PROVE AttemptInv'
  OBVIOUS
<1> USE DEF queueVars, workerVars
<1>0. ASSUME jobs' = jobs, claims' = claims PROVE AttemptInv'
  BY <1>0 DEF AttemptInv
<1>1. ASSUME NEW i \in Jobs, NEW r \in Row, Paid(r, claims[i]),
             jobs' = [jobs EXCEPT ![i] = r], claims' = claims
      PROVE  AttemptInv'
  BY <1>1 DEF AttemptInv, TypeOK
<1>2. ASSUME NEW c \in Clients, ClientStep(c) PROVE AttemptInv'
  <2>1. CASE InsertJob(c)
    <3>1. PICK i \in NextJob : jobs' = [jobs EXCEPT ![i] = NewRow(check[c])]
      BY <2>1 DEF InsertJob
    <3>2. i \in Jobs /\ claims[i] = 0
      BY <3>1 DEF NextJob, AttemptInv, Paid
    <3>3. Paid(NewRow(check[c]), 0) /\ NewRow(check[c]) \in Row
      BY <2>1, NewRowType, ConstantsAssumption DEF InsertJob, TypeOK, Paid, NewRow
    <3> QED BY <2>1, <3>1, <3>2, <3>3, <1>1 DEF InsertJob
  <2>2. CASE ~InsertJob(c)
    BY <1>2, <2>2, <1>0 DEF ClientStep, FindActive, InsertRejected
  <2> QED BY <2>1, <2>2
<1>3. ASSUME NEW w \in Workers, WorkerStep(w) PROVE AttemptInv'
  <2>1. CASE PollCommit(w)
    BY <2>1, PollCommitPaid DEF AttemptInv
  <2>2. CASE FlushProgress(w)
    <3> DEFINE r == Reported(jobs[job[w]], loaded[w], NodeProgress(node[w]))
    <3>1. /\ job[w] \in Jobs /\ jobs[job[w]] \in Row /\ claims[job[w]] \in Nat
          /\ loaded[w] \in Row /\ NodeProgress(node[w]) \in 0 .. 100
      BY <2>2, NodeProgressType DEF FlushProgress, TypeOK, Running, InWorkflow, NoJob
    <3>2. r \in Row /\ Paid(r, claims[job[w]])
      BY <3>1, WritesPaid, ReportedType DEF AttemptInv
    <3>3. jobs' = [jobs EXCEPT ![job[w]] = r] /\ claims' = claims
      BY <2>2 DEF FlushProgress
    <3> HIDE DEF r
    <3> QED BY <3>1, <3>2, <3>3, <1>1
  <2>3. CASE FlushFinish(w)
    <3> DEFINE r == Finished(w, jobs[job[w]])
    <3>1. /\ job[w] \in Jobs /\ jobs[job[w]] \in Row /\ claims[job[w]] \in Nat
          /\ loaded[w] \in Row
      BY <2>3 DEF FlushFinish, TypeOK, Running, InWorkflow, NoJob
    <3>2. r \in Row
      BY <3>1, FinishedType
    <3>3. Paid(r, claims[job[w]])
      BY <3>1, WritesPaid DEF AttemptInv, Finished
    <3>4. jobs' = [jobs EXCEPT ![job[w]] = r] /\ claims' = claims
      BY <2>3 DEF FlushFinish
    <3> HIDE DEF r
    <3> QED BY <3>1, <3>2, <3>3, <3>4, <1>1
  <2>4. CASE ~PollCommit(w) /\ ~FlushProgress(w) /\ ~FlushFinish(w)
    BY <1>3, <2>4, <1>0 DEF WorkerStep, Poll, PollEmpty, vars, LoadProgress, NodeSucceeds,
                            NodeFails, CleanupEnds, WorkflowRaises, LoadFinish
  <2> QED BY <2>1, <2>2, <2>3, <2>4
<1>4. ASSUME NEW w \in Workers, WorkerFault(w) \/ Restart(w) PROVE AttemptInv'
  BY <1>4, <1>0 DEF WorkerFault, PollAbort, ProgressLost, FinishLost, Crash, Restart
<1>5. ASSUME NEW i \in Jobs, NEW h \in Heartbeats, claims' = claims,
             jobs' = [jobs EXCEPT ![i].heartbeat = h]
      PROVE  AttemptInv'
  <2>1. jobs[i] \in Row /\ claims[i] \in Nat /\ Paid(jobs[i], claims[i])
    BY DEF TypeOK, AttemptInv
  <2>2. Paid([jobs[i] EXCEPT !.heartbeat = h], claims[i])
    BY <2>1, WritesPaid
  <2>3. [jobs[i] EXCEPT !.heartbeat = h] \in Row
    BY <2>1, ColumnTypes
  <2> QED BY <1>5, <2>2, <2>3, <1>1
<1>6. ASSUME NEW w \in Workers, TouchHeartbeat(w) PROVE AttemptInv'
  <2>1. job[w] \in Jobs
    BY <1>6 DEF TouchHeartbeat, TypeOK, Running, NoJob
  <2> QED BY <1>6, <2>1, <1>5 DEF TouchHeartbeat, Heartbeats
<1>7. ASSUME NEW j \in Jobs, HeartbeatExpires(j) \/ WorkerPauses(j) PROVE AttemptInv'
  BY <1>7, <1>5 DEF HeartbeatExpires, WorkerPauses, Heartbeats
<1>8. CASE UNCHANGED vars
  BY <1>8, <1>0 DEF vars
<1> QED BY <1>2, <1>3, <1>4, <1>6, <1>7, <1>8 DEF Next

\* However many workers, crashes, lost transactions and stalls there are, a job is
\* requeued at most max_retry_cnt times and claimed at most once more than that.
THEOREM AttemptsAreBounded == Spec => []AttemptsBounded
<1> DEFINE IInv == TypeOK /\ LockInv /\ AttemptInv
<1>1. Init => IInv
  BY InitTypeOK, InitLockInv, InitAttemptInv
<1>2. IInv /\ [Next]_vars => IInv'
  BY NextTypeOK, NextLockInv, NextAttemptInv
<1>3. IInv => AttemptsBounded
  BY DEF AttemptInv, AttemptsBounded, Paid
<1> QED BY <1>1, <1>2, <1>3, PTL DEF Spec

-----------------------------------------------------------------------------
(* Exclusive generation, as long as no living worker is late *)

\* Running workers run rows of their own, and what _finish_job has read is what it
\* will write over.
LeaseInv ==
  /\ LeaseHeld
  /\ \A v, w \in Workers : v # w /\ Running(v) /\ Running(w) => job[v] # job[w]
  /\ \A w \in Workers : pc[w] = "finFlush" => loaded[w] = jobs[job[w]]

\* A row in progress, and no other, holds its key.
Keyed(r) ==
  /\ r.status # "ABSENT" => r.key \in Keys
  /\ r.active_key = IF r.status \in Active THEN r.key ELSE NoKey

\* The unique index on active_key.
KeyInv ==
  /\ \A j \in Jobs : Keyed(jobs[j])
  /\ \A i, j \in Jobs :
       i # j /\ jobs[i].active_key = jobs[j].active_key => jobs[i].active_key = NoKey

\* A step after which nobody new runs, and whose writes leave the rows that are
\* still run in progress and fresh.
LEMMA LeaseKept ==
  ASSUME LeaseInv,
         \A v \in Workers : Running(v)' =>
           /\ Running(v) /\ job'[v] = job[v]
           /\ jobs'[job[v]].status = "PROCESSING" /\ jobs'[job[v]].heartbeat = "fresh",
         \A v \in Workers : pc'[v] = "finFlush" => loaded'[v] = jobs'[job'[v]]
  PROVE  LeaseInv'
BY DEF LeaseInv, LeaseHeld

\* Most steps write no row: they start nobody and let nobody reach the last write.
LEMMA LeaseIdle ==
  ASSUME LeaseInv, jobs' = jobs,
         \A v \in Workers : Running(v)' => Running(v) /\ job'[v] = job[v],
         \A v \in Workers : pc'[v] = "finFlush" => pc[v] = "finFlush" /\ loaded'[v] = loaded[v]
  PROVE  LeaseInv'
<1>1. \A v \in Workers : pc'[v] = "finFlush" => Running(v)'
  BY DEF Running
<1> QED BY <1>1, LeaseKept DEF LeaseInv, LeaseHeld

\* The poll of one worker leaves the rows of the others alone, and what it claims
\* is nobody else's.
LEMMA PollCommitLease ==
  ASSUME TypeOK, LockInv, LeaseInv, NEW w \in Workers, PollCommit(w)
  PROVE  LeaseInv'
<1>1. Selected(w) /\ ~Running(w)
  BY DEF PollCommit, LockInv, Running, InWorkflow
<1>2. \A v \in Workers : v # w => pc'[v] = pc[v]
  BY DEF PollCommit, TypeOK
<1>3. job' = job /\ loaded' = loaded
  BY DEF PollCommit
<1>4. ASSUME NEW v \in Workers, Running(v)
      PROVE  job[v] \in Jobs /\ job[v] # job[w] /\ jobs'[job[v]] = jobs[job[v]]
  <2>1. job[v] \in Jobs
    BY <1>4 DEF TypeOK
  <2>2. job[v] \notin stale[w] /\ job[v] # job[w]
    BY <1>1, <1>4, <2>1 DEF LeaseInv, LeaseHeld, Selected, Jobs, NoJob
  <2> QED BY <2>1, <2>2 DEF PollCommit, AfterPoll
<1>5. ASSUME Running(w)'
      PROVE  jobs'[job[w]].status = "PROCESSING" /\ jobs'[job[w]].heartbeat = "fresh"
  <2>1. job[w] \in Jobs
    BY <1>5 DEF PollCommit, AfterCommit, Running, InWorkflow, TypeOK
  <2>2. PICK r \in Row : jobs'[job[w]] = Claimed(r)
    BY <2>1, PollTypes DEF PollCommit, AfterPoll, TypeOK
  <2> QED BY <2>2 DEF Claimed, Row
<1>6. pc'[w] # "finFlush"
  BY DEF PollCommit, AfterCommit, TypeOK
<1>7. \A v \in Workers : v # w => (Running(v)' <=> Running(v))
  BY <1>2 DEF Running
<1>8. LeaseHeld'
  BY <1>3, <1>4, <1>5, <1>7 DEF LeaseInv, LeaseHeld
<1>9. \A u, v \in Workers : u # v /\ Running(u)' /\ Running(v)' => job'[u] # job'[v]
  BY <1>3, <1>4, <1>7 DEF LeaseInv
<1>10. \A v \in Workers : pc'[v] = "finFlush" => loaded'[v] = jobs'[job'[v]]
  BY <1>2, <1>3, <1>4, <1>6 DEF LeaseInv, Running
<1> QED BY <1>8, <1>9, <1>10 DEF LeaseInv

LEMMA InitLeaseInv == Init => LeaseInv
BY DEF Init, LeaseInv, LeaseHeld, Running, InWorkflow

LEMMA NextLeaseInv ==
  ASSUME MaxPauses = 0
  PROVE  TypeOK /\ LockInv /\ LeaseInv /\ [Next]_vars => LeaseInv'
<1> SUFFICES ASSUME TypeOK, LockInv, LeaseInv, [Next]_vars PROVE LeaseInv'
  OBVIOUS
<1> USE DEF queueVars, workerVars
<1>0. \A v \in Workers : Running(v) => job[v] \in Jobs
  BY DEF TypeOK
<1>1. \A v \in Workers : pc[v] = "finFlush" => Running(v)
  BY DEF Running
<1>2. ASSUME NEW c \in Clients, ClientStep(c) PROVE LeaseInv'
  <2>1. CASE InsertJob(c)
    <3>1. PICK i \in NextJob : jobs' = [jobs EXCEPT ![i] = NewRow(check[c])]
      BY <2>1 DEF InsertJob
    <3>2. \A v \in Workers : Running(v) => jobs'[job[v]] = jobs[job[v]]
      BY <3>1, <1>0 DEF NextJob, LeaseInv, LeaseHeld, TypeOK
    <3> QED BY <2>1, <3>2, <1>1, LeaseKept DEF InsertJob, LeaseInv, LeaseHeld, Running
  <2>2. CASE ~InsertJob(c)
    BY <1>2, <2>2, LeaseIdle DEF ClientStep, FindActive, InsertRejected, Running
  <2> QED BY <2>1, <2>2
<1>3. ASSUME NEW w \in Workers, WorkerStep(w) PROVE LeaseInv'
  <2>1. CASE Poll(w)
    BY <2>1, LeaseIdle DEF Poll, Running, InWorkflow, TypeOK
  <2>2. CASE PollEmpty(w)
    BY <2>2, LeaseIdle DEF PollEmpty, vars, Running
  <2>3. CASE PollCommit(w)
    BY <2>3, PollCommitLease
  <2>4. CASE LoadProgress(w)
    BY <2>4, LeaseIdle DEF LoadProgress, Running, InWorkflow, TypeOK
  <2>5. CASE FlushProgress(w)
    <3> DEFINE r == Reported(jobs[job[w]], loaded[w], NodeProgress(node[w]))
    <3>1. Running(w) /\ job[w] \in Jobs /\ jobs[job[w]] \in Row
      BY <2>5, <1>0 DEF FlushProgress, Running, InWorkflow, TypeOK
    <3>2. r.status = "PROCESSING" /\ r.heartbeat = "fresh"
      BY <3>1 DEF Reported, Column, LeaseInv, LeaseHeld, Row
    <3>3. jobs' = [jobs EXCEPT ![job[w]] = r]
      BY <2>5 DEF FlushProgress
    <3> HIDE DEF r
    <3>4. jobs'[job[w]] = r /\ \A j \in Jobs \ {job[w]} : jobs'[j] = jobs[j]
      BY <3>1, <3>3 DEF TypeOK
    <3>5. \A v \in Workers : Running(v)' => Running(v)
      BY <2>5 DEF FlushProgress, Running, InWorkflow, TypeOK
    <3>6. \A v \in Workers : pc'[v] = "finFlush" =>
            pc[v] = "finFlush" /\ loaded'[v] = loaded[v] /\ v # w
      BY <2>5 DEF FlushProgress, TypeOK
    <3>7. job' = job
      BY <2>5 DEF FlushProgress
    <3>8. \A v \in Workers : Running(v)' =>
            jobs'[job[v]].status = "PROCESSING" /\ jobs'[job[v]].heartbeat = "fresh"
      BY <3>2, <3>4, <3>5, <1>0 DEF LeaseInv, LeaseHeld
    <3>9. \A v \in Workers : pc'[v] = "finFlush" => loaded'[v] = jobs'[job'[v]]
      BY <3>1, <3>4, <3>6, <3>7, <1>0, <1>1 DEF LeaseInv
    <3> QED BY <3>5, <3>7, <3>8, <3>9, LeaseKept
  <2>6. CASE NodeSucceeds(w)
    BY <2>6, LeaseIdle DEF NodeSucceeds, Enter, Running, InWorkflow, TypeOK
  <2>7. CASE NodeFails(w)
    BY <2>7, LeaseIdle DEF NodeFails, Enter, Running, InWorkflow, TypeOK
  <2>8. CASE CleanupEnds(w)
    BY <2>8, LeaseIdle DEF CleanupEnds, Running, InWorkflow, TypeOK
  <2>9. CASE WorkflowRaises(w)
    BY <2>9, LeaseIdle DEF WorkflowRaises, Running, InWorkflow, TypeOK
  <2>10. CASE LoadFinish(w)
    <3>1. \A v \in Workers : Running(v)' => Running(v)
      BY <2>10 DEF LoadFinish, Running, InWorkflow, TypeOK
    <3>2. jobs' = jobs /\ job' = job
      BY <2>10 DEF LoadFinish
    <3>3. \A v \in Workers : pc'[v] = "finFlush" => loaded'[v] = jobs[job[v]]
      BY <2>10 DEF LoadFinish, TypeOK, LeaseInv
    <3> QED BY <3>1, <3>2, <3>3, LeaseKept DEF LeaseInv, LeaseHeld
  <2>11. CASE FlushFinish(w)
    <3>1. Running(w) /\ job[w] \in Jobs
      BY <2>11, <1>0 DEF FlushFinish, Running, InWorkflow
    <3>2. \A j \in Jobs \ {job[w]} : jobs'[j] = jobs[j]
      BY <2>11 DEF FlushFinish, TypeOK
    <3>3. \A v \in Workers : Running(v)' => Running(v) /\ v # w
      BY <2>11 DEF FlushFinish, Leave, Running, InWorkflow, TypeOK
    <3>4. \A v \in Workers : v # w =>
            pc'[v] = pc[v] /\ job'[v] = job[v] /\ loaded'[v] = loaded[v]
      BY <2>11 DEF FlushFinish, Leave, TypeOK
    <3>5. \A v \in Workers : Running(v) /\ v # w => jobs'[job[v]] = jobs[job[v]]
      BY <3>1, <3>2, <1>0 DEF LeaseInv
    <3>6. \A v \in Workers : pc'[v] = "finFlush" => Running(v)'
      BY DEF Running
    <3> QED BY <3>3, <3>4, <3>5, <3>6, LeaseKept DEF LeaseInv, LeaseHeld
  <2> QED BY <1>3, <2>1, <2>2, <2>3, <2>4, <2>5, <2>6, <2>7, <2>8, <2>9, <2>10, <2>11
          DEF WorkerStep
<1>4. ASSUME NEW w \in Workers, WorkerFault(w) PROVE LeaseInv'
  <2>1. CASE PollAbort(w)
    BY <2>1, LeaseIdle DEF PollAbort, DbError, Leave, Running, InWorkflow, TypeOK
  <2>2. CASE ProgressLost(w)
    BY <2>2, LeaseIdle DEF ProgressLost, DbError, Running, InWorkflow, TypeOK
  <2>3. CASE FinishLost(w)
    BY <2>3, LeaseIdle DEF FinishLost, DbError, Leave, Running, InWorkflow, TypeOK
  <2>4. CASE Crash(w)
    BY <2>4, LeaseIdle DEF Crash, Leave, Running, InWorkflow, TypeOK
  <2> QED BY <1>4, <2>1, <2>2, <2>3, <2>4 DEF WorkerFault
<1>5. ASSUME NEW w \in Workers, TouchHeartbeat(w) PROVE LeaseInv'
  BY <1>5 DEF TouchHeartbeat, LeaseInv, LeaseHeld, Running
<1>6. ASSUME NEW w \in Workers, Restart(w) PROVE LeaseInv'
  BY <1>6, LeaseIdle DEF Restart, Running, InWorkflow, TypeOK
<1>7. ASSUME NEW j \in Jobs, HeartbeatExpires(j) PROVE LeaseInv'
  <2>1. \A v \in Workers : Running(v) => jobs'[job[v]] = jobs[job[v]]
    BY <1>7, <1>0 DEF HeartbeatExpires, Attended, TypeOK
  <2> QED BY <1>7, <2>1, <1>1, LeaseKept DEF HeartbeatExpires, LeaseInv, LeaseHeld, Running
<1>8. ASSUME NEW j \in Jobs, WorkerPauses(j) PROVE FALSE
  BY <1>8, MaxPauses = 0 DEF WorkerPauses, TypeOK
<1>9. CASE UNCHANGED vars
  BY <1>9, LeaseIdle DEF vars, Running
<1> QED BY <1>2, <1>3, <1>4, <1>5, <1>6, <1>7, <1>8, <1>9 DEF Next

\* What the writes of a leased row do to its keys.
LEMMA WritesKeyed ==
  ASSUME NEW r \in Row, Keyed(r)
  PROVE  /\ r.status = "PENDING" =>
              Keyed(Claimed(r)) /\ Claimed(r).active_key = r.active_key
         /\ r.status = "PROCESSING" =>
              Keyed(Recovered(r)) /\ Recovered(r).active_key \in {r.active_key, NoKey}
         /\ r.status = "PROCESSING" =>
              \A s \in Row, p \in 0 .. 100 :
                Keyed(Reported(r, s, p)) /\ Reported(r, s, p).active_key = r.active_key
         /\ r.status = "PROCESSING" =>
              /\ Keyed(Succeeded(r, r)) /\ Succeeded(r, r).active_key = NoKey
              /\ Keyed(Failed(r, r)) /\ Failed(r, r).active_key = NoKey
         /\ \A h \in Heartbeats : /\ Keyed([r EXCEPT !.heartbeat = h])
                                  /\ [r EXCEPT !.heartbeat = h].active_key = r.active_key
<1>1. r.status = "PENDING" => Keyed(Claimed(r)) /\ Claimed(r).active_key = r.active_key
  BY DEF Keyed, Claimed, Row, Active
<1>2. r.status = "PROCESSING" =>
        Keyed(Recovered(r)) /\ Recovered(r).active_key \in {r.active_key, NoKey}
  BY DEF Keyed, Recovered, Row, Active
<1>3. ASSUME r.status = "PROCESSING", NEW s \in Row, NEW p \in 0 .. 100
      PROVE  Keyed(Reported(r, s, p)) /\ Reported(r, s, p).active_key = r.active_key
  BY <1>3 DEF Keyed, Reported, Column, Row, Active
<1>4. ASSUME r.status = "PROCESSING"
      PROVE  /\ Keyed(Succeeded(r, r)) /\ Succeeded(r, r).active_key = NoKey
             /\ Keyed(Failed(r, r)) /\ Failed(r, r).active_key = NoKey
  BY <1>4 DEF Keyed, Succeeded, Failed, Column, Row, Active
<1>5. ASSUME NEW h \in Heartbeats
      PROVE  /\ Keyed([r EXCEPT !.heartbeat = h])
             /\ [r EXCEPT !.heartbeat = h].active_key = r.active_key
  BY DEF Keyed, Row
<1> QED BY <1>1, <1>2, <1>3, <1>4, <1>5

\* A step that hands out no key keeps the index unique.
LEMMA KeysKept ==
  ASSUME KeyInv,
         \A j \in Jobs : /\ Keyed(jobs'[j])
                         /\ jobs'[j].active_key \in {jobs[j].active_key, NoKey}
  PROVE  KeyInv'
BY DEF KeyInv

\* The steps that write one row.
LEMMA KeysKeptByWrite ==
  ASSUME TypeOK, KeyInv, NEW i \in Jobs, NEW r, jobs' = [jobs EXCEPT ![i] = r],
         Keyed(r), r.active_key \in {jobs[i].active_key, NoKey}
  PROVE  KeyInv'
BY KeysKept DEF KeyInv, TypeOK

LEMMA InitKeyInv == Init => KeyInv
BY DEF Init, KeyInv, Keyed, NoRow, Active

LEMMA PollCommitKeys ==
  ASSUME TypeOK, LockInv, KeyInv, NEW w \in Workers, PollCommit(w)
  PROVE  KeyInv'
<1> SUFFICES ASSUME NEW j \in Jobs
             PROVE  /\ Keyed(jobs'[j])
                    /\ jobs'[j].active_key \in {jobs[j].active_key, NoKey}
  BY KeysKept
<1> DEFINE r == IF j \in stale[w] THEN Recovered(jobs[j]) ELSE jobs[j]
<1>1. jobs'[j] = IF j = job[w] THEN Claimed(r) ELSE r
  BY DEF PollCommit, AfterPoll
<1>2. Selected(w) /\ jobs[j] \in Row /\ Keyed(jobs[j])
  BY DEF PollCommit, LockInv, TypeOK, KeyInv
<1>3. r \in Row
  BY <1>2, PollTypes
<1>4. Keyed(r) /\ r.active_key \in {jobs[j].active_key, NoKey}
  BY <1>2, WritesKeyed DEF Selected
<1>5. j = job[w] => r.status = "PENDING"
  BY <1>2 DEF Selected, Jobs, NoJob, Recovered, Row
<1> HIDE DEF r
<1> QED BY <1>1, <1>3, <1>4, <1>5, WritesKeyed

LEMMA NextKeyInv ==
  ASSUME MaxPauses = 0
  PROVE  TypeOK /\ LockInv /\ LeaseInv /\ KeyInv /\ [Next]_vars => KeyInv'
<1> SUFFICES ASSUME TypeOK, LockInv, LeaseInv, KeyInv, [Next]_vars PROVE KeyInv'
  OBVIOUS
<1> USE DEF queueVars, workerVars
<1>0. ASSUME jobs' = jobs PROVE KeyInv'
  BY <1>0 DEF KeyInv
<1>1. \A j \in Jobs : jobs[j] \in Row /\ Keyed(jobs[j])
  BY DEF TypeOK, KeyInv
<1>2. ASSUME NEW c \in Clients, ClientStep(c) PROVE KeyInv'
  <2>1. CASE InsertJob(c)
    <3>1. PICK i \in NextJob : jobs' = [jobs EXCEPT ![i] = NewRow(check[c])]
      BY <2>1 DEF InsertJob
    <3>2. check[c] \in Keys /\ \A j \in Jobs : jobs[j].active_key # check[c]
      BY <2>1 DEF InsertJob, TypeOK
    <3>3. Keyed(NewRow(check[c])) /\ NewRow(check[c]).active_key = check[c]
      BY <3>2 DEF Keyed, NewRow, Active
    <3> QED BY <3>1, <3>2, <3>3 DEF KeyInv, NextJob, TypeOK
  <2>2. CASE ~InsertJob(c)
    BY <1>2, <2>2, <1>0 DEF ClientStep, FindActive, InsertRejected
  <2> QED BY <2>1, <2>2
<1>3. ASSUME NEW w \in Workers, WorkerStep(w) PROVE KeyInv'
  <2>1. CASE PollCommit(w)
    BY <2>1, PollCommitKeys
  <2>2. CASE FlushProgress(w)
    <3>1. /\ job[w] \in Jobs /\ jobs[job[w]].status = "PROCESSING"
          /\ loaded[w] \in Row /\ NodeProgress(node[w]) \in 0 .. 100
      BY <2>2, NodeProgressType
         DEF FlushProgress, TypeOK, LeaseInv, LeaseHeld, Running, InWorkflow
    <3> DEFINE r == Reported(jobs[job[w]], loaded[w], NodeProgress(node[w]))
    <3>2. Keyed(r) /\ r.active_key = jobs[job[w]].active_key
      <4>1. jobs[job[w]] \in Row /\ Keyed(jobs[job[w]])
        BY <3>1, <1>1
      <4>2. \A s \in Row, p \in 0 .. 100 :
              /\ Keyed(Reported(jobs[job[w]], s, p))
              /\ Reported(jobs[job[w]], s, p).active_key = jobs[job[w]].active_key
        BY <3>1, <4>1, WritesKeyed
      <4> QED BY <3>1, <4>2
    <3>3. jobs' = [jobs EXCEPT ![job[w]] = r]
      BY <2>2 DEF FlushProgress
    <3> HIDE DEF r
    <3> QED BY <3>1, <3>2, <3>3, KeysKeptByWrite
  <2>3. CASE FlushFinish(w)
    <3>1. /\ job[w] \in Jobs /\ jobs[job[w]].status = "PROCESSING"
          /\ loaded[w] = jobs[job[w]]
      BY <2>3 DEF FlushFinish, TypeOK, LeaseInv, LeaseHeld, Running, InWorkflow
    <3>2. /\ Keyed(Finished(w, jobs[job[w]]))
          /\ Finished(w, jobs[job[w]]).active_key = NoKey
      BY <3>1, <1>1, WritesKeyed DEF Finished
    <3> QED BY <2>3, <3>1, <3>2, KeysKeptByWrite DEF FlushFinish
  <2>4. CASE ~PollCommit(w) /\ ~FlushProgress(w) /\ ~FlushFinish(w)
    BY <1>3, <2>4, <1>0 DEF WorkerStep, Poll, PollEmpty, vars, LoadProgress, NodeSucceeds,
                            NodeFails, CleanupEnds, WorkflowRaises, LoadFinish
  <2> QED BY <2>1, <2>2, <2>3, <2>4
<1>4. ASSUME NEW w \in Workers, WorkerFault(w) \/ Restart(w) PROVE KeyInv'
  BY <1>4, <1>0 DEF WorkerFault, PollAbort, ProgressLost, FinishLost, Crash, Restart
<1>5. ASSUME NEW i \in Jobs, NEW h \in Heartbeats, jobs' = [jobs EXCEPT ![i].heartbeat = h]
      PROVE  KeyInv'
  BY <1>5, <1>1, WritesKeyed, KeysKeptByWrite
<1>6. ASSUME NEW w \in Workers, TouchHeartbeat(w) PROVE KeyInv'
  <2>1. job[w] \in Jobs
    BY <1>6 DEF TouchHeartbeat, TypeOK, Running
  <2> QED BY <1>6, <2>1, <1>5 DEF TouchHeartbeat, Heartbeats
<1>7. ASSUME NEW j \in Jobs, HeartbeatExpires(j) \/ WorkerPauses(j) PROVE KeyInv'
  BY <1>7, <1>5 DEF HeartbeatExpires, WorkerPauses, Heartbeats
<1>8. CASE UNCHANGED vars
  BY <1>8, <1>0 DEF vars
<1> QED BY <1>2, <1>3, <1>4, <1>6, <1>7, <1>8 DEF Next

\* The inductive invariant of the queue without late workers.
TimelyInv == TypeOK /\ LockInv /\ AttemptInv /\ LeaseInv /\ KeyInv

LEMMA TimelyInvariant == ASSUME MaxPauses = 0 PROVE Spec => []TimelyInv
<1>1. Init => TimelyInv
  BY InitTypeOK, InitLockInv, InitAttemptInv, InitLeaseInv, InitKeyInv DEF TimelyInv
<1>2. TimelyInv /\ [Next]_vars => TimelyInv'
  BY NextTypeOK, NextLockInv, NextAttemptInv, NextLeaseInv, NextKeyInv DEF TimelyInv
<1> QED BY <1>1, <1>2, PTL DEF Spec

\* While no living worker is late, a row that is being run stays in progress and
\* fresh until its worker writes the result.
THEOREM LeaseIsHeld == ASSUME MaxPauses = 0 PROVE Spec => []LeaseHeld
<1>1. TimelyInv => LeaseHeld
  BY DEF TimelyInv, LeaseInv
<1> QED BY <1>1, TimelyInvariant, PTL

\* ... and two workers never work on the same project and document code, through
\* crashes, restarts, lost transactions and requeues.
THEOREM GenerationIsExclusive == ASSUME MaxPauses = 0 PROVE Spec => []ExclusiveGeneration
<1>1. ASSUME TimelyInv PROVE ExclusiveGeneration
  <2> SUFFICES ASSUME NEW v \in Workers, NEW w \in Workers, v # w, Running(v), Running(w)
               PROVE  jobs[job[v]].key # jobs[job[w]].key
    BY DEF ExclusiveGeneration
  <2>1. job[v] \in Jobs /\ job[w] \in Jobs /\ job[v] # job[w]
    BY <1>1 DEF TimelyInv, TypeOK, LeaseInv
  <2>2. \A j \in {job[v], job[w]} :
          jobs[j].active_key = jobs[j].key /\ jobs[j].key \in Keys
    BY <1>1, <2>1 DEF TimelyInv, LeaseInv, LeaseHeld, KeyInv, Keyed, Active
  <2> QED BY <1>1, <2>1, <2>2, ConstantsAssumption DEF TimelyInv, KeyInv
<1> QED BY <1>1, TimelyInvariant, PTL

-----------------------------------------------------------------------------
(* The queue implements its contract *)

\* What the contract lets every job do in a step.
Advances == \A j \in Jobs : \/ Promise!Accept(j) \/ Promise!Start(j) \/ Promise!Retry(j)
                            \/ Promise!End(j) \/ Promise!Stay(j)

LEMMA PromiseByRow == ASSUME TypeOK', Advances PROVE Promise!Next
<1>1. claims' = [j \in Jobs |-> claims'[j]]
  BY DEF TypeOK
<1>2. [j \in Jobs |-> Phase(j)]' = [j \in Jobs |-> ([i \in Jobs |-> Phase(i)]')[j]]
  OBVIOUS
<1>3. [j \in Jobs |-> jobs[j].key]' = [j \in Jobs |-> ([i \in Jobs |-> jobs[i].key]')[j]]
  OBVIOUS
<1> QED BY <1>1, <1>2, <1>3, Zenon DEF Promise!Next, Advances

\* A row that keeps status, key and claims does not move in the contract.
LEMMA RowStays ==
  ASSUME TypeOK, NEW j \in Jobs, jobs'[j].status = jobs[j].status,
         jobs'[j].key = jobs[j].key, claims'[j] = claims[j]
  PROVE  Promise!Stay(j)
<1>1. jobs[j].status \in Statuses
  BY DEF TypeOK, Row
<1>2. Phase(j)' = Phase(j)
  BY <1>1 DEF Phase, Statuses
<1> QED BY <1>2 DEF Promise!Stay

\* A step that changes no status, key or claim is a stuttering step.
LEMMA QueueStutters ==
  ASSUME TypeOK, claims' = claims,
         \A j \in Jobs : jobs'[j].status = jobs[j].status /\ jobs'[j].key = jobs[j].key
  PROVE  Advances
BY RowStays DEF Advances

LEMMA InitPromise == Init => Promise!Init
BY DEF Init, Promise!Init, Phase, NoRow

LEMMA InsertKeepsPromise ==
  ASSUME TimelyInv, NEW c \in Clients, InsertJob(c)
  PROVE  Advances
<1>1. PICK i \in NextJob : jobs' = [jobs EXCEPT ![i] = NewRow(check[c])]
  BY DEF InsertJob
<1>2. i \in Jobs /\ jobs[i].status = "ABSENT" /\ check[c] \in Keys /\ claims' = claims
  BY <1>1 DEF InsertJob, NextJob, TimelyInv, TypeOK
<1>3. jobs'[i] = NewRow(check[c]) /\ \A j \in Jobs \ {i} : jobs'[j] = jobs[j]
  BY <1>1, <1>2 DEF TimelyInv, TypeOK
<1>4. \A j \in Jobs : jobs[j].key = check[c] => jobs[j].status \notin Active
  BY DEF InsertJob, TimelyInv, KeyInv, Keyed
<1>5. ASSUME NEW j \in Jobs \ {i} PROVE Promise!Stay(j)
  BY <1>2, <1>3, RowStays DEF TimelyInv
<1>6. Promise!Accept(i)
  <2>1. Phase(i) = "absent" /\ Phase(i)' = "waiting" /\ jobs'[i].key = check[c]
    BY <1>2, <1>3 DEF Phase, NewRow
  <2>2. \A j \in Jobs \ {i} : jobs'[j].key = check[c] => Phase(j)' \notin Promise!Live
    BY <1>3, <1>4 DEF Phase, Active, Promise!Live, TimelyInv, TypeOK, Row, Statuses
  <2> QED BY <1>2, <2>1, <2>2 DEF Promise!Accept
<1> QED BY <1>5, <1>6 DEF Advances

LEMMA PollCommitKeepsPromise ==
  ASSUME TimelyInv, NEW w \in Workers, PollCommit(w)
  PROVE  Advances
<1> SUFFICES ASSUME NEW j \in Jobs
             PROVE  Promise!Start(j) \/ Promise!Retry(j) \/ Promise!End(j) \/ Promise!Stay(j)
  BY DEF Advances
<1> DEFINE r == IF j \in stale[w] THEN Recovered(jobs[j]) ELSE jobs[j]
<1>1. /\ jobs'[j] = IF j = job[w] THEN Claimed(r) ELSE r
      /\ claims'[j] = IF j = job[w] THEN claims[j] + 1 ELSE claims[j]
  BY DEF PollCommit, AfterPoll
<1>2. /\ Selected(w) /\ jobs[j] \in Row /\ Paid(jobs[j], claims[j])
      /\ claims[j] \in Nat
  BY DEF PollCommit, TimelyInv, LockInv, TypeOK, AttemptInv
<1>3. Claimed(r).status = "PROCESSING" /\ Claimed(r).key = r.key
  BY <1>2, PollTypes DEF Claimed, Row
<1>4. CASE j \in stale[w] /\ jobs[j].retry < MaxRetry
  <2>1. jobs[j].status = "PROCESSING" /\ claims[j] <= MaxRetry
    BY <1>2, <1>4, ConstantsAssumption DEF Selected, Paid, Row
  <2>2. r.status = "PENDING" /\ r.key = jobs[j].key
    BY <1>2, <1>4 DEF Recovered, Row
  <2> HIDE DEF r
  <2>3. Promise!Retry(j)
    BY <1>1, <1>3, <2>1, <2>2 DEF Promise!Retry, Phase
  <2> QED BY <2>3
<1>5. CASE j \in stale[w] /\ ~(jobs[j].retry < MaxRetry)
  <2>1. jobs[j].status = "PROCESSING" /\ j # job[w]
    BY <1>2, <1>5 DEF Selected, Jobs, NoJob
  <2>2. r.status = "FAILED" /\ r.key = jobs[j].key
    BY <1>2, <1>5 DEF Recovered, Row
  <2> HIDE DEF r
  <2>3. Promise!End(j)
    BY <1>1, <2>1, <2>2 DEF Promise!End, Phase
  <2> QED BY <2>3
<1>6. CASE j \notin stale[w] /\ j = job[w]
  <2>1. jobs[j].status = "PENDING" /\ r = jobs[j]
    BY <1>2, <1>6 DEF Selected, Jobs, NoJob
  <2> HIDE DEF r
  <2>2. Promise!Start(j)
    BY <1>1, <1>3, <1>6, <2>1 DEF Promise!Start, Phase
  <2> QED BY <2>2
<1>7. CASE j \notin stale[w] /\ j # job[w]
  BY <1>1, <1>7, RowStays DEF TimelyInv
<1> QED BY <1>4, <1>5, <1>6, <1>7

LEMMA FinishKeepsPromise ==
  ASSUME TimelyInv, NEW w \in Workers, FlushFinish(w)
  PROVE  Advances
<1>0. PICK i \in Jobs : i = job[w]
  BY DEF FlushFinish, TimelyInv, TypeOK, Running, InWorkflow
<1> DEFINE r == Finished(w, jobs[i])
<1>1. /\ i \in Jobs /\ jobs[i] \in Row /\ jobs[i].status = "PROCESSING"
      /\ loaded[w] = jobs[i]
  BY <1>0 DEF FlushFinish, TimelyInv, TypeOK, LeaseInv, LeaseHeld, Running, InWorkflow
<1>2. r.status \in {"COMPLETED", "FAILED"} /\ r.key = jobs[i].key
  BY <1>1 DEF Finished, Succeeded, Failed, Column, Row
<1>3. jobs' = [jobs EXCEPT ![i] = r] /\ claims' = claims
  BY <1>0 DEF FlushFinish
<1> HIDE DEF r
<1>4. jobs'[i] = r /\ \A j \in Jobs \ {i} : jobs'[j] = jobs[j]
  BY <1>1, <1>3 DEF TimelyInv, TypeOK
<1>5. ASSUME NEW j \in Jobs \ {i} PROVE Promise!Stay(j)
  BY <1>3, <1>4, RowStays DEF TimelyInv
<1>6. Promise!End(i)
  BY <1>1, <1>2, <1>3, <1>4 DEF Promise!End, Phase
<1> QED BY <1>5, <1>6 DEF Advances

LEMMA ProgressKeepsPromise ==
  ASSUME TimelyInv, NEW w \in Workers, FlushProgress(w)
  PROVE  Advances
<1> DEFINE i == job[w]
           r == Reported(jobs[i], loaded[w], NodeProgress(node[w]))
<1>1. i \in Jobs /\ jobs[i] \in Row /\ jobs[i].status = "PROCESSING"
  BY DEF FlushProgress, TimelyInv, TypeOK, LeaseInv, LeaseHeld, Running, InWorkflow
<1>2. r.status = jobs[i].status /\ r.key = jobs[i].key
  BY <1>1 DEF Reported, Column, Row
<1>3. jobs' = [jobs EXCEPT ![i] = r] /\ claims' = claims
  BY DEF FlushProgress
<1> HIDE DEF i, r
<1> QED BY <1>1, <1>2, <1>3, QueueStutters DEF TimelyInv, TypeOK

LEMMA NextKeepsPromise ==
  TimelyInv /\ [Next]_vars => [Promise!Next]_(Promise!vars)
<1> SUFFICES ASSUME TimelyInv, [Next]_vars PROVE Advances
  BY NextTypeOK, PromiseByRow DEF TimelyInv
<1> USE DEF queueVars, workerVars
<1>0. ASSUME jobs' = jobs, claims' = claims PROVE Advances
  BY <1>0, QueueStutters DEF TimelyInv
<1>1. ASSUME NEW i \in Jobs, NEW h \in Heartbeats, claims' = claims,
             jobs' = [jobs EXCEPT ![i].heartbeat = h]
      PROVE  Advances
  <2>1. \A j \in Jobs : jobs'[j].status = jobs[j].status /\ jobs'[j].key = jobs[j].key
    BY <1>1 DEF TimelyInv, TypeOK, Row
  <2> QED BY <1>1, <2>1, QueueStutters DEF TimelyInv
<1>2. ASSUME NEW c \in Clients, ClientStep(c) PROVE Advances
  BY <1>2, <1>0, InsertKeepsPromise DEF ClientStep, FindActive, InsertRejected
<1>3. ASSUME NEW w \in Workers, WorkerStep(w) PROVE Advances
  <2>1. CASE PollCommit(w) \/ FlushProgress(w) \/ FlushFinish(w)
    BY <2>1, PollCommitKeepsPromise, ProgressKeepsPromise, FinishKeepsPromise
  <2>2. CASE ~PollCommit(w) /\ ~FlushProgress(w) /\ ~FlushFinish(w)
    BY <1>3, <2>2, <1>0 DEF WorkerStep, Poll, PollEmpty, vars, LoadProgress, NodeSucceeds,
                            NodeFails, CleanupEnds, WorkflowRaises, LoadFinish
  <2> QED BY <2>1, <2>2
<1>4. ASSUME NEW w \in Workers, WorkerFault(w) \/ Restart(w) PROVE Advances
  BY <1>4, <1>0 DEF WorkerFault, PollAbort, ProgressLost, FinishLost, Crash, Restart
<1>5. ASSUME NEW w \in Workers, TouchHeartbeat(w) PROVE Advances
  <2>1. job[w] \in Jobs
    BY <1>5 DEF TouchHeartbeat, TimelyInv, TypeOK, Running
  <2> QED BY <1>5, <2>1, <1>1 DEF TouchHeartbeat, Heartbeats
<1>6. ASSUME NEW j \in Jobs, HeartbeatExpires(j) \/ WorkerPauses(j) PROVE Advances
  BY <1>6, <1>1 DEF HeartbeatExpires, WorkerPauses, Heartbeats
<1>7. CASE UNCHANGED vars
  BY <1>7, <1>0 DEF vars
<1> QED BY <1>2, <1>3, <1>4, <1>5, <1>6, <1>7 DEF Next

\* While no living worker is late, the queue implements its contract: one live job
\* per key, at most 1 + max_retry_cnt attempts, one end for good.
THEOREM QueueKeepsPromise == ASSUME MaxPauses = 0 PROVE Spec => KeepsPromise
<1>1. Init => Promise!Init
  BY InitPromise
<1>2. TimelyInv /\ [Next]_vars => [Promise!Next]_(Promise!vars)
  BY NextKeepsPromise
<1> QED BY <1>1, <1>2, TimelyInvariant, PTL DEF Spec, KeepsPromise, Promise!Spec

-----------------------------------------------------------------------------
(* The workflow of a worker: what its outcome says of its node and document. *)

OutcomeInv ==
  \A w \in Workers :
    /\ ~Running(w) => outcome[w] = "RUNNING" /\ node[w] = "preprocess"
    /\ pc[w] \in InWorkflow /\ node[w] # "cleanup" => outcome[w] = "RUNNING"
    /\ outcome[w] = "DONE" => exports[job[w]] > 0

\* The workers that may still commit a document for row j.
Exporters(j) == {w \in Workers : Running(w) /\ outcome[w] = "RUNNING" /\ job[w] = j}

\* Every claim pays for one document: committed, or still to be committed.
DocumentInv == \A j \in Jobs : exports[j] + Cardinality(Exporters(j)) <= claims[j]

\* What one row may look like, whatever was written to it.
RowRecoverable(r) == r.status = "PROCESSING" => r.heartbeat # "none"

\* What one row looks like while no living worker is late.
RowReport(r) ==
  /\ r.status \in {"ABSENT", "PENDING"} => r.progress = 0
  /\ r.status = "COMPLETED" => r.progress = 100 /\ r.error = "none"
  /\ r.status = "FAILED"    => r.error # "none"

\* What update_progress has read is what it writes over.
ReportInv ==
  /\ \A j \in Jobs : RowReport(jobs[j])
  /\ \A w \in Workers : pc[w] = "flush" => loaded[w] = jobs[job[w]]

-----------------------------------------------------------------------------
(* A completed job has its document, whoever is late *)

LEMMA InitOutcomeInv == Init => OutcomeInv
BY DEF Init, OutcomeInv, Running, InWorkflow

\* A step of one worker that leaves the others, and the documents, alone.
LEMMA OutcomeKept ==
  ASSUME OutcomeInv, NEW w \in Workers,
         \A v \in Workers : v # w => /\ pc'[v] = pc[v] /\ outcome'[v] = outcome[v]
                                     /\ node'[v] = node[v] /\ job'[v] = job[v],
         \A j : exports'[j] > 0 \/ exports'[j] = exports[j],
         ~Running(w)' => outcome'[w] = "RUNNING" /\ node'[w] = "preprocess",
         pc'[w] \in InWorkflow /\ node'[w] # "cleanup" => outcome'[w] = "RUNNING",
         outcome'[w] = "DONE" => exports'[job'[w]] > 0
  PROVE  OutcomeInv'
BY DEF OutcomeInv, Running

LEMMA NextOutcomeInv == TypeOK /\ OutcomeInv /\ [Next]_vars => OutcomeInv'
<1> SUFFICES ASSUME TypeOK, OutcomeInv, [Next]_vars PROVE OutcomeInv'
  OBVIOUS
<1> USE DEF queueVars, workerVars
<1>0. ASSUME UNCHANGED <<pc, outcome, node, job, exports>> PROVE OutcomeInv'
  BY <1>0 DEF OutcomeInv, Running
<1>1. ASSUME NEW c \in Clients, ClientStep(c) PROVE OutcomeInv'
  BY <1>1, <1>0 DEF ClientStep, FindActive, InsertJob, InsertRejected
<1>2. ASSUME NEW w \in Workers, WorkerStep(w) PROVE OutcomeInv'
  <2>1. CASE Poll(w)
    BY <2>1, OutcomeKept DEF Poll, OutcomeInv, TypeOK, Running, InWorkflow
  <2>2. CASE PollEmpty(w)
    BY <2>2, <1>0 DEF PollEmpty, vars
  <2>3. CASE PollCommit(w)
    BY <2>3, OutcomeKept DEF PollCommit, AfterCommit, OutcomeInv, TypeOK, Running, InWorkflow
  <2>4. CASE LoadProgress(w)
    BY <2>4, OutcomeKept DEF LoadProgress, OutcomeInv, TypeOK, Running, InWorkflow
  <2>5. CASE FlushProgress(w)
    BY <2>5, OutcomeKept DEF FlushProgress, OutcomeInv, TypeOK, Running, InWorkflow
  <2>6. CASE NodeSucceeds(w)
    <3>1. CASE node[w] = "export"
      <4>1. /\ job[w] \in Jobs /\ exports[job[w]] \in Nat /\ job' = job
            /\ exports' = [exports EXCEPT ![job[w]] = @ + 1]
        BY <2>6, <3>1 DEF NodeSucceeds, TypeOK, Running, InWorkflow
      <4>2. \A j : exports'[j] > 0 \/ exports'[j] = exports[j]
        BY <4>1 DEF TypeOK
      <4>3. exports'[job'[w]] > 0
        BY <4>1 DEF TypeOK
      <4>4. node'[w] = "cleanup" /\ pc'[w] = "load"
        BY <2>6, <3>1 DEF NodeSucceeds, Enter, NextNode, TypeOK
      <4> QED BY <2>6, <4>2, <4>3, <4>4, OutcomeKept
              DEF NodeSucceeds, Enter, TypeOK, Running, InWorkflow
    <3>2. CASE node[w] # "export"
      BY <2>6, <3>2, OutcomeKept
         DEF NodeSucceeds, Enter, NextNode, OutcomeInv, TypeOK, Running, InWorkflow
    <3> QED BY <3>1, <3>2
  <2>7. CASE NodeFails(w)
    BY <2>7, OutcomeKept DEF NodeFails, Enter, OutcomeInv, TypeOK, Running, InWorkflow
  <2>8. CASE CleanupEnds(w)
    BY <2>8, OutcomeKept DEF CleanupEnds, OutcomeInv, TypeOK, Running, InWorkflow
  <2>9. CASE WorkflowRaises(w)
    BY <2>9, OutcomeKept DEF WorkflowRaises, OutcomeInv, TypeOK, Running, InWorkflow
  <2>10. CASE LoadFinish(w)
    BY <2>10, OutcomeKept DEF LoadFinish, OutcomeInv, TypeOK, Running, InWorkflow
  <2>11. CASE FlushFinish(w)
    BY <2>11, OutcomeKept DEF FlushFinish, Leave, OutcomeInv, TypeOK, Running, InWorkflow
  <2> QED BY <1>2, <2>1, <2>2, <2>3, <2>4, <2>5, <2>6, <2>7, <2>8, <2>9, <2>10, <2>11
          DEF WorkerStep
<1>3. ASSUME NEW w \in Workers, WorkerFault(w) PROVE OutcomeInv'
  <2>1. CASE ProgressLost(w)
    BY <2>1, OutcomeKept DEF ProgressLost, DbError, OutcomeInv, TypeOK, Running, InWorkflow
  <2>2. CASE PollAbort(w) \/ FinishLost(w) \/ Crash(w)
    BY <2>2, OutcomeKept
       DEF PollAbort, FinishLost, Crash, DbError, Leave, OutcomeInv, TypeOK, Running, InWorkflow
  <2> QED BY <1>3, <2>1, <2>2 DEF WorkerFault
<1>4. ASSUME NEW w \in Workers, TouchHeartbeat(w) PROVE OutcomeInv'
  BY <1>4, <1>0 DEF TouchHeartbeat
<1>5. ASSUME NEW w \in Workers, Restart(w) PROVE OutcomeInv'
  BY <1>5, OutcomeKept DEF Restart, OutcomeInv, TypeOK, Running, InWorkflow
<1>6. ASSUME NEW j \in Jobs, HeartbeatExpires(j) \/ WorkerPauses(j) PROVE OutcomeInv'
  BY <1>6, <1>0 DEF HeartbeatExpires, WorkerPauses
<1>7. CASE UNCHANGED vars
  BY <1>7, <1>0 DEF vars
<1> QED BY <1>1, <1>2, <1>3, <1>4, <1>5, <1>6, <1>7 DEF Next

-----------------------------------------------------------------------------
(* What a step may make of a row *)

Inserted(j) == jobs[j].status = "ABSENT" /\ \E k \in Keys : jobs'[j] = NewRow(k)

Stale(j) == jobs[j].status = "PROCESSING" /\ jobs[j].heartbeat = "stale"

Requeued(j) == Stale(j) /\ jobs'[j] = Recovered(jobs[j])

Taken(j) ==
  \/ jobs[j].status = "PENDING" /\ jobs'[j] = Claimed(jobs[j])
  \/ /\ Stale(j) /\ jobs[j].retry < MaxRetry
     /\ jobs'[j] = Claimed(Recovered(jobs[j]))

ProgressWritten(j) ==
  \E w \in Workers : /\ FlushProgress(w) /\ job[w] = j
                     /\ jobs'[j] = Reported(jobs[j], loaded[w], NodeProgress(node[w]))

ResultWritten(j) ==
  \E w \in Workers : /\ FlushFinish(w) /\ job[w] = j
                     /\ jobs'[j] = Finished(w, jobs[j])

HeartbeatWritten(j) ==
  /\ jobs[j].status = "PROCESSING"
  /\ \/ jobs[j].heartbeat = "stale" /\ jobs'[j] = [jobs[j] EXCEPT !.heartbeat = "fresh"]
     \/ /\ HeartbeatExpires(j) \/ WorkerPauses(j)
        /\ jobs'[j] = [jobs[j] EXCEPT !.heartbeat = "stale"]

Kept(j) == jobs'[j] = jobs[j]

Written(j) ==
  \/ Inserted(j) \/ Requeued(j) \/ Taken(j) \/ ProgressWritten(j) \/ ResultWritten(j)
  \/ HeartbeatWritten(j) \/ Kept(j)

LEMMA PollWrites ==
  ASSUME TypeOK, LockInv, NEW w \in Workers, PollCommit(w), NEW j \in Jobs
  PROVE  Requeued(j) \/ Taken(j) \/ Kept(j)
<1>1. Selected(w)
  BY DEF PollCommit, LockInv
<1>2. jobs'[j] = AfterPoll(w, j)
  BY DEF PollCommit
<1> QED BY <1>1, <1>2 DEF AfterPoll, Selected, Requeued, Stale, Taken, Kept, Jobs, NoJob

LEMMA RowWritten ==
  ASSUME TypeOK, LockInv, [Next]_vars, NEW j \in Jobs
  PROVE  Written(j)
<1> USE DEF queueVars, workerVars
<1>0. ASSUME jobs' = jobs PROVE Written(j)
  BY <1>0 DEF Written, Kept
<1>1. ASSUME NEW i \in Jobs, NEW r, jobs' = [jobs EXCEPT ![i] = r]
      PROVE  IF i = j THEN jobs'[j] = r ELSE Written(j)
  BY <1>1 DEF TypeOK, Written, Kept
<1>2. \A w \in Workers : Running(w) => job[w] \in Jobs
  BY DEF TypeOK
<1>3. ASSUME NEW c \in Clients, ClientStep(c) PROVE Written(j)
  <2>1. CASE InsertJob(c)
    <3>1. PICK i \in NextJob : jobs' = [jobs EXCEPT ![i] = NewRow(check[c])]
      BY <2>1 DEF InsertJob
    <3>2. i \in Jobs /\ jobs[i].status = "ABSENT" /\ check[c] \in Keys
      BY <2>1 DEF InsertJob, NextJob, TypeOK
    <3> QED BY <3>1, <3>2, <1>1 DEF Written, Inserted
  <2>2. CASE ~InsertJob(c)
    BY <1>3, <2>2, <1>0 DEF ClientStep, FindActive, InsertRejected
  <2> QED BY <2>1, <2>2
<1>4. ASSUME NEW w \in Workers, WorkerStep(w) PROVE Written(j)
  <2>1. CASE PollCommit(w)
    BY <2>1, PollWrites DEF Written
  <2>2. CASE FlushProgress(w)
    BY <2>2, <1>1, <1>2 DEF FlushProgress, Running, InWorkflow, Written, ProgressWritten
  <2>3. CASE FlushFinish(w)
    BY <2>3, <1>1, <1>2 DEF FlushFinish, Running, InWorkflow, Written, ResultWritten
  <2>4. CASE ~PollCommit(w) /\ ~FlushProgress(w) /\ ~FlushFinish(w)
    BY <1>4, <2>4, <1>0 DEF WorkerStep, Poll, PollEmpty, vars, LoadProgress, NodeSucceeds,
                            NodeFails, CleanupEnds, WorkflowRaises, LoadFinish
  <2> QED BY <2>1, <2>2, <2>3, <2>4
<1>5. ASSUME NEW w \in Workers, WorkerFault(w) \/ Restart(w) PROVE Written(j)
  BY <1>5, <1>0 DEF WorkerFault, PollAbort, ProgressLost, FinishLost, Crash, Restart
<1>6. ASSUME NEW w \in Workers, TouchHeartbeat(w) PROVE Written(j)
  BY <1>6, <1>1, <1>2 DEF TouchHeartbeat, Running, Written, HeartbeatWritten
<1>7. ASSUME NEW i \in Jobs, HeartbeatExpires(i) \/ WorkerPauses(i) PROVE Written(j)
  BY <1>7, <1>1 DEF HeartbeatExpires, WorkerPauses, Written, HeartbeatWritten
<1>8. CASE UNCHANGED vars
  BY <1>8, <1>0 DEF vars
<1> QED BY <1>3, <1>4, <1>5, <1>6, <1>7, <1>8 DEF Next

\* A row in progress carries a heartbeat, whatever is late, lost or refused: no job
\* is out of reach of recover_stale_jobs.
THEOREM JobsAreRecoverable == Spec => []Recoverable
<1> DEFINE IInv == TypeOK /\ LockInv /\ Recoverable
<1>1. Init => IInv
  BY InitTypeOK, InitLockInv DEF Init, Recoverable, NoRow
<1>2. ASSUME IInv, [Next]_vars PROVE Recoverable'
  <2> SUFFICES ASSUME NEW j \in Jobs, jobs'[j].status = "PROCESSING"
               PROVE  jobs'[j].heartbeat # "none"
    BY DEF Recoverable
  <2>1. jobs[j] \in Row /\ RowRecoverable(jobs[j])
    BY <1>2 DEF TypeOK, Recoverable, RowRecoverable
  <2>2. CASE Inserted(j)
    BY <2>2 DEF Inserted, NewRow
  <2>3. CASE Requeued(j)
    BY <2>1, <2>3 DEF Requeued, Stale, Recovered, Row
  <2>4. CASE Taken(j)
    BY <2>1, <2>4, PollTypes DEF Taken, Stale, Claimed, Row
  <2>5. CASE ProgressWritten(j)
    BY <2>1, <2>5 DEF ProgressWritten, Reported, Row
  <2>6. CASE ResultWritten(j)
    BY <2>1, <2>6 DEF ResultWritten, Finished, Succeeded, Failed, Row
  <2>7. CASE HeartbeatWritten(j)
    BY <2>1, <2>7 DEF HeartbeatWritten, Row
  <2>8. CASE Kept(j)
    BY <2>1, <2>8 DEF Kept, RowRecoverable
  <2> QED BY <1>2, <2>2, <2>3, <2>4, <2>5, <2>6, <2>7, <2>8, RowWritten DEF Written
<1>3. IInv /\ [Next]_vars => IInv'
  BY <1>2, NextTypeOK, NextLockInv
<1> QED BY <1>1, <1>3, PTL DEF Spec

-----------------------------------------------------------------------------
(* Documents, whoever is late *)

\* Only the export node of a worker commits a document.
Exports(w) == pc[w] = "body" /\ node[w] = "export" /\ exports' = [exports EXCEPT ![job[w]] = @ + 1]

LEMMA ExportsGrow ==
  ASSUME TypeOK, [Next]_vars
  PROVE  \/ exports' = exports
         \/ \E w \in Workers : NodeSucceeds(w) /\ Exports(w)
<1> USE DEF queueVars
<1>1. ASSUME NEW w \in Workers, WorkerStep(w), exports' # exports
      PROVE  NodeSucceeds(w) /\ Exports(w)
  BY <1>1 DEF WorkerStep, Poll, PollEmpty, PollCommit, vars, LoadProgress, FlushProgress,
              NodeSucceeds, NodeFails, CleanupEnds, WorkflowRaises, LoadFinish, FlushFinish,
              Exports
<1>2. ASSUME NEW w \in Workers, WorkerFault(w) \/ TouchHeartbeat(w) \/ Restart(w)
      PROVE  exports' = exports
  BY <1>2 DEF WorkerFault, PollAbort, ProgressLost, FinishLost, Crash, TouchHeartbeat, Restart
<1>3. ASSUME NEW c \in Clients, ClientStep(c) PROVE exports' = exports
  BY <1>3 DEF ClientStep, FindActive, InsertJob, InsertRejected
<1>4. ASSUME NEW j \in Jobs, HeartbeatExpires(j) \/ WorkerPauses(j) PROVE exports' = exports
  BY <1>4 DEF HeartbeatExpires, WorkerPauses
<1> QED BY <1>1, <1>2, <1>3, <1>4 DEF Next, vars

LEMMA DocumentsStay ==
  ASSUME TypeOK, [Next]_vars, NEW j \in Jobs
  PROVE  exports'[j] >= exports[j] /\ exports'[j] \in Nat
<1>1. exports[j] \in Nat
  BY DEF TypeOK
<1>2. CASE exports' = exports
  BY <1>1, <1>2
<1>3. ASSUME NEW w \in Workers, Exports(w) PROVE exports'[j] >= exports[j] /\ exports'[j] \in Nat
  BY <1>1, <1>3 DEF Exports, TypeOK
<1> QED BY <1>2, <1>3, ExportsGrow

\* A job that is reported as completed has its document, even when its worker was
\* declared dead and another one ran the job again.
THEOREM CompletedJobsHaveDocuments == Spec => []CompletedHasDocument
<1> DEFINE IInv == TypeOK /\ LockInv /\ OutcomeInv /\ CompletedHasDocument
<1>1. Init => IInv
  BY InitTypeOK, InitLockInv, InitOutcomeInv DEF Init, CompletedHasDocument, NoRow
<1>2. ASSUME IInv, [Next]_vars PROVE CompletedHasDocument'
  <2> SUFFICES ASSUME NEW j \in Jobs, jobs'[j].status = "COMPLETED"
               PROVE  exports'[j] > 0
    BY DEF CompletedHasDocument
  <2>1. jobs[j] \in Row /\ exports[j] \in Nat
    BY <1>2 DEF TypeOK
  <2>2. exports[j] > 0 => exports'[j] > 0
    BY <1>2, <2>1, DocumentsStay
  <2>3. CASE Inserted(j)
    BY <2>3 DEF Inserted, NewRow
  <2>4. ~Requeued(j)
    BY <2>1 DEF Requeued, Stale, Recovered, Row
  <2>5. ~Taken(j)
    BY <2>1, PollTypes DEF Taken, Stale, Claimed, Row
  <2>6. CASE ProgressWritten(j)
    <3>1. jobs[j].status = "COMPLETED"
      BY <2>1, <2>6 DEF ProgressWritten, Reported, Row, Column
    <3> QED BY <1>2, <2>2, <3>1 DEF CompletedHasDocument
  <2>7. CASE ResultWritten(j)
    <3>1. PICK w \in Workers : job[w] = j /\ jobs'[j] = Finished(w, jobs[j])
      BY <2>7 DEF ResultWritten
    <3>2. CASE outcome[w] = "DONE"
      BY <1>2, <2>2, <3>1, <3>2 DEF OutcomeInv
    <3>3. CASE outcome[w] # "DONE"
      <4>1. jobs[j].status = "COMPLETED"
        BY <2>1, <3>1, <3>3 DEF Finished, Failed, Row, Column
      <4> QED BY <1>2, <2>2, <4>1 DEF CompletedHasDocument
    <3> QED BY <3>2, <3>3
  <2>8. CASE HeartbeatWritten(j)
    <3>1. jobs[j].status = "COMPLETED"
      BY <2>1, <2>8 DEF HeartbeatWritten, Row
    <3> QED BY <1>2, <2>2, <3>1 DEF CompletedHasDocument
  <2>9. CASE Kept(j)
    BY <1>2, <2>2, <2>9 DEF Kept, CompletedHasDocument
  <2> QED BY <1>2, <2>3, <2>4, <2>5, <2>6, <2>7, <2>8, <2>9, RowWritten DEF Written
<1>3. IInv /\ [Next]_vars => IInv'
  BY <1>2, NextTypeOK, NextLockInv, NextOutcomeInv
<1> QED BY <1>1, <1>3, PTL DEF Spec

LEMMA InitDocumentInv == Init => DocumentInv
<1> SUFFICES ASSUME Init, NEW j \in Jobs PROVE exports[j] + Cardinality(Exporters(j)) <= claims[j]
  BY DEF DocumentInv
<1>1. Exporters(j) = {}
  BY DEF Init, Exporters, Running, InWorkflow
<1> QED BY <1>1, FS_EmptySet DEF Init

\* A step that neither claims nor exports, and makes nobody an exporter.
LEMMA DocumentKept ==
  ASSUME IsFiniteSet(Workers), TypeOK, DocumentInv, exports' = exports, claims' = claims,
         \A v \in Workers : Running(v)' /\ outcome'[v] = "RUNNING" =>
           Running(v) /\ outcome[v] = "RUNNING" /\ job'[v] = job[v]
  PROVE  DocumentInv'
<1> SUFFICES ASSUME NEW j \in Jobs
             PROVE  exports[j] + Cardinality(Exporters(j)') <= claims[j]
  BY DEF DocumentInv
<1>1. Exporters(j)' \subseteq Exporters(j) /\ Exporters(j) \subseteq Workers
  BY DEF Exporters
<1>2. IsFiniteSet(Exporters(j))
  BY <1>1, FS_Subset
<1>3. /\ Cardinality(Exporters(j)) \in Nat /\ Cardinality(Exporters(j)') \in Nat
      /\ Cardinality(Exporters(j)') <= Cardinality(Exporters(j))
  BY <1>1, <1>2, FS_Subset, FS_CardinalityType
<1>4. exports[j] + Cardinality(Exporters(j)) <= claims[j] /\ exports[j] \in Nat /\ claims[j] \in Nat
  BY DEF DocumentInv, TypeOK
<1> QED BY <1>3, <1>4

\* A claim makes its worker an exporter, and pays for it.
LEMMA PollCommitDocuments ==
  ASSUME IsFiniteSet(Workers), TypeOK, DocumentInv, NEW w \in Workers, PollCommit(w)
  PROVE  DocumentInv'
<1> SUFFICES ASSUME NEW j \in Jobs
             PROVE  exports'[j] + Cardinality(Exporters(j)') <= claims'[j]
  BY DEF DocumentInv
<1>1. /\ exports[j] + Cardinality(Exporters(j)) <= claims[j] /\ exports' = exports
      /\ claims'[j] = IF j = job[w] THEN claims[j] + 1 ELSE claims[j]
      /\ exports[j] \in Nat /\ claims[j] \in Nat
  BY DEF PollCommit, DocumentInv, TypeOK
<1>2. \A v \in Workers : v # w => pc'[v] = pc[v]
  BY DEF PollCommit, TypeOK
<1>3. Exporters(j) \subseteq Workers
  BY DEF Exporters
<1>4. IsFiniteSet(Exporters(j)) /\ Cardinality(Exporters(j)) \in Nat
  BY <1>3, FS_Subset, FS_CardinalityType
<1>5. CASE j = job[w]
  <2>1. Exporters(j)' \subseteq Exporters(j) \cup {w}
    BY <1>2 DEF PollCommit, Exporters, Running
  <2>2. /\ IsFiniteSet(Exporters(j) \cup {w})
        /\ Cardinality(Exporters(j) \cup {w}) \in Nat
        /\ Cardinality(Exporters(j) \cup {w}) <= Cardinality(Exporters(j)) + 1
    <3>1. /\ IsFiniteSet(Exporters(j) \cup {w})
          /\ Cardinality(Exporters(j) \cup {w}) =
               IF w \in Exporters(j) THEN Cardinality(Exporters(j))
               ELSE Cardinality(Exporters(j)) + 1
      BY <1>4, FS_AddElement
    <3> QED BY <1>4, <3>1
  <2>3. /\ Cardinality(Exporters(j)') \in Nat
        /\ Cardinality(Exporters(j)') <= Cardinality(Exporters(j) \cup {w})
    BY <2>1, <2>2, FS_Subset, FS_CardinalityType
  <2> QED BY <1>1, <1>4, <1>5, <2>2, <2>3
<1>6. CASE j # job[w]
  <2>1. Exporters(j)' \subseteq Exporters(j)
    BY <1>2, <1>6 DEF PollCommit, Exporters, Running
  <2>2. /\ Cardinality(Exporters(j)') \in Nat
        /\ Cardinality(Exporters(j)') <= Cardinality(Exporters(j))
    BY <1>4, <2>1, FS_Subset, FS_CardinalityType
  <2> QED BY <1>1, <1>4, <1>6, <2>2
<1> QED BY <1>5, <1>6

\* An export spends what its worker was still owed.
LEMMA ExportDocuments ==
  ASSUME IsFiniteSet(Workers), TypeOK, OutcomeInv, DocumentInv,
         NEW w \in Workers, NodeSucceeds(w), Exports(w)
  PROVE  DocumentInv'
<1> SUFFICES ASSUME NEW j \in Jobs
             PROVE  exports'[j] + Cardinality(Exporters(j)') <= claims'[j]
  BY DEF DocumentInv
<1>1. /\ exports[j] + Cardinality(Exporters(j)) <= claims[j] /\ claims' = claims
      /\ exports'[j] = IF j = job[w] THEN exports[j] + 1 ELSE exports[j]
      /\ exports[j] \in Nat /\ claims[j] \in Nat
  BY DEF NodeSucceeds, Exports, DocumentInv, TypeOK
<1>2. Running(w) /\ outcome[w] = "RUNNING" /\ outcome'[w] = "DONE" /\ job' = job
  BY DEF NodeSucceeds, Exports, OutcomeInv, TypeOK, Running, InWorkflow
<1>3. \A v \in Workers : v # w => outcome'[v] = outcome[v] /\ pc'[v] = pc[v]
  BY DEF NodeSucceeds, Enter, Exports, TypeOK
<1>4. /\ Exporters(j)' \subseteq Exporters(j) \ {w} /\ Exporters(j) \subseteq Workers
      /\ j = job[w] => w \in Exporters(j)
  BY <1>2, <1>3 DEF Exporters, Running
<1>5. IsFiniteSet(Exporters(j)) /\ Cardinality(Exporters(j)) \in Nat
  BY <1>4, FS_Subset, FS_CardinalityType
<1>6. /\ IsFiniteSet(Exporters(j) \ {w})
      /\ Cardinality(Exporters(j) \ {w}) \in Nat
      /\ Cardinality(Exporters(j) \ {w}) =
           IF w \in Exporters(j) THEN Cardinality(Exporters(j)) - 1
           ELSE Cardinality(Exporters(j))
  BY <1>5, FS_RemoveElement, FS_CardinalityType
<1>7. /\ Cardinality(Exporters(j)') \in Nat
      /\ Cardinality(Exporters(j)') <= Cardinality(Exporters(j) \ {w})
  BY <1>4, <1>6, FS_Subset, FS_CardinalityType
<1> QED BY <1>1, <1>4, <1>5, <1>6, <1>7

LEMMA NextDocumentInv ==
  ASSUME IsFiniteSet(Workers)
  PROVE  TypeOK /\ OutcomeInv /\ DocumentInv /\ [Next]_vars => DocumentInv'
<1> SUFFICES ASSUME TypeOK, OutcomeInv, DocumentInv, [Next]_vars PROVE DocumentInv'
  OBVIOUS
<1> USE DEF queueVars, workerVars
<1>0. ASSUME UNCHANGED <<pc, outcome, job, exports, claims>> PROVE DocumentInv'
  BY <1>0, DocumentKept DEF Running
<1>1. ASSUME NEW c \in Clients, ClientStep(c) PROVE DocumentInv'
  BY <1>1, <1>0 DEF ClientStep, FindActive, InsertJob, InsertRejected
<1>2. ASSUME NEW w \in Workers, WorkerStep(w) PROVE DocumentInv'
  <2>1. CASE Poll(w)
    BY <2>1, DocumentKept DEF Poll, TypeOK, Running, InWorkflow
  <2>2. CASE PollEmpty(w)
    BY <2>2, <1>0 DEF PollEmpty, vars
  <2>3. CASE PollCommit(w)
    BY <2>3, PollCommitDocuments
  <2>4. CASE LoadProgress(w)
    BY <2>4, DocumentKept DEF LoadProgress, TypeOK, Running, InWorkflow
  <2>5. CASE FlushProgress(w)
    BY <2>5, DocumentKept DEF FlushProgress, TypeOK, Running, InWorkflow
  <2>6. CASE NodeSucceeds(w)
    <3>1. CASE node[w] = "export"
      <4>1. Exports(w)
        BY <2>6, <3>1 DEF NodeSucceeds, Exports
      <4> QED BY <2>6, <4>1, ExportDocuments
    <3>2. CASE node[w] # "export"
      BY <2>6, <3>2, DocumentKept DEF NodeSucceeds, Enter, TypeOK, Running, InWorkflow
    <3> QED BY <3>1, <3>2
  <2>7. CASE NodeFails(w)
    BY <2>7, DocumentKept DEF NodeFails, Enter, TypeOK, Running, InWorkflow
  <2>8. CASE CleanupEnds(w)
    BY <2>8, DocumentKept DEF CleanupEnds, TypeOK, Running, InWorkflow
  <2>9. CASE WorkflowRaises(w)
    BY <2>9, DocumentKept DEF WorkflowRaises, TypeOK, Running, InWorkflow
  <2>10. CASE LoadFinish(w)
    BY <2>10, DocumentKept DEF LoadFinish, TypeOK, Running, InWorkflow
  <2>11. CASE FlushFinish(w)
    BY <2>11, DocumentKept DEF FlushFinish, Leave, TypeOK, Running, InWorkflow
  <2> QED BY <1>2, <2>1, <2>2, <2>3, <2>4, <2>5, <2>6, <2>7, <2>8, <2>9, <2>10, <2>11
          DEF WorkerStep
<1>3. ASSUME NEW w \in Workers, WorkerFault(w) PROVE DocumentInv'
  <2>1. CASE ProgressLost(w)
    BY <2>1, DocumentKept DEF ProgressLost, TypeOK, Running, InWorkflow
  <2>2. CASE PollAbort(w) \/ FinishLost(w) \/ Crash(w)
    BY <2>2, DocumentKept
       DEF PollAbort, FinishLost, Crash, Leave, TypeOK, Running, InWorkflow
  <2> QED BY <1>3, <2>1, <2>2 DEF WorkerFault
<1>4. ASSUME NEW w \in Workers, TouchHeartbeat(w) PROVE DocumentInv'
  BY <1>4, <1>0 DEF TouchHeartbeat
<1>5. ASSUME NEW w \in Workers, Restart(w) PROVE DocumentInv'
  BY <1>5, DocumentKept DEF Restart, TypeOK, Running, InWorkflow
<1>6. ASSUME NEW j \in Jobs, HeartbeatExpires(j) \/ WorkerPauses(j) PROVE DocumentInv'
  BY <1>6, <1>0 DEF HeartbeatExpires, WorkerPauses
<1>7. CASE UNCHANGED vars
  BY <1>7, <1>0 DEF vars
<1> QED BY <1>1, <1>2, <1>3, <1>4, <1>5, <1>6, <1>7 DEF Next

\* However often a job is rerun, and even while several workers run it, every
\* attempt commits at most one document.
THEOREM AttemptsCommitOneDocument ==
  ASSUME IsFiniteSet(Workers) PROVE Spec => []OneDocumentPerAttempt
<1> DEFINE IInv == TypeOK /\ OutcomeInv /\ DocumentInv
<1>1. Init => IInv
  BY InitTypeOK, InitOutcomeInv, InitDocumentInv
<1>2. IInv /\ [Next]_vars => IInv'
  BY NextTypeOK, NextOutcomeInv, NextDocumentInv
<1>3. ASSUME IInv PROVE OneDocumentPerAttempt
  <2> SUFFICES ASSUME NEW j \in Jobs PROVE exports[j] <= claims[j]
    BY DEF OneDocumentPerAttempt
  <2>1. Exporters(j) \subseteq Workers
    BY DEF Exporters
  <2>2. Cardinality(Exporters(j)) \in Nat
    BY <2>1, FS_Subset, FS_CardinalityType
  <2> QED BY <1>3, <2>2 DEF TypeOK, DocumentInv
<1> QED BY <1>1, <1>2, <1>3, PTL DEF Spec

-----------------------------------------------------------------------------
(* Results and progress, as long as no living worker is late *)

\* The writes of a worker that has read what it writes over.
LEMMA WritesReport ==
  ASSUME NEW r \in Row, r.status = "PROCESSING"
  PROVE  /\ \A p \in 0 .. 100 : /\ Reported(r, r, p).status = "PROCESSING"
                                /\ Reported(r, r, p).progress >= r.progress
         /\ /\ Succeeded(r, r).status = "COMPLETED" /\ Succeeded(r, r).error = "none"
            /\ Succeeded(r, r).progress = 100
         /\ /\ Failed(r, r).status = "FAILED" /\ Failed(r, r).error # "none"
            /\ Failed(r, r).progress = r.progress
<1>1. ASSUME NEW p \in 0 .. 100
      PROVE  Reported(r, r, p).status = "PROCESSING" /\ Reported(r, r, p).progress >= r.progress
  <2> DEFINE q == IF p > r.progress THEN p ELSE r.progress
  <2>1. q >= r.progress /\ q \in 0 .. 100
    BY DEF Row
  <2>2. Column(r.progress, q, r.progress) = q
    BY DEF Column
  <2>3. Reported(r, r, p).progress = q /\ Reported(r, r, p).status = "PROCESSING"
    BY <2>2 DEF Reported, Row, Column
  <2> QED BY <2>1, <2>3
<1>2. /\ Succeeded(r, r).status = "COMPLETED" /\ Succeeded(r, r).error = "none"
      /\ Succeeded(r, r).progress = 100
  BY DEF Succeeded, Column, Row
<1>3. /\ Failed(r, r).status = "FAILED" /\ Failed(r, r).error # "none"
      /\ Failed(r, r).progress = r.progress
  BY DEF Failed, Column, Row
<1> QED BY <1>1, <1>2, <1>3

\* What a worker that runs a job writes to its row, under its lease.
LEMMA TimelyWrites ==
  ASSUME TimelyInv, ReportInv, NEW j \in Jobs
  PROVE  /\ ProgressWritten(j) => \E p \in 0 .. 100 : /\ jobs[j].status = "PROCESSING"
                                                      /\ jobs'[j] = Reported(jobs[j], jobs[j], p)
         /\ ResultWritten(j) => /\ jobs[j].status = "PROCESSING"
                                /\ \/ jobs'[j] = Failed(jobs[j], jobs[j])
                                   \/ \E w \in Workers : /\ Running(w) /\ outcome[w] = "DONE"
                                                         /\ job[w] = j
                                                         /\ jobs'[j] = Succeeded(jobs[j], jobs[j])
<1>1. ASSUME ProgressWritten(j)
      PROVE  \E p \in 0 .. 100 : /\ jobs[j].status = "PROCESSING"
                                 /\ jobs'[j] = Reported(jobs[j], jobs[j], p)
  <2>1. PICK w \in Workers : /\ pc[w] = "flush" /\ job[w] = j
                             /\ jobs'[j] = Reported(jobs[j], loaded[w], NodeProgress(node[w]))
    BY <1>1 DEF ProgressWritten, FlushProgress
  <2>2. NodeProgress(node[w]) \in 0 .. 100
    BY NodeProgressType DEF TimelyInv, TypeOK
  <2> QED BY <2>1, <2>2 DEF ReportInv, TimelyInv, LeaseInv, LeaseHeld, Running, InWorkflow
<1>2. ASSUME ResultWritten(j)
      PROVE  /\ jobs[j].status = "PROCESSING"
             /\ \/ jobs'[j] = Failed(jobs[j], jobs[j])
                \/ \E w \in Workers : /\ Running(w) /\ outcome[w] = "DONE" /\ job[w] = j
                                      /\ jobs'[j] = Succeeded(jobs[j], jobs[j])
  BY <1>2 DEF ResultWritten, FlushFinish, Finished, TimelyInv, LeaseInv, LeaseHeld, Running
<1> QED BY <1>1, <1>2

\* Progress, heartbeats and claims never touch a result.
LEMMA TimelyReports ==
  ASSUME TimelyInv, ReportInv, [Next]_vars, NEW j \in Jobs
  PROVE  RowReport(jobs'[j])
<1>1. jobs[j] \in Row /\ RowReport(jobs[j])
  BY DEF TimelyInv, TypeOK, ReportInv
<1>2. CASE Inserted(j)
  BY <1>2 DEF Inserted, NewRow, RowReport
<1>3. CASE Requeued(j)
  BY <1>1, <1>3 DEF Requeued, Stale, Recovered, RowReport, Row
<1>4. CASE Taken(j)
  <2>1. ASSUME NEW r \in Row PROVE Claimed(r).status = "PROCESSING"
    BY <2>1 DEF Claimed, Row
  <2>2. jobs'[j].status = "PROCESSING"
    BY <1>1, <1>4, <2>1, PollTypes DEF Taken
  <2> QED BY <2>2 DEF RowReport
<1>5. CASE ProgressWritten(j)
  <2>1. PICK p \in 0 .. 100 : /\ jobs[j].status = "PROCESSING"
                              /\ jobs'[j] = Reported(jobs[j], jobs[j], p)
    BY <1>5, TimelyWrites
  <2>2. jobs'[j].status = "PROCESSING"
    BY <1>1, <2>1, WritesReport
  <2> QED BY <2>2 DEF RowReport
<1>6. CASE ResultWritten(j)
  <2>1. /\ jobs[j].status = "PROCESSING"
        /\ jobs'[j] = Failed(jobs[j], jobs[j]) \/ jobs'[j] = Succeeded(jobs[j], jobs[j])
    BY <1>6, TimelyWrites
  <2>2. CASE jobs'[j] = Failed(jobs[j], jobs[j])
    <3>1. jobs'[j].status = "FAILED" /\ jobs'[j].error # "none"
      BY <1>1, <2>1, <2>2, WritesReport
    <3> QED BY <3>1 DEF RowReport
  <2>3. CASE jobs'[j] = Succeeded(jobs[j], jobs[j])
    <3>1. jobs'[j].status = "COMPLETED" /\ jobs'[j].error = "none" /\ jobs'[j].progress = 100
      BY <1>1, <2>1, <2>3, WritesReport
    <3> QED BY <3>1 DEF RowReport
  <2> QED BY <2>1, <2>2, <2>3
<1>7. CASE HeartbeatWritten(j)
  BY <1>1, <1>7 DEF HeartbeatWritten, RowReport, Row
<1>8. CASE Kept(j)
  BY <1>1, <1>8 DEF Kept
<1> QED BY <1>2, <1>3, <1>4, <1>5, <1>6, <1>7, <1>8, RowWritten DEF Written, TimelyInv

LEMMA InitReportInv == Init => ReportInv
BY DEF Init, ReportInv, RowReport, NoRow

\* Only update_progress itself leads a worker to its flush.
LEMMA FlushReached ==
  ASSUME TypeOK, [Next]_vars, NEW w \in Workers, pc'[w] = "flush"
  PROVE  \/ pc[w] = "flush" /\ job'[w] = job[w] /\ loaded'[w] = loaded[w]
         \/ LoadProgress(w)
<1> USE DEF queueVars, workerVars
<1>1. ASSUME NEW v \in Workers, WorkerStep(v)
      PROVE  \/ pc[w] = "flush" /\ job'[w] = job[w] /\ loaded'[w] = loaded[w]
             \/ LoadProgress(w)
  BY <1>1 DEF WorkerStep, Poll, PollEmpty, PollCommit, AfterCommit, vars, LoadProgress,
              FlushProgress, NodeSucceeds, NodeFails, Enter, CleanupEnds, WorkflowRaises,
              LoadFinish, FlushFinish, Leave, TypeOK
<1>2. ASSUME NEW v \in Workers, WorkerFault(v) \/ TouchHeartbeat(v) \/ Restart(v)
      PROVE  pc[w] = "flush" /\ job'[w] = job[w] /\ loaded'[w] = loaded[w]
  BY <1>2 DEF WorkerFault, PollAbort, ProgressLost, FinishLost, Crash, Leave, TouchHeartbeat,
              Restart, TypeOK
<1>3. ASSUME NEW c \in Clients, ClientStep(c)
      PROVE  pc[w] = "flush" /\ job'[w] = job[w] /\ loaded'[w] = loaded[w]
  BY <1>3 DEF ClientStep, FindActive, InsertJob, InsertRejected
<1>4. ASSUME NEW j \in Jobs, HeartbeatExpires(j) \/ WorkerPauses(j)
      PROVE  pc[w] = "flush" /\ job'[w] = job[w] /\ loaded'[w] = loaded[w]
  BY <1>4 DEF HeartbeatExpires, WorkerPauses
<1>5. CASE UNCHANGED vars
  BY <1>5 DEF vars
<1> QED BY <1>1, <1>2, <1>3, <1>4, <1>5 DEF Next

\* The row a worker has read to report its progress is not written before it does.
LEMMA FlushKept ==
  ASSUME MaxPauses = 0, TimelyInv, ReportInv, [Next]_vars, NEW w \in Workers, pc'[w] = "flush"
  PROVE  loaded'[w] = jobs'[job'[w]]
<1>1. Running(w)' /\ pc[w] \in PCs
  BY DEF Running, InWorkflow, TimelyInv, TypeOK
<1>2. CASE pc[w] = "flush" /\ job'[w] = job[w] /\ loaded'[w] = loaded[w]
  <2>1. /\ job[w] \in Jobs /\ jobs[job[w]] \in Row /\ loaded[w] = jobs[job[w]]
        /\ jobs[job[w]].status = "PROCESSING" /\ jobs[job[w]].heartbeat = "fresh"
        /\ Attended(job[w])
    BY <1>2 DEF TimelyInv, TypeOK, ReportInv, LeaseInv, LeaseHeld, Attended, Running, InWorkflow
  <2>2. ~Inserted(job[w]) /\ ~Requeued(job[w]) /\ ~Taken(job[w])
    BY <2>1 DEF Inserted, Requeued, Taken, Stale
  <2>3. ~HeartbeatWritten(job[w])
    BY <2>1 DEF HeartbeatWritten, HeartbeatExpires, WorkerPauses, TimelyInv, TypeOK
  <2>4. ~ProgressWritten(job[w]) /\ ~ResultWritten(job[w])
    <3>1. ASSUME NEW v \in Workers, job[v] = job[w], FlushProgress(v) \/ FlushFinish(v)
          PROVE  FALSE
      <4>1. v = w
        BY <1>2, <3>1 DEF TimelyInv, LeaseInv, FlushProgress, FlushFinish, Running, InWorkflow
      <4> QED BY <1>2, <3>1, <4>1 DEF FlushProgress, FlushFinish, TimelyInv, TypeOK
    <3> QED BY <3>1 DEF ProgressWritten, ResultWritten
  <2>5. jobs'[job[w]] = jobs[job[w]]
    BY <2>1, <2>2, <2>3, <2>4, RowWritten DEF Written, Kept, TimelyInv
  <2> QED BY <1>2, <2>1, <2>5
<1>3. CASE LoadProgress(w)
  BY <1>3 DEF LoadProgress, queueVars, TimelyInv, TypeOK
<1> QED BY <1>2, <1>3, FlushReached DEF TimelyInv

\* The inductive invariant of what the queue reports.
ReportingInv == TimelyInv /\ OutcomeInv /\ ReportInv

LEMMA ReportingInvariant == ASSUME MaxPauses = 0 PROVE Spec => []ReportingInv
<1>1. Init => ReportingInv
  BY InitTypeOK, InitLockInv, InitAttemptInv, InitLeaseInv, InitKeyInv, InitOutcomeInv,
     InitReportInv DEF TimelyInv, ReportingInv
<1>2. TimelyInv /\ [Next]_vars => TimelyInv'
  BY NextTypeOK, NextLockInv, NextAttemptInv, NextLeaseInv, NextKeyInv DEF TimelyInv
<1>3. TimelyInv /\ ReportInv /\ [Next]_vars => ReportInv'
  BY TimelyReports, FlushKept DEF ReportInv
<1>4. ReportingInv /\ [Next]_vars => ReportingInv'
  BY <1>2, <1>3, NextOutcomeInv DEF ReportingInv, TimelyInv
<1> QED BY <1>1, <1>4, PTL DEF Spec

\* While no living worker is late, what the API answers about a job is coherent:
\* status, progress, error, document and key belong together.
THEOREM ReportsAreCoherent == ASSUME MaxPauses = 0 PROVE Spec => []ReportCoherent
<1>1. ReportingInv /\ CompletedHasDocument => ReportCoherent
  BY DEF ReportingInv, ReportInv, RowReport, CompletedHasDocument, TimelyInv, KeyInv, Keyed,
         ReportCoherent
<1> QED BY <1>1, ReportingInvariant, CompletedJobsHaveDocuments, PTL

\* ... a result, once reported, is never changed: every write of a worker, late or
\* not, that could reach an ended row is ruled out by its lease.
THEOREM ResultsAreFinal == ASSUME MaxPauses = 0 PROVE Spec => ResultIsFinal
<1>1. ASSUME ReportingInv, [Next]_vars, NEW j \in Jobs, jobs[j].status \in Terminal
      PROVE  jobs'[j] = jobs[j]
  <2>1. ~Inserted(j) /\ ~Requeued(j) /\ ~Taken(j) /\ ~HeartbeatWritten(j)
    BY <1>1 DEF Inserted, Requeued, Taken, Stale, HeartbeatWritten, Terminal
  <2>2. ~ProgressWritten(j) /\ ~ResultWritten(j)
    BY <1>1, TimelyWrites DEF ReportingInv, Terminal
  <2> QED BY <1>1, <2>1, <2>2, RowWritten DEF Written, Kept, ReportingInv, TimelyInv
<1>2. ReportingInv /\ [Next]_vars =>
        [\A j \in Jobs : jobs[j].status \in Terminal => jobs'[j] = jobs[j]]_vars
  BY <1>1
<1> QED BY <1>2, ReportingInvariant, PTL DEF Spec, ResultIsFinal

\* ... and the progress a client polls goes back only with a requeue that costs the
\* job a retry.
THEOREM ProgressGoesForward == ASSUME MaxPauses = 0 PROVE Spec => ProgressForward
<1>1. ASSUME ReportingInv, [Next]_vars, NEW j \in Jobs, jobs'[j].progress < jobs[j].progress
      PROVE  jobs'[j].retry = jobs[j].retry + 1
  <2>1. jobs[j] \in Row /\ RowReport(jobs[j]) /\ jobs'[j] \in Row
    BY <1>1, NextTypeOK DEF ReportingInv, TimelyInv, TypeOK, ReportInv
  <2>2. CASE Inserted(j)
    BY <1>1, <2>1, <2>2 DEF Inserted, RowReport, Row
  <2>3. CASE Requeued(j)
    BY <1>1, <2>1, <2>3 DEF Requeued, Recovered, Row
  <2>4. CASE Taken(j)
    <3>1. CASE jobs[j].status = "PENDING"
      BY <1>1, <2>1, <3>1 DEF RowReport, Row
    <3>2. CASE Stale(j) /\ jobs[j].retry < MaxRetry /\ jobs'[j] = Claimed(Recovered(jobs[j]))
      BY <2>1, <3>2 DEF Claimed, Recovered, Row
    <3> QED BY <2>4, <3>1, <3>2 DEF Taken
  <2>5. ~ProgressWritten(j) /\ ~ResultWritten(j)
    <3>0. /\ jobs'[j].progress < jobs[j].progress
          /\ jobs[j].progress \in 0 .. 100 /\ jobs'[j].progress \in 0 .. 100
      BY <1>1, <2>1 DEF Row
    <3>1. ASSUME NEW p \in 0 .. 100, jobs[j].status = "PROCESSING",
                 jobs'[j] = Reported(jobs[j], jobs[j], p)
          PROVE  FALSE
      <4>1. jobs'[j].progress >= jobs[j].progress
        BY <2>1, <3>1, WritesReport
      <4>2. ASSUME NEW m \in 0 .. 100, NEW n \in 0 .. 100, m < n, m >= n
            PROVE  FALSE
        BY <4>2
      <4> QED BY <3>0, <4>1, <4>2
    <3>2. ASSUME jobs[j].status = "PROCESSING", \/ jobs'[j] = Failed(jobs[j], jobs[j])
                                               \/ jobs'[j] = Succeeded(jobs[j], jobs[j])
          PROVE  FALSE
      <4>1. jobs'[j].progress \in {jobs[j].progress, 100}
        BY <2>1, <3>2, WritesReport
      <4> QED BY <3>0, <4>1
    <3> QED BY <1>1, <3>1, <3>2, TimelyWrites DEF ReportingInv
  <2>6. ~HeartbeatWritten(j) /\ ~Kept(j)
    BY <1>1, <2>1 DEF HeartbeatWritten, Kept, Row
  <2> QED BY <1>1, <2>2, <2>3, <2>4, <2>5, <2>6, RowWritten
          DEF Written, ReportingInv, TimelyInv
<1>2. ReportingInv /\ [Next]_vars =>
        [\A j \in Jobs : jobs'[j].progress < jobs[j].progress
                           => jobs'[j].retry = jobs[j].retry + 1]_vars
  BY <1>1
<1> QED BY <1>2, ReportingInvariant, PTL DEF Spec, ProgressForward

=============================================================================
