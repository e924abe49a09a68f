---------------------------- MODULE JobApiProofs ----------------------------
(***************************************************************************)
(* Proofs about the job endpoints, for any number of request threads, jobs *)
(* and workers and any number of failing calls.  The requests reach the    *)
(* table through the queue's statements only, so what JobQueueProofs shows *)
(* of every statement carries over; what is added here relates the table   *)
(* to the requests under way and to the audit trail.                       *)
(***************************************************************************)
EXTENDS JobApi, JobQueueProofs

CreateCalls == {"create_snapshot", "create_event", "create_row"}

(* A row carries the payload of its own job.                               *)
RowsCarryTheirJob == \A j \in Rows : payload[j] \in Payload /\ payload[j].job_id = j

(* A request that is under way carries a job.                              *)
RequestsCarryJobs == \A r \in Requests : at[r] # "free" => arg[r] \in Payload

(* A create request has its job to itself, which has no row yet and was    *)
(* not held or released; its snapshot and event were recorded in turn.     *)
CreatesAreFresh ==
  \A r \in Requests :
    at[r] \in CreateCalls =>
      /\ arg[r].status \in {"queued", "awaiting-approval"}
      /\ status[arg[r].job_id] = "absent"
      /\ \A q \in Requests :
           at[q] \in CreateCalls /\ q # r => arg[q].job_id # arg[r].job_id
      /\ at[r] # "create_snapshot" => <<arg[r].job_id, "snapshot">> \in audit
      /\ at[r] = "create_row" => <<arg[r].job_id, "job_created">> \in audit

(* How far a job has come, by the status of its row.                       *)
HistoryOfRows ==
  \A j \in Jobs :
    /\ status[j] \in {"absent", "awaiting-approval"} => attempts[j] = 0
    /\ status[j] \in {"running"} \cup TerminalStatuses => attempts[j] > 0
    /\ status[j] = "absent" => j \notin held
    /\ status[j] = "awaiting-approval" => j \in held
    /\ releases[j] = IF j \in held /\ status[j] # "awaiting-approval" THEN 1 ELSE 0

(* A request that is about to record an event has changed the row.         *)
RecordsFollowRows ==
  \A r \in Requests :
    /\ at[r] \in {"claim_record", "fail_record"} => attempts[arg[r].job_id] > 0
    /\ at[r] = "approve_record" => releases[arg[r].job_id] = 1
    /\ at[r] = "complete_record" => status[arg[r].job_id] \in TerminalStatuses

(* The inductive invariant.                                                *)
ApiInv ==
  /\ TypeOK /\ OwnershipConsistent
  /\ RowsCarryTheirJob /\ RequestsCarryJobs /\ CreatesAreFresh
  /\ HistoryOfRows /\ RecordsFollowRows
  /\ RowsAreAudited /\ TrailMatchesRows

-----------------------------------------------------------------------------
(* No rows, no requests and an empty trail satisfy the invariant.          *)
LEMMA ApiInitInv == Init => ApiInv
  <1> SUFFICES ASSUME Init PROVE ApiInv
    OBVIOUS
  <1>1. QueueInv
    BY QueueInitInv DEF Init
  <1>2. TypeOK /\ OwnershipConsistent
    BY <1>1, ApiAssumption DEF Init, QueueInv, TypeOK, Calls
  <1>3. RowsCarryTheirJob /\ RowsAreAudited
    BY DEF Init, QueueInit, RowsCarryTheirJob, RowsAreAudited, Rows
  <1>4. RequestsCarryJobs /\ CreatesAreFresh /\ RecordsFollowRows
    BY DEF Init, RequestsCarryJobs, CreatesAreFresh, RecordsFollowRows,
           CreateCalls
  <1>5. HistoryOfRows
    BY DEF Init, QueueInit, HistoryOfRows, TerminalStatuses
  <1>6. TrailMatchesRows
    BY DEF Init, QueueInit, TrailMatchesRows, EventsFollowRows, GapsAreFaults,
           Rows
  <1>7. QED
    BY <1>2, <1>3, <1>4, <1>5, <1>6 DEF ApiInv

(* A worker that the queue takes for the owner of a row is a worker: the   *)
(* endpoints pass on the worker_id they are given.                         *)
LEMMA OwnerIsWorker ==
  ASSUME QueueInv, NEW j \in Jobs, NEW w, Owned(j, w)
  PROVE  w \in Workers
  BY DEF QueueInv, QueueTypeOK, OwnershipConsistent, Owned

(* Whatever a request does to the table is one statement of the queue.     *)
LEMMA ApiStepIsQueueStep == ApiInv /\ [Next]_vars => [QueueNext]_queueVars
  <1> SUFFICES ASSUME ApiInv, [Next]_vars
               PROVE  [QueueNext]_queueVars
    OBVIOUS
  <1> QueueInv
    BY DEF ApiInv, TypeOK, QueueInv
  <1>1. ASSUME NEW r \in Requests, CreateRow(r)
        PROVE  QueueNext
    BY <1>1 DEF ApiInv, RequestsCarryJobs, CreatesAreFresh, CreateCalls,
                CreateRow, NewJob, QueueNext
  <1>2. ASSUME NEW r \in Requests, ApproveRelease(r)
        PROVE  QueueNext \/ UNCHANGED queueVars
    BY <1>2 DEF ApiInv, RequestsCarryJobs, ApproveRelease, QueueNext
  <1>3. ASSUME NEW r \in Requests, ClaimRow(r)
        PROVE  QueueNext
    BY <1>3 DEF ClaimRow, QueueNext
  <1>4. ASSUME NEW r \in Requests, CompleteRow(r)
        PROVE  QueueNext \/ UNCHANGED queueVars
    <2>1. arg[r] \in Payload /\ arg[r].job_id \in Jobs
      BY <1>4 DEF ApiInv, RequestsCarryJobs, CompleteRow, Payload
    <2>2. Complete(arg[r].job_id, caller[r], arg[r]) => caller[r] \in Workers
      BY <2>1, OwnerIsWorker DEF Complete, CompleteEnabled
    <2>3. QED
      BY <1>4, <2>1, <2>2 DEF CompleteRow, QueueNext
  <1>5. ASSUME NEW r \in Requests, FailRow(r)
        PROVE  QueueNext \/ UNCHANGED queueVars
    <2>1. arg[r] \in Payload /\ arg[r].job_id \in Jobs
      BY <1>5 DEF ApiInv, RequestsCarryJobs, FailRow, Payload
    <2>2. ASSUME NEW d \in RetryChoices,
                 Fail(arg[r].job_id, caller[r], arg[r], d)
          PROVE  caller[r] \in Workers
      BY <2>1, <2>2, OwnerIsWorker DEF Fail, FailEnabled
    <2>3. QED
      BY <1>5, <2>1, <2>2 DEF FailRow, QueueNext
  <1>6. CASE Tick
    BY <1>6 DEF Tick, QueueNext
  <1>7. ASSUME NEW r \in Requests,
               \/ CreateBegin(r) \/ CreateSnapshot(r) \/ CreateEvent(r)
               \/ ApproveGet(r) \/ ApproveRecord(r) \/ ClaimRecord(r)
               \/ \E w \in Workers : CompleteSend(r, w) \/ FailSend(r, w)
               \/ CompleteRecord(r) \/ FailRecord(r) \/ AppendEvent(r)
               \/ CallFails(r)
        PROVE  UNCHANGED queueVars
    BY <1>7 DEF CreateBegin, CreateSnapshot, CreateEvent, ApproveGet,
                ApproveRecord, ClaimRecord, CompleteSend, FailSend, Send,
                CompleteRecord, FailRecord, AppendEvent, CallFails
  <1>8. CASE UNCHANGED vars
    BY <1>8 DEF vars
  <1>9. QED
    BY <1>1, <1>2, <1>3, <1>4, <1>5, <1>6, <1>7, <1>8 DEF Next, RequestStep

(* The types of the requests, of the trail and of the histories.           *)
LEMMA ApiStepTypes == ApiInv /\ [Next]_vars => TypeOK' /\ RequestsCarryJobs'
  <1> SUFFICES ASSUME ApiInv, [Next]_vars
               PROVE  TypeOK' /\ RequestsCarryJobs'
    OBVIOUS
  <1>1. QueueTypeOK'
    BY ApiStepIsQueueStep, QueueStepInv DEF ApiInv, TypeOK, QueueInv
  <1>2. /\ at \in [Requests -> Calls] /\ arg \in [Requests -> Payload \cup {NULL}]
        /\ caller \in [Requests -> Workers \cup {NULL}]
        /\ holding \in [Workers -> Payload \cup {NULL}]
        /\ audit \subseteq Jobs \X (OwnEvents \cup CallerEvents)
        /\ held \subseteq Jobs /\ releases \in [Jobs -> Nat]
        /\ faults \in 0 .. MaxFaults
        /\ \A r \in Requests : at[r] # "free" => arg[r] \in Payload
        /\ \A p \in Payload : p.job_id \in Jobs
        /\ \A j \in Rows : payload[j] \in Payload
    BY DEF ApiInv, TypeOK, RequestsCarryJobs, RowsCarryTheirJob, Payload
  <1> DEFINE Types ==
        /\ at \in [Requests -> Calls] /\ arg \in [Requests -> Payload \cup {NULL}]
        /\ caller \in [Requests -> Workers \cup {NULL}]
        /\ holding \in [Workers -> Payload \cup {NULL}]
        /\ audit \subseteq Jobs \X (OwnEvents \cup CallerEvents)
        /\ held \subseteq Jobs /\ releases \in [Jobs -> Nat]
        /\ faults \in 0 .. MaxFaults
        /\ RequestsCarryJobs
  <1> USE <1>2, ApiAssumption DEF Calls, OwnEvents, RequestsCarryJobs, Goto, Answered, Record
  <1>3. ASSUME NEW r \in Requests, CreateBegin(r)
        PROVE  Types'
    <2>1. PICK j \in Jobs, t \in Tenants, s \in {"queued", "awaiting-approval"} :
            arg' = [arg EXCEPT ![r] = [job_id |-> j, tenant |-> t, status |-> s,
                                       work |-> NoWork]]
      BY <1>3 DEF CreateBegin
    <2>2. [job_id |-> j, tenant |-> t, status |-> s, work |-> NoWork] \in Payload
      BY DEF Payload, Statuses
    <2>3. QED
      BY <1>3, <2>1, <2>2 DEF CreateBegin
  <1>4. ASSUME NEW r \in Requests,
               CreateSnapshot(r) \/ CreateEvent(r) \/ CreateRow(r)
        PROVE  Types'
    BY <1>4 DEF CreateSnapshot, CreateEvent, CreateRow
  <1>5. ASSUME NEW r \in Requests, ApproveGet(r)
        PROVE  Types'
    <2>1. PICK j \in Rows : arg' = [arg EXCEPT ![r] = [payload[j] EXCEPT !.status = "queued"]]
      BY <1>5 DEF ApproveGet
    <2>2. [payload[j] EXCEPT !.status = "queued"] \in Payload
      BY <2>1, WithAnotherStatus DEF Statuses
    <2>3. QED
      BY <1>5, <2>1, <2>2 DEF ApproveGet
  <1>6. ASSUME NEW r \in Requests, ApproveRelease(r)
        PROVE  Types'
    BY <1>6 DEF ApproveRelease
  <1>7. ASSUME NEW r \in Requests, ClaimRow(r)
        PROVE  Types'
    <2>1. PICK j \in Jobs, w \in Workers, l \in LeaseChoices :
            /\ Claim(j, w, l)
            /\ arg' = [arg EXCEPT ![r] = payload[j]]
            /\ caller' = [caller EXCEPT ![r] = w]
      BY <1>7 DEF ClaimRow
    <2>2. j \in Rows
      BY <2>1 DEF Claim, Candidate, Claimable, Rows
    <2>3. QED
      BY <1>7, <2>1, <2>2 DEF ClaimRow
  <1>8. ASSUME NEW r \in Requests, ClaimRecord(r)
        PROVE  Types'
    BY <1>8 DEF ClaimRecord
  <1>9. ASSUME NEW r \in Requests, NEW w \in Workers,
               CompleteSend(r, w) \/ FailSend(r, w)
        PROVE  Types'
    <2>1. PICK s \in Statuses : Send(r, w, s)
      BY <1>9 DEF CompleteSend, FailSend, Statuses
    <2>2. [holding[w] EXCEPT !.status = s] \in Payload
      BY <2>1, WithAnotherStatus DEF Send
    <2>3. QED
      BY <1>9, <2>1, <2>2 DEF CompleteSend, FailSend, Send
  <1>10. ASSUME NEW r \in Requests,
                CompleteRow(r) \/ FailRow(r)
         PROVE  Types'
    BY <1>10 DEF CompleteRow, FailRow
  <1>11. ASSUME NEW r \in Requests,
                ApproveRecord(r) \/ CompleteRecord(r) \/ FailRecord(r)
         PROVE  Types'
    BY <1>11 DEF ApproveRecord, CompleteRecord, FailRecord
  <1>12. ASSUME NEW r \in Requests, AppendEvent(r) \/ CallFails(r)
         PROVE  Types'
    BY <1>12 DEF AppendEvent, CallFails, requestVars
  <1>13. ASSUME UNCHANGED <<requestVars, holding, audit, held, releases, faults>>
         PROVE  Types'
    BY <1>13 DEF requestVars
  <1> HIDE DEF Types
  <1>14. Types'
    BY <1>3, <1>4, <1>5, <1>6, <1>7, <1>8, <1>9, <1>10, <1>11, <1>12, <1>13
       DEF Next, RequestStep, Tick, vars
  <1>15. QED
    BY <1>1, <1>14 DEF TypeOK, Types

-----------------------------------------------------------------------------
(* No step takes a row away, takes a claim back, reopens a finished row or *)
(* holds a row again.                                                      *)
LEMMA RowsOnlyAdvance ==
  ASSUME ApiInv, [Next]_vars, NEW j \in Jobs
  PROVE  /\ status[j] # "absent" => status'[j] # "absent"
         /\ status[j] \notin {"absent", "awaiting-approval"} =>
              status'[j] # "awaiting-approval"
         /\ status[j] \in TerminalStatuses => status'[j] = status[j]
         /\ attempts[j] > 0 => attempts'[j] > 0
  <1> DEFINE Advances ==
        /\ status[j] # "absent" => status'[j] # "absent"
        /\ status[j] \notin {"absent", "awaiting-approval"} =>
             status'[j] # "awaiting-approval"
        /\ status[j] \in TerminalStatuses => status'[j] = status[j]
        /\ attempts[j] > 0 => attempts'[j] > 0
  <1>1. [QueueNext]_queueVars
    BY ApiStepIsQueueStep
  <1>2. /\ status \in [Jobs -> RowStatuses] /\ attempts \in [Jobs -> 0 .. MaxAttempts]
        /\ MaxAttempts \in Nat
    BY AttemptsAssumption DEF ApiInv, TypeOK, QueueTypeOK
  <1> USE <1>2 DEF TerminalStatuses
  <1>3. ASSUME NEW p \in Payload, NewJob(p), Enqueue(p)
        PROVE  Advances
    BY <1>3 DEF Enqueue, Rows, Payload
  <1>4. ASSUME NEW i \in Jobs, NEW w \in Workers, NEW l \in LeaseChoices,
               Claim(i, w, l)
        PROVE  Advances
    BY <1>4 DEF Claim, Candidate, Claimable
  <1>5. ASSUME NEW p \in Payload, ReleaseApproval(p)
        PROVE  Advances
    BY <1>5 DEF ReleaseApproval, ReleaseApprovalEnabled, Payload
  <1>6. ASSUME NEW i \in Jobs, NEW w \in Workers, NEW p \in Payload,
               Complete(i, w, p)
        PROVE  Advances
    BY <1>6 DEF Complete, CompleteEnabled, UpdateOwned, Owned
  <1>7. ASSUME NEW i \in Jobs, NEW w \in Workers, NEW p \in Payload,
               NEW r \in RetryChoices, Fail(i, w, p, r)
        PROVE  Advances
    BY <1>7 DEF Fail, UpdateOwned, Owned
  <1>8. ASSUME UNCHANGED <<status, attempts>>
        PROVE  Advances
    BY <1>8
  <1> HIDE DEF Advances
  <1>9. Advances
    BY <1>1, <1>3, <1>4, <1>5, <1>6, <1>7, <1>8
       DEF QueueNext, queueVars, RenewLease, Checkpoint, QueueTick
  <1>10. QED
    BY <1>9 DEF Advances

(* What is on record stays on record, and a fault is not forgotten.        *)
LEMMA TrailOnlyGrows ==
  ASSUME ApiInv, [Next]_vars
  PROVE  audit \subseteq audit' /\ (faults' = 0 => faults = 0)
  <1> USE DEF Record
  <1>1. faults \in Nat
    BY ApiAssumption DEF ApiInv, TypeOK
  <1>2. ASSUME NEW r \in Requests, RequestStep(r) \/ CallFails(r)
        PROVE  audit \subseteq audit' /\ (faults' = 0 => faults = 0)
    BY <1>1, <1>2
       DEF RequestStep, CreateBegin, CreateSnapshot, CreateEvent, CreateRow,
           ApproveGet, ApproveRelease, ApproveRecord, ClaimRow, ClaimRecord,
           CompleteSend, FailSend, Send, CompleteRow, CompleteRecord, FailRow,
           FailRecord, AppendEvent, CallFails
  <1>3. QED
    BY <1>2 DEF Next, Tick, vars

(* The payload a statement writes into a row is one of that row's job.     *)
LEMMA ApiStepRowsCarryTheirJob ==
  ApiInv /\ [Next]_vars => RowsCarryTheirJob'
  <1> SUFFICES ASSUME ApiInv, [Next]_vars
               PROVE  RowsCarryTheirJob'
    OBVIOUS
  <1>1. [QueueNext]_queueVars
    BY ApiStepIsQueueStep
  <1>2. /\ status \in [Jobs -> RowStatuses] /\ payload \in [Jobs -> Payload \cup {NULL}]
        /\ \A j \in Rows : payload[j] \in Payload /\ payload[j].job_id = j
    BY DEF ApiInv, TypeOK, QueueTypeOK, RowsCarryTheirJob
  <1> USE <1>2 DEF RowsCarryTheirJob, Rows
  <1>3. ASSUME NEW p \in Payload, NewJob(p), Enqueue(p)
        PROVE  RowsCarryTheirJob'
    BY <1>3 DEF Enqueue
  <1>4. ASSUME NEW i \in Jobs, NEW w \in Workers, NEW l \in LeaseChoices,
               Claim(i, w, l)
        PROVE  RowsCarryTheirJob'
    BY <1>4 DEF Claim, Candidate, Claimable
  <1>5. ASSUME NEW p \in Payload, ReleaseApproval(p)
        PROVE  RowsCarryTheirJob'
    BY <1>5 DEF ReleaseApproval, ReleaseApprovalEnabled
  <1>6. ASSUME NEW i \in Jobs, NEW w \in Workers, NEW p \in Payload,
               Complete(i, w, p) \/ Checkpoint(i, w, p)
        PROVE  RowsCarryTheirJob'
    BY <1>6 DEF Complete, CompleteEnabled, UpdateOwned, Owned, Checkpoint,
                CheckpointEnabled
  <1>7. ASSUME NEW i \in Jobs, NEW w \in Workers, NEW p \in Payload,
               NEW r \in RetryChoices, Fail(i, w, p, r)
        PROVE  RowsCarryTheirJob'
    BY <1>7 DEF Fail, FailEnabled, UpdateOwned, Owned
  <1>8. ASSUME UNCHANGED <<status, payload>>
        PROVE  RowsCarryTheirJob'
    BY <1>8
  <1> HIDE DEF RowsCarryTheirJob
  <1>9. QED
    BY <1>1, <1>3, <1>4, <1>5, <1>6, <1>7, <1>8
       DEF QueueNext, queueVars, RenewLease, QueueTick

(* Only an approve request that found the row held counts a release, and   *)
(* only a claim of a row that is not held counts an attempt.               *)
LEMMA ApiStepHistory == ApiInv /\ [Next]_vars => HistoryOfRows'
  <1> SUFFICES ASSUME ApiInv, [Next]_vars
               PROVE  HistoryOfRows'
    OBVIOUS
  <1>1. /\ status \in [Jobs -> RowStatuses] /\ attempts \in [Jobs -> 0 .. MaxAttempts]
        /\ MaxAttempts \in Nat /\ releases \in [Jobs -> Nat] /\ held \subseteq Jobs
        /\ HistoryOfRows
        /\ \A r \in Requests : at[r] # "free" => arg[r].job_id \in Jobs
    BY AttemptsAssumption
       DEF ApiInv, TypeOK, QueueTypeOK, RequestsCarryJobs, Payload
  <1> USE <1>1 DEF HistoryOfRows, TerminalStatuses
  <1>2. ASSUME NEW r \in Requests, CreateRow(r)
        PROVE  HistoryOfRows'
    <2>1. /\ arg[r].status \in {"queued", "awaiting-approval"}
          /\ status[arg[r].job_id] = "absent"
      BY <1>2 DEF CreateRow, ApiInv, CreatesAreFresh, CreateCalls
    <2>2. QED
      BY <1>2, <2>1 DEF CreateRow, Enqueue
  <1>3. ASSUME NEW r \in Requests, ApproveRelease(r)
        PROVE  HistoryOfRows'
    BY <1>3 DEF ApproveRelease, ReleaseApproval, ReleaseApprovalEnabled,
                queueVars
  <1>4. ASSUME NEW r \in Requests, ClaimRow(r)
        PROVE  HistoryOfRows'
    BY <1>4 DEF ClaimRow, Claim, Candidate, Claimable
  <1>5. ASSUME NEW r \in Requests, CompleteRow(r)
        PROVE  HistoryOfRows'
    BY <1>5 DEF CompleteRow, Complete, CompleteEnabled, UpdateOwned, Owned,
                queueVars
  <1>6. ASSUME NEW r \in Requests, FailRow(r)
        PROVE  HistoryOfRows'
    BY <1>6 DEF FailRow, Fail, UpdateOwned, Owned, queueVars
  <1>7. ASSUME UNCHANGED <<status, attempts, held, releases>>
        PROVE  HistoryOfRows'
    BY <1>7
  <1> HIDE DEF HistoryOfRows
  <1>8. QED
    BY <1>2, <1>3, <1>4, <1>5, <1>6, <1>7
       DEF Next, RequestStep, vars, queueVars, Tick, QueueTick, CreateBegin,
           CreateSnapshot, CreateEvent, ApproveGet, ApproveRecord, ClaimRecord,
           CompleteSend, FailSend, Send, CompleteRecord, FailRecord,
           AppendEvent, CallFails

(* create_job's three calls: the job it made is nobody else's until the    *)
(* row is there, and by then the snapshot and the event are on record.     *)
LEMMA ApiStepCreates == ApiInv /\ [Next]_vars => CreatesAreFresh'
  <1> SUFFICES ASSUME ApiInv, [Next]_vars
               PROVE  CreatesAreFresh'
    OBVIOUS
  <1>1. /\ at \in [Requests -> Calls] /\ arg \in [Requests -> Payload \cup {NULL}]
        /\ status \in [Jobs -> RowStatuses] /\ NULL \notin Payload
        /\ \A r \in Requests : at[r] # "free" => arg[r] \in Payload
        /\ \A p \in Payload : p.job_id \in Jobs
        /\ CreatesAreFresh
    BY PayloadAssumption
       DEF ApiInv, TypeOK, QueueTypeOK, RequestsCarryJobs, Payload
  <1>2. audit \subseteq audit'
    BY TrailOnlyGrows
  <1> USE <1>1, <1>2 DEF CreatesAreFresh, CreateCalls, Goto, Answered
  <1>3. ASSUME NEW r \in Requests, CreateBegin(r)
        PROVE  CreatesAreFresh'
    <2>1. PICK j \in Jobs \ Rows, t \in Tenants, s \in {"queued", "awaiting-approval"} :
            /\ \A q \in Requests : arg[q] # NULL => arg[q].job_id # j
            /\ <<j, "snapshot">> \notin audit
            /\ arg' = [arg EXCEPT ![r] = [job_id |-> j, tenant |-> t, status |-> s,
                                          work |-> NoWork]]
      BY <1>3, Zenon DEF CreateBegin
    <2>2. at' = [at EXCEPT ![r] = "create_snapshot"] /\ UNCHANGED status
      BY <1>3 DEF CreateBegin, queueVars
    <2>3. status[j] = "absent"
      BY <2>1 DEF Rows
    <2>4. QED
      BY <2>1, <2>2, <2>3
  <1>4. ASSUME NEW r \in Requests, CreateSnapshot(r) \/ CreateEvent(r)
        PROVE  CreatesAreFresh'
    BY <1>4 DEF CreateSnapshot, CreateEvent, Record, queueVars
  <1>5. ASSUME NEW r \in Requests, CreateRow(r)
        PROVE  CreatesAreFresh'
    BY <1>5 DEF CreateRow, Enqueue
  (* The requests that do not create: r makes no create call before or     *)
  (* after, and no row of a job that is being created changes.             *)
  <1>6. ASSUME NEW r \in Requests,
               at[r] \notin CreateCalls, at'[r] \notin CreateCalls,
               \A q \in Requests \ {r} : at'[q] = at[q] /\ arg'[q] = arg[q],
               \A j \in Jobs : status[j] = "absent" => status'[j] = "absent"
        PROVE  CreatesAreFresh'
    BY <1>6
  <1>7. ASSUME NEW r \in Requests,
               \/ ApproveGet(r) \/ ApproveRelease(r) \/ ApproveRecord(r)
               \/ ClaimRow(r) \/ ClaimRecord(r)
               \/ \E w \in Workers : CompleteSend(r, w) \/ FailSend(r, w)
               \/ CompleteRow(r) \/ CompleteRecord(r)
               \/ FailRow(r) \/ FailRecord(r)
        PROVE  CreatesAreFresh'
    <2>1. at[r] \notin CreateCalls /\ at'[r] \notin CreateCalls
      BY <1>7 DEF ApproveGet, ApproveRelease, ApproveRecord, ClaimRow,
                  ClaimRecord, CompleteSend, FailSend, Send, CompleteRow,
                  CompleteRecord, FailRow, FailRecord
    <2>2. \A q \in Requests \ {r} : at'[q] = at[q] /\ arg'[q] = arg[q]
      BY <1>7 DEF ApproveGet, ApproveRelease, ApproveRecord, ClaimRow,
                  ClaimRecord, CompleteSend, FailSend, Send, CompleteRow,
                  CompleteRecord, FailRow, FailRecord
    <2>3. \A j \in Jobs : status[j] = "absent" => status'[j] = "absent"
      <3>1. CASE ApproveRelease(r)
        BY <3>1 DEF ApproveRelease, ReleaseApproval, ReleaseApprovalEnabled,
                    queueVars
      <3>2. CASE ClaimRow(r)
        BY <3>2 DEF ClaimRow, Claim, Candidate, Claimable
      <3>3. CASE CompleteRow(r)
        BY <3>3 DEF CompleteRow, Complete, UpdateOwned, Owned, queueVars
      <3>4. CASE FailRow(r)
        BY <3>4 DEF FailRow, Fail, UpdateOwned, Owned, queueVars
      <3>5. QED
        BY <1>7, <3>1, <3>2, <3>3, <3>4
           DEF ApproveGet, ApproveRecord, ClaimRecord, CompleteSend, FailSend,
               Send, CompleteRecord, FailRecord, queueVars
    <2>4. QED
      BY <1>6, <2>1, <2>2, <2>3
  <1>8. ASSUME NEW r \in Requests, CallFails(r)
        PROVE  CreatesAreFresh'
    BY <1>8 DEF CallFails, queueVars
  <1>9. ASSUME UNCHANGED <<status, at, arg>>
        PROVE  CreatesAreFresh'
    BY <1>9
  <1> HIDE DEF CreatesAreFresh
  <1>10. QED
    BY <1>3, <1>4, <1>5, <1>7, <1>8, <1>9
       DEF Next, RequestStep, AppendEvent, Tick, QueueTick, vars, requestVars,
           queueVars

(* A job that was held and released stays that.                            *)
LEMMA ReleaseIsKept ==
  ASSUME ApiInv, [Next]_vars, NEW j \in Jobs, releases[j] = 1
  PROVE  j \in held' /\ releases'[j] = 1
  <1>1. j \in held /\ status[j] \notin {"absent", "awaiting-approval"}
    BY DEF ApiInv, HistoryOfRows
  <1>2. held \subseteq held'
    BY DEF Next, RequestStep, vars, Tick, CreateBegin, CreateSnapshot,
           CreateEvent, CreateRow, ApproveGet, ApproveRelease, ApproveRecord,
           ClaimRow, ClaimRecord, CompleteSend, FailSend, Send, CompleteRow,
           CompleteRecord, FailRow, FailRecord, AppendEvent, CallFails
  <1>3. status'[j] # "awaiting-approval"
    BY <1>1, RowsOnlyAdvance
  <1>4. HistoryOfRows'
    BY ApiStepHistory
  <1>5. QED
    BY <1>1, <1>2, <1>3, <1>4 DEF HistoryOfRows

(* A request that is about to record an event has changed the row, and no  *)
(* other request undoes that before it does.                               *)
LEMMA ApiStepRecords == ApiInv /\ [Next]_vars => RecordsFollowRows'
  <1> SUFFICES ASSUME ApiInv, [Next]_vars, NEW q \in Requests
               PROVE  /\ at'[q] \in {"claim_record", "fail_record"}
                           => attempts'[arg'[q].job_id] > 0
                      /\ at'[q] = "approve_record" => releases'[arg'[q].job_id] = 1
                      /\ at'[q] = "complete_record"
                           => status'[arg'[q].job_id] \in TerminalStatuses
    BY DEF RecordsFollowRows
  <1> DEFINE Follows ==
        /\ at'[q] \in {"claim_record", "fail_record"}
             => attempts'[arg'[q].job_id] > 0
        /\ at'[q] = "approve_record" => releases'[arg'[q].job_id] = 1
        /\ at'[q] = "complete_record"
             => status'[arg'[q].job_id] \in TerminalStatuses
  <1>1. /\ at \in [Requests -> Calls] /\ arg \in [Requests -> Payload \cup {NULL}]
        /\ status \in [Jobs -> RowStatuses] /\ releases \in [Jobs -> Nat]
        /\ attempts \in [Jobs -> 0 .. MaxAttempts] /\ MaxAttempts \in Nat
        /\ \A r \in Requests : at[r] # "free" => arg[r].job_id \in Jobs
        /\ HistoryOfRows /\ HistoryOfRows' /\ RecordsFollowRows
    BY AttemptsAssumption, ApiStepHistory
       DEF ApiInv, TypeOK, QueueTypeOK, RequestsCarryJobs, Payload
  <1> USE <1>1 DEF HistoryOfRows, RecordsFollowRows, TerminalStatuses, Goto,
                   Answered
  <1>2. ASSUME at'[q] = at[q], arg'[q] = arg[q]
        PROVE  Follows
    <2>1. CASE at[q] = "free"
      BY <1>2, <2>1
    <2>2. CASE at[q] # "free"
      <3> DEFINE j == arg[q].job_id
      <3>1. /\ attempts[j] > 0 => attempts'[j] > 0
            /\ status[j] \in TerminalStatuses => status'[j] = status[j]
        BY <2>2, RowsOnlyAdvance
      <3>2. releases[j] = 1 => releases'[j] = 1
        BY <2>2, ReleaseIsKept
      <3>3. QED
        BY <1>2, <2>2, <3>1, <3>2
    <2>3. QED
      BY <2>1, <2>2
  <1>3. ASSUME at'[q] \notin {"claim_record", "fail_record", "approve_record",
                              "complete_record"}
        PROVE  Follows
    BY <1>3
  <1>4. ASSUME NEW r \in Requests, ApproveRelease(r)
        PROVE  Follows
    <2>1. CASE q = r
      BY <1>4, <2>1 DEF ApproveRelease, ReleaseApproval, ReleaseApprovalEnabled
    <2>2. QED
      BY <1>2, <1>4, <2>1 DEF ApproveRelease
  <1>5. ASSUME NEW r \in Requests, ClaimRow(r)
        PROVE  Follows
    <2>1. CASE q = r
      <3>1. PICK j \in Jobs, w \in Workers, l \in LeaseChoices :
              Claim(j, w, l) /\ arg' = [arg EXCEPT ![r] = payload[j]]
        BY <1>5 DEF ClaimRow
      <3>2. j \in Rows
        BY <3>1 DEF Claim, Candidate, Claimable, Rows
      <3>3. payload[j].job_id = j /\ attempts'[j] > 0
        BY <3>1, <3>2 DEF Claim, ApiInv, RowsCarryTheirJob
      <3>4. QED
        BY <1>5, <2>1, <3>1, <3>3 DEF ClaimRow
    <2>2. QED
      BY <1>2, <1>5, <2>1 DEF ClaimRow
  <1>6. ASSUME NEW r \in Requests, CompleteRow(r)
        PROVE  Follows
    <2>1. CASE q = r
      BY <1>6, <2>1 DEF CompleteRow, Complete, CompleteEnabled, UpdateOwned
    <2>2. QED
      BY <1>2, <1>6, <2>1 DEF CompleteRow
  <1>7. ASSUME NEW r \in Requests, FailRow(r)
        PROVE  Follows
    <2>1. CASE q = r
      BY <1>7, <2>1 DEF FailRow, Fail, UpdateOwned, Owned
    <2>2. QED
      BY <1>2, <1>7, <2>1 DEF FailRow
  <1>8. ASSUME NEW r \in Requests,
               \/ CreateBegin(r) \/ CreateSnapshot(r) \/ CreateEvent(r)
               \/ CreateRow(r) \/ ApproveGet(r) \/ ApproveRecord(r)
               \/ ClaimRecord(r)
               \/ \E w \in Workers : CompleteSend(r, w) \/ FailSend(r, w)
               \/ CompleteRecord(r) \/ FailRecord(r) \/ CallFails(r)
        PROVE  \/ at'[q] = at[q] /\ arg'[q] = arg[q]
               \/ at'[q] \notin {"claim_record", "fail_record",
                                 "approve_record", "complete_record"}
    <2>1. CASE CreateBegin(r)
      BY <2>1 DEF CreateBegin
    <2>2. CASE CreateSnapshot(r) \/ CreateEvent(r)
      BY <2>2 DEF CreateSnapshot, CreateEvent
    <2>3. CASE CreateRow(r)
      BY <2>3 DEF CreateRow
    <2>4. CASE ApproveGet(r) \/ ApproveRecord(r) \/ ClaimRecord(r)
      BY <2>4 DEF ApproveGet, ApproveRecord, ClaimRecord
    <2>5. CASE \E w \in Workers : CompleteSend(r, w) \/ FailSend(r, w)
      BY <2>5 DEF CompleteSend, FailSend, Send
    <2>6. CASE CompleteRecord(r) \/ FailRecord(r) \/ CallFails(r)
      BY <2>6 DEF CompleteRecord, FailRecord, CallFails
    <2>7. QED
      BY <1>8, <2>1, <2>2, <2>3, <2>4, <2>5, <2>6
  <1> HIDE DEF Follows
  <1>9. Follows
    BY <1>2, <1>3, <1>4, <1>5, <1>6, <1>7, <1>8
       DEF Next, RequestStep, AppendEvent, Tick, vars, requestVars
  <1>10. QED
    BY <1>9 DEF Follows

(* The row comes last in create_job.                                       *)
LEMMA ApiStepAudited == ApiInv /\ [Next]_vars => RowsAreAudited'
  <1> SUFFICES ASSUME ApiInv, [Next]_vars, NEW j \in Jobs, status'[j] # "absent"
               PROVE  <<j, "snapshot">> \in audit' /\ <<j, "job_created">> \in audit'
    BY DEF RowsAreAudited, Rows
  <1>1. audit \subseteq audit'
    BY TrailOnlyGrows
  <1>2. CASE status[j] # "absent"
    BY <1>1, <1>2 DEF ApiInv, RowsAreAudited, Rows
  <1>3. CASE status[j] = "absent"
    <2>1. status \in [Jobs -> RowStatuses]
      BY DEF ApiInv, TypeOK, QueueTypeOK
    <2>2. ASSUME NEW r \in Requests, CreateRow(r)
          PROVE  <<j, "snapshot">> \in audit /\ <<j, "job_created">> \in audit
      <3>1. j = arg[r].job_id
        BY <1>3, <2>1, <2>2 DEF CreateRow, Enqueue
      <3>2. QED
        BY <2>2, <3>1 DEF CreateRow, ApiInv, CreatesAreFresh, CreateCalls
    <2>3. ASSUME NEW r \in Requests,
                 ApproveRelease(r) \/ ClaimRow(r) \/ CompleteRow(r) \/ FailRow(r)
          PROVE  FALSE
      <3>1. CASE ApproveRelease(r)
        BY <1>3, <2>1, <3>1
           DEF ApproveRelease, ReleaseApproval, ReleaseApprovalEnabled, queueVars
      <3>2. CASE ClaimRow(r)
        BY <1>3, <2>1, <3>2 DEF ClaimRow, Claim, Candidate, Claimable
      <3>3. CASE CompleteRow(r)
        BY <1>3, <2>1, <3>3
           DEF CompleteRow, Complete, UpdateOwned, Owned, queueVars
      <3>4. CASE FailRow(r)
        BY <1>3, <2>1, <3>4 DEF FailRow, Fail, UpdateOwned, Owned, queueVars
      <3>5. QED
        BY <2>3, <3>1, <3>2, <3>3, <3>4
    <2>4. QED
      BY <1>1, <1>3, <2>2, <2>3
         DEF Next, RequestStep, vars, queueVars, Tick, QueueTick, CreateBegin,
             CreateSnapshot, CreateEvent, ApproveGet, ApproveRecord,
             ClaimRecord, CompleteSend, FailSend, Send, CompleteRecord,
             FailRecord, AppendEvent, CallFails
  <1>4. QED
    BY <1>2, <1>3

(* An event that a step adds to the trail is the one its request was about *)
(* to record, or one that a caller made up.                                *)
LEMMA NewEvents ==
  ASSUME ApiInv, [Next]_vars, NEW e \in audit' \ audit
  PROVE  \/ e \in Jobs \X (CallerEvents \cup {"snapshot", "job_created"})
         \/ \E r \in Requests :
              \/ at[r] = "claim_record" /\ e = <<arg[r].job_id, "job_claimed">>
              \/ at[r] = "fail_record" /\ e = <<arg[r].job_id, "job_requeued">>
              \/ at[r] = "approve_record" /\ e = <<arg[r].job_id, "job_approved">>
              \/ at[r] = "complete_record" /\ e = <<arg[r].job_id, "job_completed">>
  <1>1. \A r \in Requests : at[r] # "free" => arg[r].job_id \in Jobs
    BY DEF ApiInv, RequestsCarryJobs, Payload
  <1>2. ASSUME NEW r \in Requests, CreateSnapshot(r) \/ CreateEvent(r)
        PROVE  e \in Jobs \X {"snapshot", "job_created"}
    BY <1>1, <1>2 DEF CreateSnapshot, CreateEvent, Record
  <1>3. ASSUME NEW r \in Requests, AppendEvent(r)
        PROVE  e \in Jobs \X CallerEvents
    BY <1>3 DEF AppendEvent
  <1>4. ASSUME NEW r \in Requests, ClaimRecord(r)
        PROVE  at[r] = "claim_record" /\ e = <<arg[r].job_id, "job_claimed">>
    BY <1>4 DEF ClaimRecord, Record
  <1>5. ASSUME NEW r \in Requests, FailRecord(r)
        PROVE  at[r] = "fail_record" /\ e = <<arg[r].job_id, "job_requeued">>
    BY <1>5 DEF FailRecord, Record
  <1>6. ASSUME NEW r \in Requests, ApproveRecord(r)
        PROVE  at[r] = "approve_record" /\ e = <<arg[r].job_id, "job_approved">>
    BY <1>6 DEF ApproveRecord, Record
  <1>7. ASSUME NEW r \in Requests, CompleteRecord(r)
        PROVE  at[r] = "complete_record" /\ e = <<arg[r].job_id, "job_completed">>
    BY <1>7 DEF CompleteRecord, Record
  <1>8. audit' # audit
    OBVIOUS
  <1>9. QED
    BY <1>2, <1>3, <1>4, <1>5, <1>6, <1>7, <1>8
       DEF Next, RequestStep, vars, Tick, CreateBegin, CreateRow, ApproveGet,
           ApproveRelease, ClaimRow, CompleteSend, FailSend, Send, CompleteRow,
           FailRow, CallFails

(* The trail never runs ahead of the table.                                *)
LEMMA ApiStepEvents == ApiInv /\ [Next]_vars => EventsFollowRows'
  <1> SUFFICES ASSUME ApiInv, [Next]_vars, NEW j \in Jobs
               PROVE  /\ <<j, "job_completed">> \in audit'
                           => status'[j] \in TerminalStatuses
                      /\ <<j, "job_approved">> \in audit'
                           => j \in held' /\ releases'[j] = 1
                      /\ (<<j, "job_claimed">> \in audit'
                             \/ <<j, "job_requeued">> \in audit')
                           => status'[j] # "absent" /\ attempts'[j] > 0
    <2>1. "absent" \notin TerminalStatuses
      BY DEF TerminalStatuses
    <2>2. QED
      BY <2>1, Zenon DEF EventsFollowRows, Rows
  <1>1. /\ HistoryOfRows /\ HistoryOfRows' /\ EventsFollowRows /\ RecordsFollowRows
        /\ releases' \in [Jobs -> Nat] /\ attempts' \in [Jobs -> 0 .. MaxAttempts]
        /\ releases \in [Jobs -> Nat] /\ attempts \in [Jobs -> 0 .. MaxAttempts]
        /\ MaxAttempts \in Nat
    BY ApiStepHistory, ApiStepTypes, AttemptsAssumption
       DEF ApiInv, TypeOK, QueueTypeOK, TrailMatchesRows
  <1>2. CallerEvents \cap OwnEvents = {}
    BY ApiAssumption
  (* What was on record, or is being recorded, is true of the row before   *)
  (* the step.                                                             *)
  <1>3. /\ <<j, "job_completed">> \in audit' => status[j] \in TerminalStatuses
        /\ <<j, "job_approved">> \in audit' => releases[j] = 1
        /\ (<<j, "job_claimed">> \in audit' \/ <<j, "job_requeued">> \in audit')
             => attempts[j] > 0
    <2>1. <<j, "job_completed">> \in audit' => status[j] \in TerminalStatuses
      <3>1. CASE <<j, "job_completed">> \in audit
        BY <1>1, <3>1 DEF EventsFollowRows
      <3>2. CASE <<j, "job_completed">> \in audit' \ audit
        <4>1. PICK r \in Requests :
                at[r] = "complete_record" /\ arg[r].job_id = j
          BY <1>2, <3>2, NewEvents DEF OwnEvents
        <4>2. QED
          BY <1>1, <4>1 DEF RecordsFollowRows
      <3>3. QED
        BY <3>1, <3>2
    <2>2. <<j, "job_approved">> \in audit' => releases[j] = 1
      <3>1. CASE <<j, "job_approved">> \in audit
        BY <1>1, <3>1 DEF EventsFollowRows
      <3>2. CASE <<j, "job_approved">> \in audit' \ audit
        <4>1. PICK r \in Requests :
                at[r] = "approve_record" /\ arg[r].job_id = j
          BY <1>2, <3>2, NewEvents DEF OwnEvents
        <4>2. QED
          BY <1>1, <4>1 DEF RecordsFollowRows
      <3>3. QED
        BY <3>1, <3>2
    <2>3. ASSUME NEW type \in {"job_claimed", "job_requeued"},
                 <<j, type>> \in audit'
          PROVE  attempts[j] > 0
      <3>1. CASE <<j, type>> \in audit
        BY <1>1, <3>1 DEF EventsFollowRows
      <3>2. CASE <<j, type>> \in audit' \ audit
        <4>1. PICK r \in Requests :
                at[r] \in {"claim_record", "fail_record"} /\ arg[r].job_id = j
          BY <1>2, <3>2, NewEvents DEF OwnEvents
        <4>2. QED
          BY <1>1, <4>1 DEF RecordsFollowRows
      <3>3. QED
        BY <2>3, <3>1, <3>2
    <2>4. QED
      BY <2>1, <2>2, <2>3
  (* And no step undoes it.                                                *)
  <1>4. status[j] \in TerminalStatuses => status'[j] \in TerminalStatuses
    BY RowsOnlyAdvance
  <1>5. attempts[j] > 0 => status'[j] # "absent" /\ attempts'[j] > 0
    <2>1. attempts[j] > 0 => status[j] # "absent"
      BY <1>1 DEF HistoryOfRows
    <2>2. QED
      BY <2>1, RowsOnlyAdvance
  <1>6. releases[j] = 1 => j \in held' /\ releases'[j] = 1
    BY <1>1, ReleaseIsKept
  <1>7. QED
    BY <1>3, <1>4, <1>5, <1>6

(* A request that is about to record an event goes on to record it, unless *)
(* a call fails.                                                           *)
LEMMA DueIsRecorded ==
  ASSUME ApiInv, [Next]_vars, faults' = 0, NEW r \in Requests
  PROVE  /\ at[r] = "claim_record" =>
              \/ at'[r] = at[r] /\ arg'[r] = arg[r]
              \/ <<arg[r].job_id, "job_claimed">> \in audit'
         /\ at[r] = "approve_record" =>
              \/ at'[r] = at[r] /\ arg'[r] = arg[r]
              \/ <<arg[r].job_id, "job_approved">> \in audit'
         /\ at[r] = "complete_record" =>
              \/ at'[r] = at[r] /\ arg'[r] = arg[r]
              \/ <<arg[r].job_id, "job_completed">> \in audit'
  <1>1. /\ at \in [Requests -> Calls] /\ arg \in [Requests -> Payload \cup {NULL}]
        /\ faults \in Nat
    BY ApiAssumption DEF ApiInv, TypeOK
  <1>2. ASSUME NEW q \in Requests, q # r, RequestStep(q)
        PROVE  at'[r] = at[r] /\ arg'[r] = arg[r]
    BY <1>1, <1>2
       DEF RequestStep, CreateBegin, CreateSnapshot, CreateEvent, CreateRow,
           ApproveGet, ApproveRelease, ApproveRecord, ClaimRow, ClaimRecord,
           CompleteSend, FailSend, Send, CompleteRow, CompleteRecord, FailRow,
           FailRecord, AppendEvent, Goto, Answered, requestVars
  <1>3. ASSUME RequestStep(r)
        PROVE  /\ at[r] = "claim_record" =>
                    <<arg[r].job_id, "job_claimed">> \in audit'
               /\ at[r] = "approve_record" =>
                    <<arg[r].job_id, "job_approved">> \in audit'
               /\ at[r] = "complete_record" =>
                    <<arg[r].job_id, "job_completed">> \in audit'
    BY <1>3
       DEF RequestStep, CreateBegin, CreateSnapshot, CreateEvent, CreateRow,
           ApproveGet, ApproveRelease, ApproveRecord, ClaimRow, ClaimRecord,
           CompleteSend, FailSend, Send, CompleteRow, CompleteRecord, FailRow,
           FailRecord, AppendEvent, Record
  <1>4. ASSUME NEW q \in Requests, CallFails(q)
        PROVE  FALSE
    BY <1>1, <1>4 DEF CallFails
  <1>5. QED
    BY <1>2, <1>3, <1>4 DEF Next, Tick, vars, requestVars

(* A row that is claimed, released or finished by a step has the request   *)
(* that did it about to record it.                                         *)
LEMMA ChangeIsDue ==
  ASSUME ApiInv, [Next]_vars, NEW j \in Jobs
  PROVE  /\ attempts'[j] > 0 /\ ~(attempts[j] > 0) =>
              \E r \in Requests : at'[r] = "claim_record" /\ arg'[r].job_id = j
         /\ releases'[j] > 0 /\ ~(releases[j] > 0) =>
              \E r \in Requests : at'[r] = "approve_record" /\ arg'[r].job_id = j
         /\ status'[j] \in TerminalStatuses /\ status[j] \notin TerminalStatuses =>
              \E r \in Requests : at'[r] = "complete_record" /\ arg'[r].job_id = j
  <1> DEFINE Due ==
        /\ attempts'[j] > 0 /\ ~(attempts[j] > 0) =>
             \E r \in Requests : at'[r] = "claim_record" /\ arg'[r].job_id = j
        /\ releases'[j] > 0 /\ ~(releases[j] > 0) =>
             \E r \in Requests : at'[r] = "approve_record" /\ arg'[r].job_id = j
        /\ status'[j] \in TerminalStatuses /\ status[j] \notin TerminalStatuses =>
             \E r \in Requests : at'[r] = "complete_record" /\ arg'[r].job_id = j
  <1>1. /\ at \in [Requests -> Calls] /\ arg \in [Requests -> Payload \cup {NULL}]
        /\ status \in [Jobs -> RowStatuses] /\ releases \in [Jobs -> Nat]
        /\ attempts \in [Jobs -> 0 .. MaxAttempts]
        /\ \A r \in Requests : at[r] # "free" => arg[r].job_id \in Jobs
    BY DEF ApiInv, TypeOK, QueueTypeOK, RequestsCarryJobs, Payload
  <1> USE <1>1 DEF TerminalStatuses, Goto
  <1>2. ASSUME NEW r \in Requests, CreateRow(r)
        PROVE  Due
    <2>1. arg[r].status \in {"queued", "awaiting-approval"}
      BY <1>2 DEF CreateRow, ApiInv, CreatesAreFresh, CreateCalls
    <2>2. QED
      BY <1>2, <2>1 DEF CreateRow, Enqueue
  <1>3. ASSUME NEW r \in Requests, ApproveRelease(r)
        PROVE  Due
    BY <1>3 DEF ApproveRelease, ReleaseApproval, queueVars
  <1>4. ASSUME NEW r \in Requests, ClaimRow(r)
        PROVE  Due
    <2>1. PICK i \in Jobs, w \in Workers, l \in LeaseChoices :
            Claim(i, w, l) /\ arg' = [arg EXCEPT ![r] = payload[i]]
      BY <1>4 DEF ClaimRow
    <2>2. i \in Rows
      BY <2>1 DEF Claim, Candidate, Claimable, Rows
    <2>3. payload[i].job_id = i
      BY <2>2 DEF ApiInv, RowsCarryTheirJob
    <2>4. at'[r] = "claim_record" /\ arg'[r].job_id = i /\ UNCHANGED releases
      BY <1>4, <2>1, <2>3 DEF ClaimRow
    <2>5. QED
      BY <2>1, <2>4 DEF Claim
  <1>5. ASSUME NEW r \in Requests, CompleteRow(r)
        PROVE  Due
    BY <1>5 DEF CompleteRow, Complete, UpdateOwned, queueVars
  <1>6. ASSUME NEW r \in Requests, FailRow(r)
        PROVE  Due
    BY <1>6 DEF FailRow, Fail, UpdateOwned, queueVars
  <1>7. ASSUME UNCHANGED <<status, attempts, releases>>
        PROVE  Due
    BY <1>7
  <1> HIDE DEF Due
  <1>8. Due
    BY <1>2, <1>3, <1>4, <1>5, <1>6, <1>7
       DEF Next, RequestStep, vars, queueVars, Tick, QueueTick, CreateBegin,
           CreateSnapshot, CreateEvent, ApproveGet, ApproveRecord, ClaimRecord,
           CompleteSend, FailSend, Send, CompleteRecord, FailRecord,
           AppendEvent, CallFails
  <1>9. QED
    BY <1>8 DEF Due

(* What the trail lacks, it lacks because a call failed.                   *)
LEMMA ApiStepGaps == ApiInv /\ [Next]_vars => GapsAreFaults'
  <1> SUFFICES ASSUME ApiInv, [Next]_vars, faults' = 0, NEW j \in Rows'
               PROVE  LET Recorded(type, l) ==
                            \/ <<j, type>> \in audit
                            \/ \E r \in Requests : at[r] = l /\ arg[r].job_id = j
                      IN  (/\ attempts[j] > 0 => Recorded("job_claimed", "claim_record")
                           /\ releases[j] > 0 => Recorded("job_approved", "approve_record")
                           /\ status[j] \in TerminalStatuses
                                => Recorded("job_completed", "complete_record"))'
    BY DEF GapsAreFaults
  <1> DEFINE Recorded(type, l) ==
        \/ <<j, type>> \in audit
        \/ \E r \in Requests : at[r] = l /\ arg[r].job_id = j
  <1>1. j \in Jobs
    BY DEF Rows
  <1>2. audit \subseteq audit' /\ faults = 0
    BY TrailOnlyGrows
  <1>3. j \in Rows =>
          /\ attempts[j] > 0 => Recorded("job_claimed", "claim_record")
          /\ releases[j] > 0 => Recorded("job_approved", "approve_record")
          /\ status[j] \in TerminalStatuses
               => Recorded("job_completed", "complete_record")
    BY <1>2 DEF ApiInv, TrailMatchesRows, GapsAreFaults
  <1>4. /\ Recorded("job_claimed", "claim_record")
             => Recorded("job_claimed", "claim_record")'
        /\ Recorded("job_approved", "approve_record")
             => Recorded("job_approved", "approve_record")'
        /\ Recorded("job_completed", "complete_record")
             => Recorded("job_completed", "complete_record")'
    BY <1>2, DueIsRecorded
  <1>5. j \notin Rows => ~(attempts[j] > 0) /\ ~(releases[j] > 0)
                            /\ status[j] \notin TerminalStatuses
    BY <1>1 DEF ApiInv, HistoryOfRows, Rows, TerminalStatuses
  <1>6. /\ attempts'[j] > 0 => Recorded("job_claimed", "claim_record")'
        /\ releases'[j] > 0 => Recorded("job_approved", "approve_record")'
        /\ status'[j] \in TerminalStatuses
             => Recorded("job_completed", "complete_record")'
    <2>1. attempts'[j] > 0 => Recorded("job_claimed", "claim_record")'
      BY <1>1, <1>3, <1>4, <1>5, ChangeIsDue
    <2>2. releases'[j] > 0 => Recorded("job_approved", "approve_record")'
      BY <1>1, <1>3, <1>4, <1>5, ChangeIsDue
    <2>3. status'[j] \in TerminalStatuses
            => Recorded("job_completed", "complete_record")'
      BY <1>1, <1>3, <1>4, <1>5, ChangeIsDue
    <2>4. QED
      BY <2>1, <2>2, <2>3
  <1>7. QED
    BY <1>6

(* The invariant is inductive.                                             *)
LEMMA ApiStepInv == ApiInv /\ [Next]_vars => ApiInv'
  <1> SUFFICES ASSUME ApiInv, [Next]_vars
               PROVE  ApiInv'
    OBVIOUS
  <1>1. OwnershipConsistent'
    BY ApiStepIsQueueStep, QueueStepInv DEF ApiInv, TypeOK, QueueInv
  <1>2. QED
    BY <1>1, ApiStepTypes, ApiStepRowsCarryTheirJob, ApiStepHistory,
       ApiStepCreates, ApiStepRecords, ApiStepAudited, ApiStepEvents,
       ApiStepGaps
       DEF ApiInv, TrailMatchesRows

-----------------------------------------------------------------------------
(* The endpoints keep every column and every request well typed.           *)
THEOREM ApiTypeCorrect == Spec => []TypeOK
  BY ApiInitInv, ApiStepInv, PTL DEF Spec, ApiInv

(* A held job is released once, whatever number of approve requests read   *)
(* it while it was held, and is claimed only after that.                   *)
THEOREM ApiReleasedOnceBeforeClaimed == Spec => []ReleasedOnceBeforeClaimed
  <1>1. ApiInv => ReleasedOnceBeforeClaimed
    BY DEF ApiInv, HistoryOfRows, ReleasedOnceBeforeClaimed
  <1>2. QED
    BY <1>1, ApiInitInv, ApiStepInv, PTL DEF Spec

(* create_job never leaves a row without its snapshot and its event.       *)
THEOREM ApiRowsAreAudited == Spec => []RowsAreAudited
  BY ApiInitInv, ApiStepInv, PTL DEF Spec, ApiInv

(* The audit trail never runs ahead of the table, and falls behind it only *)
(* by a call that failed.                                                  *)
THEOREM ApiTrailMatchesRows == Spec => []TrailMatchesRows
  BY ApiInitInv, ApiStepInv, PTL DEF Spec, ApiInv

(* However requests interleave and fail, the table sees nothing but whole  *)
(* statements of the queue, so that everything proved of the queue holds   *)
(* behind the HTTP API as well.                                            *)
THEOREM ApiImplementsQueue == Spec => QueueSpec
  <1>1. Init => QueueInit
    BY DEF Init
  <1>2. QED
    BY <1>1, ApiInitInv, ApiStepInv, ApiStepIsQueueStep, PTL DEF Spec, QueueSpec

(* In particular, the job endpoints grant jobs to one worker at a time.    *)
THEOREM ApiImplementsLeasedJobs == Spec => ImplementsLeasedJobs
  BY ApiImplementsQueue, QueueImplementsLeasedJobs, PTL

(* And no request, however late, touches a finished job.                   *)
THEOREM ApiCompletedIsFinal == Spec => CompletedIsFinal
  BY ApiImplementsQueue, QueueCompletedIsFinal, PTL

=============================================================================
