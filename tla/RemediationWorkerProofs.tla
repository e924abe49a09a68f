---------------------- MODULE RemediationWorkerProofs ----------------------
(***************************************************************************)
(* Proofs about the workers on the durable queue, for any number of jobs   *)
(* and workers, any lease and retry times, any number of failing calls,    *)
(* failing handlers and crashes.  Nothing is assumed of time, a worker may *)
(* stop between any two steps for as long as it likes, but in the last     *)
(* section, which is about how long a lease lasts.                         *)
(***************************************************************************)
EXTENDS RemediationWorker, JobQueueProofs

(* The statuses a row's payload passes through.                            *)
Staged == {"queued", "ready-for-remediation", "patch-generated",
           "verification-pending"}
Durable == Staged \cup {"verified", "dry-run-complete"}

(* Where run_once is between the start of a stage and its end.             *)
InStage == {"start", "handler", "exit", "checkpoint", "staged"}
Started == {"handler", "exit", "checkpoint", "staged"}

(* The patch and the results of a payload are those its status promises.   *)
Sound(p) ==
  /\ p.status \in {"patch-generated", "verification-pending"} => p.work.patch # 0
  /\ p.status \in {"verified", "dry-run-complete"} =>
       p.work.patch # 0 /\ p.work.verification = p.work.patch

(* A row carries its own job, for its own tenant, in a status of the       *)
(* workflow, with sound work.                                              *)
RowOK(j) ==
  /\ payload[j] \in Payload
  /\ payload[j].job_id = j /\ payload[j].tenant = tenant[j]
  /\ payload[j].status \in Durable /\ Sound(payload[j])

RowsOK == \A j \in Rows : RowOK(j)

(* p is the job that worker w claimed.                                     *)
IsClaimed(w, p) ==
  /\ p \in Payload /\ p.job_id = current[w].job_id /\ p.tenant = current[w].tenant
  /\ Sound(p)

(* A worker at work knows a job that has a row, and the attempt it is.     *)
KnowsJob(w) ==
  pc[w] # "idle" =>
    /\ IsClaimed(w, current[w]) /\ current[w].status \in Durable
    /\ current[w].job_id \in Rows /\ current[w].tenant = tenant[current[w].job_id]
    /\ run[w] > 0 /\ run[w] <= attempts[current[w].job_id]

(* What it knows at each call: the job its stage was given, what the       *)
(* handler made of it, and the events recorded on the way.                 *)
KnowsStage(w) ==
  /\ pc[w] \in InStage => IsClaimed(w, job[w]) /\ job[w].status \in Staged
  /\ pc[w] \in Started =>
       Event(current[w], "stage_started", Stage(w)) \in audit
  /\ pc[w] = "exit" /\ updated[w] # NULL /\ Accepts(w, updated[w]) =>
       Sound(updated[w])
  /\ pc[w] \in {"checkpoint", "staged"} =>
       IsClaimed(w, updated[w]) /\ Accepts(w, updated[w])
  /\ pc[w] = "finish" => IsClaimed(w, job[w]) /\ job[w].status = "verified"
  /\ pc[w] \in {"finish", "announce", "complete"} =>
       current[w].status = "dry-run-complete"
  /\ pc[w] = "complete" =>
       Event(current[w], "job_completed", "dry-run-complete") \in audit
  /\ hb[w] # "off" => pc[w] \in {"handler", "exit"}

(* While the row of its job is in its name, the claim is the latest one    *)
(* and the row is as the worker left it.                                   *)
KnowsRow(w) ==
  pc[w] # "idle" /\ worker_id[current[w].job_id] = w =>
    LET j == current[w].job_id
    IN  /\ run[w] = attempts[j]
        /\ pc[w] = "claimed" => payload[j] = current[w]
        /\ pc[w] \in {"start", "handler", "exit", "checkpoint", "finish"} =>
             payload[j] = job[w]
        /\ pc[w] = "staged" => payload[j] = updated[w]
        /\ pc[w] \in {"announce", "complete"} => payload[j] = current[w]

WorkerOK(w) == KnowsJob(w) /\ KnowsStage(w) /\ KnowsRow(w)

(* The inductive invariant.                                                *)
WorkerInv ==
  /\ TypeOK /\ OwnershipConsistent /\ RowsOK /\ AuditCoversTable
  /\ \A w \in Workers : WorkerOK(w)

-----------------------------------------------------------------------------
(* The durations a worker passes to the queue are among its choices.       *)
LEMMA Durations ==
  /\ LeaseTicks \in LeaseChoices /\ RetryTicks \in RetryChoices
  /\ HeartbeatInterval \in Int
  <1>1. IntervalThirds \in Nat
    BY LeaseSecondsAssumption DEF IntervalThirds
  <1>2. HeartbeatInterval \in Int
    BY <1>1, TickAssumption DEF HeartbeatInterval
  <1>3. QED
    BY <1>2, WorkerChoices

(* A stage has a status of its own to lead to.                             *)
LEMMA Stages ==
  /\ \A s \in Staged : StageOf(s) \in Durable /\ StageOf(s) # NULL
  /\ StageOf("verified") = NULL /\ StageOf("dry-run-complete") = NULL
  BY StageAssumption DEF Staged, Durable, StageOf, Statuses

LEMMA DurableStatuses == Durable \subseteq Statuses /\ Staged \subseteq Durable
  BY DEF Durable, Staged, Statuses

(* Another status leaves job, tenant, patch and results alone.             *)
LEMMA StatusOnly ==
  ASSUME NEW p \in Payload, NEW s \in Statuses
  PROVE  /\ WithStatus(p, s) \in Payload
         /\ WithStatus(p, s).job_id = p.job_id
         /\ WithStatus(p, s).tenant = p.tenant
         /\ WithStatus(p, s).status = s
         /\ WithStatus(p, s).work = p.work
  BY WithAnotherStatus DEF WithStatus

(* What a handler that does its work returns for a stage: the same job,    *)
(* with sound work if the work it was given was sound.                     *)
LEMMA HandlerKeepsSound ==
  ASSUME NEW w \in Workers, run[w] \in 1 .. MaxAttempts,
         NEW p \in Payload, p.status \in Staged, Sound(p)
  PROVE  LET u == HandlerResult(WithStatus(p, StageOf(p.status)), w)
         IN  /\ u \in Payload /\ u.job_id = p.job_id /\ u.tenant = p.tenant
             /\ u.status = StageOf(p.status) /\ Sound(u)
  <1> DEFINE s == StageOf(p.status)
             q == WithStatus(p, s)
  <1>1. /\ q \in Payload /\ q.job_id = p.job_id /\ q.tenant = p.tenant
        /\ q.status = s /\ q.work = p.work
    BY Stages, DurableStatuses, StatusOnly
  <1>2. q.work \in [patch : 0 .. MaxAttempts, verification : 0 .. MaxAttempts]
    BY <1>1, WorkAssumption DEF Payload
  <1> HIDE DEF q
  <1>3. CASE s = "patch-generated"
    <2>1. HandlerResult(q, w) = [q EXCEPT !.work.patch = run[w]]
      BY <1>1, <1>3 DEF HandlerResult
    <2> DEFINE u == [q EXCEPT !.work.patch = run[w]]
    <2>2. /\ u \in Payload /\ u.job_id = q.job_id /\ u.tenant = q.tenant
          /\ u.status = q.status /\ u.work.patch = run[w]
      BY <1>1, <1>2, WorkAssumption DEF Payload
    <2> HIDE DEF u
    <2>3. Sound(u)
      BY <1>1, <1>3, <2>2 DEF Sound
    <2>4. QED
      BY <1>1, <2>1, <2>2, <2>3 DEF q, u
  <1>4. CASE s = "verified"
    <2>1. HandlerResult(q, w) = [q EXCEPT !.work.verification = q.work.patch]
      BY <1>1, <1>4 DEF HandlerResult
    <2> DEFINE u == [q EXCEPT !.work.verification = q.work.patch]
    <2>2. /\ u \in Payload /\ u.job_id = q.job_id /\ u.tenant = q.tenant
          /\ u.status = q.status
          /\ u.work.patch = q.work.patch /\ u.work.verification = q.work.patch
      BY <1>1, <1>2, WorkAssumption DEF Payload
    <2> HIDE DEF u
    <2>3. q.work.patch # 0
      BY <1>1, <1>4 DEF Sound, Staged, StageOf
    <2>4. Sound(u)
      BY <1>1, <1>4, <2>2, <2>3 DEF Sound
    <2>5. QED
      BY <1>1, <2>1, <2>2, <2>4 DEF q, u
  <1>5. CASE s \notin {"patch-generated", "verified"}
    <2>1. HandlerResult(q, w) = q
      BY <1>1, <1>5 DEF HandlerResult
    <2>2. Sound(q)
      BY <1>1, <1>5 DEF Sound, Staged, StageOf
    <2>3. QED
      BY <1>1, <2>1, <2>2 DEF q
  <1>6. QED
    BY <1>3, <1>4, <1>5

(* What a handler that goes wrong returns is of no use to _run_stage.      *)
LEMMA FailuresRefused ==
  ASSUME NEW w \in Workers, job[w] \in Payload, job[w].status \in Staged,
         NEW u \in HandlerFailures(WithStatus(job[w], Stage(w)))
  PROVE  /\ u \in Payload \cup {NULL}
         /\ u # NULL => ~Accepts(w, u)
  <1> DEFINE q == WithStatus(job[w], Stage(w))
  <1>1. /\ q \in Payload /\ q.job_id = job[w].job_id /\ q.tenant = job[w].tenant
        /\ q.status = Stage(w)
    BY Stages, DurableStatuses, StatusOnly DEF Stage
  <1> HIDE DEF q
  <1>2. CASE u = WithStatus(q, "failed")
    <2>1. u \in Payload /\ u.status = "failed"
      BY <1>1, <1>2, StatusOnly DEF Statuses
    <2>2. Stage(w) # "failed"
      BY Stages DEF Stage, Durable, Staged
    <2>3. QED
      BY <2>1, <2>2 DEF Accepts
  <1>3. ASSUME NEW j \in Jobs \ {q.job_id}, u = [q EXCEPT !.job_id = j]
        PROVE  u \in Payload /\ u.job_id = j
    BY <1>1, <1>3 DEF Payload
  <1>4. ASSUME NEW t \in Tenants \ {q.tenant}, u = [q EXCEPT !.tenant = t]
        PROVE  u \in Payload /\ u.tenant = t
    BY <1>1, <1>4 DEF Payload
  <1>5. \/ u = NULL \/ u = WithStatus(q, "failed")
        \/ \E j \in Jobs \ {q.job_id} : u = [q EXCEPT !.job_id = j]
        \/ \E t \in Tenants \ {q.tenant} : u = [q EXCEPT !.tenant = t]
    BY DEF HandlerFailures, q
  <1>6. QED
    BY <1>1, <1>2, <1>3, <1>4, <1>5 DEF Accepts

-----------------------------------------------------------------------------
(* What a step by the workers in W leaves of the table for the others: no  *)
(* row goes, no attempt is uncounted, and a row in the name of another     *)
(* worker is not written to or claimed.                                    *)
TableKept(W) ==
  /\ Rows \subseteq Rows'
  /\ \A j \in Rows : /\ tenant'[j] = tenant[j]
                     /\ attempts'[j] \in Nat /\ attempts[j] <= attempts'[j]
  /\ \A j \in Jobs, v \in Workers \ W :
       worker_id'[j] = v =>
         /\ worker_id[j] = v
         /\ payload'[j] = payload[j] /\ attempts'[j] = attempts[j]

LocalsKept(v) ==
  /\ pc'[v] = pc[v] /\ current'[v] = current[v] /\ job'[v] = job[v]
  /\ updated'[v] = updated[v] /\ run'[v] = run[v] /\ hb'[v] = hb[v]

(* The statements a worker runs, and what of the table they keep.          *)
Statement(w) ==
  \/ \E j \in Jobs : Claim(j, w, LeaseTicks) \/ RenewLease(j, w, LeaseTicks)
  \/ \E j \in Jobs, p \in Payload :
       Checkpoint(j, w, p) \/ Complete(j, w, p) \/ Fail(j, w, p, RetryTicks)

LEMMA StatementKeepsTable ==
  ASSUME WorkerInv, NEW w \in Workers, Statement(w) \/ UNCHANGED queueVars
  PROVE  TableKept({w})
  <1>1. /\ status \in [Jobs -> RowStatuses] /\ worker_id \in [Jobs -> Workers \cup {NULL}]
        /\ payload \in [Jobs -> Payload \cup {NULL}]
        /\ attempts \in [Jobs -> 0 .. MaxAttempts] /\ tenant \in [Jobs -> Tenants \cup {NULL}]
    BY DEF WorkerInv, TypeOK, QueueTypeOK
  <1>2. \A j \in Jobs : attempts[j] \in Nat
    BY <1>1, AttemptsAssumption
  <1> USE <1>1, <1>2, NullAssumption DEF TableKept, Rows
  <1>3. ASSUME NEW j \in Jobs, Claim(j, w, LeaseTicks)
        PROVE  TableKept({w})
    BY <1>3 DEF Claim
  <1>4. ASSUME NEW j \in Jobs, RenewLease(j, w, LeaseTicks)
        PROVE  TableKept({w})
    BY <1>4 DEF RenewLease
  <1>5. ASSUME NEW j \in Jobs, NEW p \in Payload, Checkpoint(j, w, p)
        PROVE  TableKept({w})
    BY <1>5 DEF Checkpoint, CheckpointEnabled, Owned
  <1>6. ASSUME NEW j \in Jobs, NEW p \in Payload, Complete(j, w, p)
        PROVE  TableKept({w})
    BY <1>6 DEF Complete, CompleteEnabled, UpdateOwned, TerminalStatuses
  <1>7. ASSUME NEW j \in Jobs, NEW p \in Payload, Fail(j, w, p, RetryTicks)
        PROVE  TableKept({w})
    BY <1>7 DEF Fail, UpdateOwned
  <1>8. CASE UNCHANGED queueVars
    BY <1>8 DEF queueVars
  <1> HIDE DEF TableKept
  <1>9. QED
    BY <1>3, <1>4, <1>5, <1>6, <1>7, <1>8 DEF Statement

(* What a worker knows survives the steps of the others.                   *)
LEMMA OthersKept ==
  ASSUME WorkerInv, NEW W, TableKept(W), audit \subseteq audit',
         NEW v \in Workers \ W, LocalsKept(v)
  PROVE  WorkerOK(v)'
  <1>1. WorkerOK(v)
    BY DEF WorkerInv
  <1> USE <1>1 DEF LocalsKept, WorkerOK
  <1>2. KnowsJob(v)'
    <2>1. SUFFICES ASSUME pc[v] # "idle"
                   PROVE  KnowsJob(v)'
      BY DEF KnowsJob
    <2> DEFINE j == current[v].job_id
    <2>2. /\ j \in Rows /\ j \in Rows' /\ current[v].tenant = tenant'[j]
          /\ run[v] <= attempts[j]
          /\ attempts'[j] \in Nat /\ attempts[j] <= attempts'[j]
      BY <2>1 DEF KnowsJob, TableKept
    <2>3. run[v] <= attempts'[j]
      <3>1. run[v] \in Int /\ attempts[j] \in Int
        BY <2>2, AttemptsAssumption DEF WorkerInv, TypeOK, QueueTypeOK, Rows
      <3>2. QED
        BY <2>2, <3>1
    <2>4. QED
      BY <2>1, <2>2, <2>3 DEF KnowsJob, IsClaimed
  <1>3. KnowsStage(v)'
    BY DEF KnowsStage, IsClaimed, Accepts, Stage
  <1>4. KnowsRow(v)'
    <2>1. SUFFICES ASSUME pc[v] # "idle", worker_id'[current[v].job_id] = v
                   PROVE  KnowsRow(v)'
      BY DEF KnowsRow
    <2>2. current[v].job_id \in Jobs
      BY <2>1 DEF KnowsJob, Rows
    <2>3. /\ worker_id[current[v].job_id] = v
          /\ payload'[current[v].job_id] = payload[current[v].job_id]
          /\ attempts'[current[v].job_id] = attempts[current[v].job_id]
      BY <2>1, <2>2 DEF TableKept
    <2>4. QED
      BY <2>1, <2>3 DEF KnowsRow
  <1>5. QED
    BY <1>2, <1>3, <1>4

-----------------------------------------------------------------------------
(* A row that is not written to stays sound and covered by the trail; a    *)
(* claim only makes its status running.                                    *)
LEMMA UnwrittenRows ==
  ASSUME WorkerInv, UNCHANGED <<payload, tenant>>, audit \subseteq audit',
         \A j \in Jobs : status'[j] = status[j] \/ (j \in Rows /\ status'[j] = "running")
  PROVE  RowsOK' /\ AuditCoversTable'
  <1>1. Rows' = Rows
    BY DEF Rows
  <1>2. RowsOK'
    BY <1>1 DEF WorkerInv, RowsOK, RowOK
  <1>3. AuditCoversTable'
    <2>1. SUFFICES ASSUME NEW j \in Rows
                   PROVE  /\ payload[j].status \notin {"queued", "dry-run-complete"} =>
                               \E e \in audit' : /\ e.job_id = j
                                                 /\ e.type = "stage_started"
                                                 /\ e.to = payload[j].status
                          /\ status'[j] = "dry-run-complete" =>
                               \E e \in audit' : e.job_id = j /\ e.type = "job_completed"
      BY <1>1 DEF AuditCoversTable
    <2>2. status'[j] = "dry-run-complete" => status[j] = "dry-run-complete"
      BY DEF Rows
    <2>3. QED
      BY <2>2 DEF WorkerInv, AuditCoversTable
  <1>4. QED
    BY <1>2, <1>3

(* A row stays so when it is written with a sound payload of its job that  *)
(* the trail covers.                                                       *)
LEMMA WrittenRows ==
  ASSUME WorkerInv, NEW j \in Rows, NEW p \in Payload,
         p.job_id = j, p.tenant = tenant[j], p.status \in Durable, Sound(p),
         NEW s \in {"queued", "running", "dry-run-complete"},
         payload' = [payload EXCEPT ![j] = p], status' = [status EXCEPT ![j] = s],
         UNCHANGED <<tenant, audit>>,
         p.status \notin {"queued", "dry-run-complete"} =>
           Event(p, "stage_started", p.status) \in audit,
         s = "dry-run-complete" =>
           Event(p, "job_completed", "dry-run-complete") \in audit
  PROVE  RowsOK' /\ AuditCoversTable'
  <1>1. /\ status \in [Jobs -> RowStatuses] /\ payload \in [Jobs -> Payload \cup {NULL}]
        /\ j \in Jobs
    BY DEF WorkerInv, TypeOK, QueueTypeOK, Rows
  <1>2. Rows' = Rows /\ payload'[j] = p /\ status'[j] = s
    BY <1>1 DEF Rows
  <1>3. \A i \in Rows \ {j} : payload'[i] = payload[i] /\ status'[i] = status[i]
    BY <1>1 DEF Rows
  <1>4. RowsOK'
    <2>1. SUFFICES ASSUME NEW i \in Rows
                   PROVE  RowOK(i)'
      BY <1>2 DEF RowsOK
    <2>2. CASE i = j
      BY <1>2, <2>2 DEF RowOK
    <2>3. CASE i # j
      BY <1>3, <2>3 DEF WorkerInv, RowsOK, RowOK
    <2>4. QED
      BY <2>2, <2>3
  <1>5. AuditCoversTable'
    <2>1. SUFFICES ASSUME NEW i \in Rows
                   PROVE  /\ payload'[i].status \notin {"queued", "dry-run-complete"} =>
                               \E e \in audit : /\ e.job_id = i
                                                /\ e.type = "stage_started"
                                                /\ e.to = payload'[i].status
                          /\ status'[i] = "dry-run-complete" =>
                               \E e \in audit : e.job_id = i /\ e.type = "job_completed"
      BY <1>2 DEF AuditCoversTable
    <2>2. CASE i = j
      BY <1>2, <2>2 DEF Event
    <2>3. CASE i # j
      BY <1>3, <2>3 DEF WorkerInv, AuditCoversTable
    <2>4. QED
      BY <2>2, <2>3
  <1>6. QED
    BY <1>4, <1>5

-----------------------------------------------------------------------------
(* What a step has to be shown to keep.  The types and the ownership of    *)
(* the table are those of the queue.                                       *)
Kept == RowsOK' /\ AuditCoversTable' /\ \A v \in Workers : WorkerOK(v)'

(* A step of w that leaves the table alone and records at most events.     *)
LEMMA TableUntouched ==
  ASSUME WorkerInv, NEW w \in Workers, UNCHANGED queueVars, audit \subseteq audit',
         \A v \in Workers \ {w} : LocalsKept(v), WorkerOK(w)'
  PROVE  Kept
  <1>1. RowsOK' /\ AuditCoversTable'
    BY UnwrittenRows DEF queueVars
  <1>2. TableKept({w})
    BY StatementKeepsTable
  <1>3. QED
    BY <1>1, <1>2, OthersKept DEF Kept

(* A worker in the requeue path only needs to know its job.                *)
LEMMA FailingKept ==
  ASSUME WorkerInv, NEW w \in Workers, TableKept({w}), pc[w] # "idle",
         current'[w] = current[w], run'[w] = run[w],
         pc'[w] \in {"failing", "fail"}, hb'[w] = "off",
         worker_id'[current[w].job_id] = w =>
           /\ worker_id[current[w].job_id] = w
           /\ attempts'[current[w].job_id] = attempts[current[w].job_id]
  PROVE  WorkerOK(w)'
  <1> DEFINE j == current[w].job_id
  <1>1. KnowsJob(w) /\ KnowsRow(w) /\ j \in Rows
    BY DEF WorkerInv, WorkerOK, KnowsJob
  <1>2. /\ j \in Rows' /\ current[w].tenant = tenant'[j]
        /\ run[w] <= attempts[j] /\ attempts'[j] \in Nat /\ attempts[j] <= attempts'[j]
    BY <1>1 DEF KnowsJob, TableKept
  <1>3. run[w] <= attempts'[j]
    <2>1. run[w] \in Int /\ attempts[j] \in Int
      BY <1>1, AttemptsAssumption DEF WorkerInv, TypeOK, QueueTypeOK, Rows
    <2>2. QED
      BY <1>2, <2>1
  <1>4. KnowsJob(w)'
    BY <1>1, <1>2, <1>3 DEF KnowsJob, IsClaimed
  <1>5. KnowsStage(w)'
    BY DEF KnowsStage, InStage, Started
  <1>6. KnowsRow(w)'
    BY <1>1 DEF KnowsRow
  <1>7. QED
    BY <1>4, <1>5, <1>6 DEF WorkerOK

(* An idle worker needs to know nothing.                                   *)
LEMMA IdleKept ==
  ASSUME NEW w \in Workers, pc'[w] = "idle", hb'[w] = "off"
  PROVE  WorkerOK(w)'
  BY DEF WorkerOK, KnowsJob, KnowsStage, KnowsRow, InStage, Started

(* The types of a worker's own variables, for use with EXCEPT.             *)
LEMMA LocalTypes ==
  ASSUME WorkerInv
  PROVE  /\ pc \in [Workers -> Labels] /\ current \in [Workers -> Payload \cup {NULL}]
         /\ job \in [Workers -> Payload \cup {NULL}]
         /\ updated \in [Workers -> Payload \cup {NULL}]
         /\ run \in [Workers -> 0 .. MaxAttempts]
         /\ hb \in [Workers -> {"off", "waiting", "renewing", "failed"}]
         /\ \A w \in Workers : pc[w] \notin {"handler", "exit"} => hb[w] = "off"
  BY DEF WorkerInv, TypeOK, WorkerOK, KnowsStage

(* An exception takes run_once to the requeue path, or out of it.          *)
LEMMA RaiseGoes ==
  ASSUME WorkerInv, NEW w \in Workers, Raise(w)
  PROVE  /\ pc'[w] = IF pc[w] \in {"idle", "failing", "fail"} THEN "idle"
                     ELSE "failing"
         /\ \A v \in Workers \ {w} : pc'[v] = pc[v]
  BY LocalTypes DEF Raise, AfterError

(* run_once forgets what it knew when it ends; others do not.              *)
LEMMA ForgetKeepsOthers ==
  ASSUME WorkerInv, NEW w \in Workers, Forget(w),
         NEW v \in Workers \ {w}, pc'[v] = pc[v], hb'[v] = hb[v]
  PROVE  LocalsKept(v)
  BY LocalTypes DEF Forget, LocalsKept

(* The claim: the worker knows the row as it is.                           *)
LEMMA ClaimJobKeeps ==
  ASSUME WorkerInv, NEW w \in Workers, ClaimJob(w)
  PROVE  Kept
  <1>1. PICK j \in Jobs :
          /\ Claim(j, w, LeaseTicks)
          /\ \/ /\ Goto(w, "claimed")
                /\ current' = [current EXCEPT ![w] = Claimed(payload[j])]
                /\ run' = [run EXCEPT ![w] = attempts[j] + 1]
             \/ Raise(w) /\ UNCHANGED <<current, run>>
    BY DEF ClaimJob
  <1>2. pc[w] = "idle" /\ UNCHANGED <<job, updated, hb, audit>>
    BY DEF ClaimJob, heartbeatVars
  <1>3. hb'[w] = "off"
    BY <1>2, LocalTypes
  <1>4. /\ j \in Rows
        /\ status' = [status EXCEPT ![j] = "running"]
        /\ worker_id' = [worker_id EXCEPT ![j] = w]
        /\ attempts' = [attempts EXCEPT ![j] = @ + 1]
        /\ UNCHANGED <<payload, tenant>>
    BY <1>1 DEF Claim, Candidate, Claimable, Rows
  <1>5. TableKept({w})
    BY <1>1, StatementKeepsTable DEF Statement
  <1>6. RowsOK' /\ AuditCoversTable'
    <2>1. status \in [Jobs -> RowStatuses]
      BY DEF WorkerInv, TypeOK, QueueTypeOK
    <2>2. \A i \in Jobs : status'[i] = status[i] \/ (i \in Rows /\ status'[i] = "running")
      BY <1>4, <2>1
    <2>3. QED
      BY <1>2, <1>4, <2>2, UnwrittenRows
  <1>7. ASSUME NEW v \in Workers \ {w}
        PROVE  LocalsKept(v)
    BY <1>1, <1>2, LocalTypes, RaiseGoes DEF Goto, LocalsKept
  <1>8. WorkerOK(w)'
    <2>1. CASE Raise(w)
      BY <1>2, <1>3, <2>1, RaiseGoes, IdleKept
    <2>2. CASE /\ Goto(w, "claimed")
               /\ current' = [current EXCEPT ![w] = Claimed(payload[j])]
               /\ run' = [run EXCEPT ![w] = attempts[j] + 1]
      <3>1. RowOK(j)
        BY <1>4 DEF WorkerInv, RowsOK
      <3>2. /\ pc'[w] = "claimed" /\ current'[w] = payload[j]
            /\ run'[w] = attempts[j] + 1
        <4>1. Claimed(payload[j]) = payload[j]
          BY <3>1 DEF Claimed, RowOK, Durable, Staged
        <4>2. QED
          BY <2>2, <4>1, LocalTypes DEF Goto
      <3>3. /\ attempts[j] \in Nat /\ attempts'[j] = attempts[j] + 1
            /\ worker_id'[j] = w /\ j \in Rows'
        BY <1>4, <1>5, AttemptsAssumption
           DEF WorkerInv, TypeOK, QueueTypeOK, TableKept
      <3>4. KnowsJob(w)'
        BY <1>4, <3>1, <3>2, <3>3 DEF KnowsJob, IsClaimed, RowOK
      <3>5. KnowsStage(w)'
        BY <1>3, <3>2 DEF KnowsStage, InStage, Started
      <3>6. KnowsRow(w)'
        BY <1>4, <3>1, <3>2, <3>3 DEF KnowsRow, RowOK
      <3>7. QED
        BY <3>4, <3>5, <3>6 DEF WorkerOK
    <2>3. QED
      BY <1>1, <2>1, <2>2
  <1>9. QED
    BY <1>2, <1>5, <1>6, <1>7, <1>8, OthersKept DEF Kept

(* _resume goes on with the job as the row has it, if the row is still in  *)
(* this worker's name.                                                     *)
LEMMA ResumeKeeps ==
  ASSUME WorkerInv, NEW w \in Workers, pc[w] # "idle", hb[w] = "off",
         NEW p, IsClaimed(w, p), p.status \in Durable, Resume(w, p),
         worker_id[p.job_id] = w => payload[p.job_id] = p,
         UNCHANGED <<queueVars, updated, run, heartbeatVars>>, audit \subseteq audit'
  PROVE  Kept
  <1> DEFINE j == p.job_id
  <1>1. KnowsJob(w) /\ KnowsRow(w)
    BY DEF WorkerInv, WorkerOK
  <1>2. /\ j = current[w].job_id /\ p.tenant = current[w].tenant
        /\ p \in Payload /\ Sound(p) /\ current[w] \in Payload
        /\ j \in Rows /\ j \in Rows' /\ p.tenant = tenant'[j]
        /\ run'[w] > 0 /\ run'[w] <= attempts'[j]
        /\ worker_id'[j] = w => payload'[j] = p /\ run'[w] = attempts'[j]
        /\ hb'[w] = "off" /\ job'[w] = p
    BY <1>1, LocalTypes
       DEF KnowsJob, KnowsRow, IsClaimed, queueVars, heartbeatVars, Rows, Resume
  <1>3. \A v \in Workers \ {w} : job'[v] = job[v] /\ updated'[v] = updated[v]
                                  /\ run'[v] = run[v] /\ hb'[v] = hb[v]
    BY LocalTypes DEF Resume, heartbeatVars
  <1>4. CASE p.status \in Staged
    <2>1. Goto(w, "start") /\ UNCHANGED current
      BY <1>4, Stages DEF Resume
    <2>2. pc'[w] = "start" /\ current'[w] = current[w]
      BY <2>1, LocalTypes DEF Goto
    <2>3. ASSUME NEW v \in Workers \ {w} PROVE LocalsKept(v)
      BY <1>3, <2>1, LocalTypes DEF Goto, LocalsKept
    <2>4. KnowsJob(w)'
      BY <1>1, <1>2, <2>2 DEF KnowsJob, IsClaimed
    <2>5. KnowsStage(w)'
      BY <1>2, <1>4, <2>2 DEF KnowsStage, IsClaimed, InStage, Started
    <2>6. KnowsRow(w)'
      BY <1>2, <2>2 DEF KnowsRow
    <2>7. QED
      BY <2>3, <2>4, <2>5, <2>6, TableUntouched DEF WorkerOK
  <1>5. CASE p.status = "verified"
    <2>1. /\ Goto(w, "finish")
          /\ current' = [current EXCEPT ![w] = WithStatus(p, "dry-run-complete")]
      BY <1>5, Stages DEF Resume
    <2>2. pc'[w] = "finish" /\ current'[w] = WithStatus(p, "dry-run-complete")
      BY <2>1, LocalTypes DEF Goto
    <2>3. ASSUME NEW v \in Workers \ {w} PROVE LocalsKept(v)
      BY <1>3, <2>1, LocalTypes DEF Goto, LocalsKept
    <2>4. /\ current'[w] \in Payload /\ current'[w].job_id = j
          /\ current'[w].tenant = p.tenant /\ current'[w].work = p.work
          /\ current'[w].status = "dry-run-complete"
      BY <1>2, <2>2, StatusOnly DEF Statuses
    <2>5. Sound(current'[w])
      BY <1>2, <1>5, <2>4 DEF Sound
    <2>6. KnowsJob(w)'
      BY <1>2, <2>4, <2>5 DEF KnowsJob, IsClaimed, Sound, Durable
    <2>7. KnowsStage(w)'
      BY <1>2, <1>5, <2>2, <2>4 DEF KnowsStage, IsClaimed, Sound, InStage, Started
    <2>8. KnowsRow(w)'
      BY <1>2, <2>2, <2>4 DEF KnowsRow
    <2>9. QED
      BY <2>3, <2>6, <2>7, <2>8, TableUntouched DEF WorkerOK
  <1>6. CASE p.status = "dry-run-complete"
    <2>1. Goto(w, "announce") /\ current' = [current EXCEPT ![w] = p]
      BY <1>6, Stages DEF Resume
    <2>2. pc'[w] = "announce" /\ current'[w] = p
      BY <2>1, LocalTypes DEF Goto
    <2>3. ASSUME NEW v \in Workers \ {w} PROVE LocalsKept(v)
      BY <1>3, <2>1, LocalTypes DEF Goto, LocalsKept
    <2>4. KnowsJob(w)'
      BY <1>2, <1>6, <2>2 DEF KnowsJob, IsClaimed, Sound, Durable
    <2>5. KnowsStage(w)'
      BY <1>2, <1>6, <2>2 DEF KnowsStage, InStage, Started
    <2>6. KnowsRow(w)'
      BY <1>2, <2>2 DEF KnowsRow
    <2>7. QED
      BY <2>3, <2>4, <2>5, <2>6, TableUntouched DEF WorkerOK
  <1>7. QED
    BY <1>4, <1>5, <1>6 DEF Durable

(* A step into or along the requeue path that leaves the table alone.      *)
LEMMA FailingUntouched ==
  ASSUME WorkerInv, NEW w \in Workers, pc[w] # "idle", pc'[w] \in {"failing", "fail"},
         UNCHANGED <<queueVars, current, run>>, hb'[w] = "off",
         audit \subseteq audit', \A v \in Workers \ {w} : LocalsKept(v)
  PROVE  Kept
  <1>1. TableKept({w})
    BY StatementKeepsTable
  <1>2. WorkerOK(w)'
    BY <1>1, FailingKept DEF queueVars
  <1>3. QED
    BY <1>2, TableUntouched

LEMMA EmitJobClaimedKeeps ==
  ASSUME WorkerInv, NEW w \in Workers, EmitJobClaimed(w)
  PROVE  Kept
  <1>1. /\ pc[w] = "claimed" /\ audit \subseteq audit' /\ hb[w] = "off"
        /\ UNCHANGED <<queueVars, updated, run, heartbeatVars>>
    BY LocalTypes DEF EmitJobClaimed
  <1>2. CASE Resume(w, current[w])
    <2>1. KnowsJob(w) /\ KnowsRow(w)
      BY DEF WorkerInv, WorkerOK
    <2>2. /\ IsClaimed(w, current[w]) /\ current[w].status \in Durable
          /\ worker_id[current[w].job_id] = w => payload[current[w].job_id] = current[w]
      BY <1>1, <2>1 DEF KnowsJob, KnowsRow
    <2>3. QED
      BY <1>1, <1>2, <2>2, ResumeKeeps
  <1>3. CASE Raise(w) /\ UNCHANGED <<current, job>>
    <2>1. pc'[w] = "failing" /\ \A v \in Workers \ {w} : pc'[v] = pc[v]
      BY <1>1, <1>3, RaiseGoes
    <2>2. \A v \in Workers \ {w} : LocalsKept(v)
      BY <1>1, <1>3, <2>1 DEF LocalsKept, heartbeatVars
    <2>3. QED
      BY <1>1, <1>3, <2>1, <2>2, FailingUntouched DEF heartbeatVars
  <1>4. QED
    BY <1>2, <1>3 DEF EmitJobClaimed

LEMMA EmitStageStartedKeeps ==
  ASSUME WorkerInv, NEW w \in Workers, EmitStageStarted(w)
  PROVE  Kept
  <1>1. /\ pc[w] = "start" /\ hb[w] = "off"
        /\ audit' = audit \cup {Event(job[w], "stage_started", Stage(w))}
        /\ UNCHANGED <<queueVars, current, job, updated, run>>
    BY LocalTypes DEF EmitStageStarted
  <1>2. CASE /\ Goto(w, "handler")
             /\ hb' = [hb EXCEPT ![w] = "waiting"]
    <2>1. KnowsJob(w) /\ KnowsStage(w) /\ KnowsRow(w)
      BY DEF WorkerInv, WorkerOK
    <2>2. pc'[w] = "handler" /\ \A v \in Workers \ {w} : LocalsKept(v)
      BY <1>1, <1>2, LocalTypes DEF Goto, LocalsKept
    <2>3. KnowsJob(w)'
      BY <1>1, <2>1, <2>2 DEF KnowsJob, IsClaimed, queueVars, Rows
    <2>4. IsClaimed(w, job[w]) /\ job[w].status \in Staged
      BY <1>1, <2>1 DEF KnowsStage, InStage
    <2>5. Event(current[w], "stage_started", Stage(w)) \in audit'
      BY <1>1, <2>4 DEF Event, IsClaimed
    <2>6. KnowsStage(w)'
      BY <1>1, <2>2, <2>4, <2>5 DEF KnowsStage, IsClaimed, Stage
    <2>7. KnowsRow(w)'
      BY <1>1, <2>1, <2>2 DEF KnowsRow, queueVars
    <2>8. QED
      BY <1>1, <2>2, <2>3, <2>6, <2>7, TableUntouched DEF WorkerOK
  <1>3. CASE Raise(w) /\ UNCHANGED <<hb, hb_left>>
    <2>1. pc'[w] = "failing" /\ \A v \in Workers \ {w} : pc'[v] = pc[v]
      BY <1>1, <1>3, RaiseGoes
    <2>2. \A v \in Workers \ {w} : LocalsKept(v)
      BY <1>1, <1>3, <2>1 DEF LocalsKept
    <2>3. QED
      BY <1>1, <1>3, <2>1, <2>2, FailingUntouched
  <1>4. QED
    BY <1>2, <1>3 DEF EmitStageStarted

(* What the handler returns is sound, or is about to be refused.           *)
LEMMA HandlerReturnsKeeps ==
  ASSUME WorkerInv, NEW w \in Workers, HandlerReturns(w)
  PROVE  Kept
  <1>1. /\ pc[w] = "handler" /\ pc' = [pc EXCEPT ![w] = "exit"]
        /\ UNCHANGED <<queueVars, current, job, run, heartbeatVars, audit>>
    BY DEF HandlerReturns
  <1>2. KnowsJob(w) /\ KnowsStage(w) /\ KnowsRow(w)
    BY DEF WorkerInv, WorkerOK
  <1>3. /\ IsClaimed(w, job[w]) /\ job[w].status \in Staged
        /\ Event(current[w], "stage_started", Stage(w)) \in audit
    BY <1>1, <1>2 DEF KnowsStage, InStage, Started
  <1> DEFINE staged == WithStatus(job[w], Stage(w))
  <1>4. \/ updated' = [updated EXCEPT ![w] = HandlerResult(staged, w)]
        \/ \E u \in HandlerFailures(staged) : updated' = [updated EXCEPT ![w] = u]
    BY DEF HandlerReturns
  <1> HIDE DEF staged
  <1>5. \/ updated'[w] = HandlerResult(staged, w)
        \/ updated'[w] \in HandlerFailures(staged)
    BY <1>4, LocalTypes
  <1>6. updated'[w] # NULL /\ Accepts(w, updated'[w]) => Sound(updated'[w])
    <2>1. CASE updated'[w] = HandlerResult(staged, w)
      <3>1. run[w] \in 1 .. MaxAttempts
        BY <1>1, <1>2, LocalTypes, AttemptsAssumption DEF KnowsJob
      <3>2. Sound(HandlerResult(staged, w))
        BY <1>3, <3>1, HandlerKeepsSound DEF staged, Stage, IsClaimed
      <3>3. QED
        BY <2>1, <3>2
    <2>2. CASE updated'[w] \in HandlerFailures(staged)
      BY <1>3, <2>2, FailuresRefused DEF staged, IsClaimed
    <2>3. QED
      BY <1>5, <2>1, <2>2
  <1>7. pc'[w] = "exit" /\ \A v \in Workers \ {w} : pc'[v] = pc[v]
    BY <1>1, LocalTypes
  <1>8. \A v \in Workers \ {w} : LocalsKept(v)
    BY <1>1, <1>4, <1>7, LocalTypes DEF LocalsKept, heartbeatVars
  <1>9. KnowsJob(w)'
    BY <1>1, <1>2, <1>7 DEF KnowsJob, IsClaimed, queueVars, Rows
  <1>10. KnowsStage(w)'
    BY <1>1, <1>2, <1>3, <1>6, <1>7
       DEF KnowsStage, IsClaimed, Accepts, Stage, heartbeatVars
  <1>11. KnowsRow(w)'
    BY <1>1, <1>2, <1>7 DEF KnowsRow, queueVars
  <1>12. QED
    BY <1>1, <1>8, <1>9, <1>10, <1>11, TableUntouched DEF WorkerOK

(* Only an accepted result goes on to the checkpoint.                      *)
LEMMA ExitHeartbeatKeeps ==
  ASSUME WorkerInv, NEW w \in Workers, ExitHeartbeat(w)
  PROVE  Kept
  <1>1. /\ pc[w] = "exit" /\ hb' = [hb EXCEPT ![w] = "off"]
        /\ UNCHANGED <<queueVars, current, job, updated, run, audit>>
    BY DEF ExitHeartbeat
  <1>2. KnowsJob(w) /\ KnowsStage(w) /\ KnowsRow(w)
    BY DEF WorkerInv, WorkerOK
  <1>3. hb'[w] = "off" /\ updated[w] \in Payload \cup {NULL}
    BY <1>1, LocalTypes
  <1>4. \A v \in Workers \ {w} : LocalsKept(v)
    BY <1>1, LocalTypes DEF ExitHeartbeat, LocalsKept
  <1>5. CASE updated[w] # NULL /\ hb[w] # "failed" /\ Accepts(w, updated[w])
    <2>1. pc'[w] = "checkpoint"
      BY <1>5, LocalTypes DEF ExitHeartbeat
    <2>2. /\ IsClaimed(w, job[w]) /\ job[w].status \in Staged
          /\ Event(current[w], "stage_started", Stage(w)) \in audit
          /\ Sound(updated[w])
      BY <1>1, <1>2, <1>5 DEF KnowsStage, InStage, Started
    <2>3. IsClaimed(w, updated[w])
      BY <1>3, <1>5, <2>2 DEF IsClaimed, Accepts
    <2>4. KnowsJob(w)'
      BY <1>1, <1>2, <2>1 DEF KnowsJob, IsClaimed, queueVars, Rows
    <2>5. KnowsStage(w)'
      BY <1>1, <1>3, <1>5, <2>1, <2>2, <2>3 DEF KnowsStage, IsClaimed, Accepts, Stage
    <2>6. KnowsRow(w)'
      BY <1>1, <1>2, <2>1 DEF KnowsRow, queueVars
    <2>7. QED
      BY <1>1, <1>4, <2>4, <2>5, <2>6, TableUntouched DEF WorkerOK
  <1>6. CASE ~(updated[w] # NULL /\ hb[w] # "failed" /\ Accepts(w, updated[w]))
    <2>1. pc'[w] = "failing"
      BY <1>6, LocalTypes DEF ExitHeartbeat
    <2>2. QED
      BY <1>1, <1>3, <1>4, <2>1, FailingUntouched
  <1>7. QED
    BY <1>5, <1>6

(* What checkpoint() leaves behind when it writes p for the worker w that  *)
(* has claimed the job.                                                    *)
LEMMA CheckpointWrites ==
  ASSUME WorkerInv, NEW w \in Workers, pc[w] # "idle",
         NEW p, IsClaimed(w, p), p.status \in Durable,
         Checkpoint(current[w].job_id, w, p), UNCHANGED audit,
         p.status # "dry-run-complete" => Event(p, "stage_started", p.status) \in audit
  PROVE  /\ RowsOK' /\ AuditCoversTable' /\ TableKept({w})
         /\ Rows' = Rows /\ UNCHANGED <<tenant, attempts, worker_id>>
         /\ payload'[current[w].job_id] = p
  <1> DEFINE j == current[w].job_id
  <1>1. KnowsJob(w) /\ j \in Rows /\ j \in Jobs /\ p \in Payload /\ p.job_id = j
    BY DEF WorkerInv, WorkerOK, KnowsJob, IsClaimed, Rows
  <1>2. p.tenant = tenant[j]
    BY <1>1 DEF KnowsJob, IsClaimed
  <1>3. /\ status[j] = "running" /\ payload' = [payload EXCEPT ![j] = p]
        /\ UNCHANGED <<status, tenant, attempts, worker_id>> /\ p.status # "queued"
    BY DEF Checkpoint, CheckpointEnabled, Owned, UnfinishedStatuses
  <1>4. TableKept({w})
    BY <1>1, StatementKeepsTable DEF Statement
  <1>5. status \in [Jobs -> RowStatuses] /\ payload \in [Jobs -> Payload \cup {NULL}]
    BY DEF WorkerInv, TypeOK, QueueTypeOK
  <1>6. status' = [status EXCEPT ![j] = "running"]
    BY <1>1, <1>3, <1>5
  <1>7. RowsOK' /\ AuditCoversTable'
    BY <1>1, <1>2, <1>3, <1>6, WrittenRows DEF IsClaimed
  <1>8. QED
    BY <1>1, <1>3, <1>4, <1>5, <1>7 DEF Rows

LEMMA CheckpointStageKeeps ==
  ASSUME WorkerInv, NEW w \in Workers, CheckpointStage(w)
  PROVE  Kept
  <1>1. /\ pc[w] = "checkpoint" /\ hb[w] = "off"
        /\ UNCHANGED <<current, job, updated, run, hb, audit>>
    BY LocalTypes DEF CheckpointStage, heartbeatVars
  <1>2. KnowsJob(w) /\ KnowsStage(w) /\ KnowsRow(w)
    BY DEF WorkerInv, WorkerOK
  <1>3. /\ IsClaimed(w, job[w]) /\ job[w].status \in Staged
        /\ Event(current[w], "stage_started", Stage(w)) \in audit
        /\ IsClaimed(w, updated[w]) /\ Accepts(w, updated[w])
    BY <1>1, <1>2 DEF KnowsStage, InStage, Started
  <1>4. /\ job[w].job_id = current[w].job_id /\ updated[w].status = Stage(w)
        /\ updated[w].job_id = current[w].job_id
        /\ updated[w].status \in Durable
    BY <1>3, Stages DEF IsClaimed, Accepts, Stage
  <1>5. Event(updated[w], "stage_started", updated[w].status) \in audit
    BY <1>3, <1>4 DEF Event
  <1>6. CASE Checkpoint(current[w].job_id, w, updated[w]) /\ (Goto(w, "staged") \/ Raise(w))
    <2>1. /\ RowsOK' /\ AuditCoversTable' /\ TableKept({w})
          /\ Rows' = Rows /\ UNCHANGED <<tenant, attempts, worker_id>>
          /\ payload'[current[w].job_id] = updated[w]
      BY <1>1, <1>3, <1>4, <1>5, <1>6, CheckpointWrites
    <2>2. \A v \in Workers \ {w} : LocalsKept(v)
      BY <1>1, <1>6, LocalTypes, RaiseGoes DEF Goto, LocalsKept
    <2>3. WorkerOK(w)'
      <3>1. CASE Goto(w, "staged")
        <4>1. pc'[w] = "staged"
          BY <3>1, LocalTypes DEF Goto
        <4>2. KnowsJob(w)'
          BY <1>1, <1>2, <2>1, <4>1 DEF KnowsJob, IsClaimed
        <4>3. KnowsStage(w)'
          BY <1>1, <1>3, <4>1 DEF KnowsStage, IsClaimed, Accepts, Stage
        <4>4. KnowsRow(w)'
          BY <1>1, <1>2, <2>1, <4>1 DEF KnowsRow
        <4>5. QED
          BY <4>2, <4>3, <4>4 DEF WorkerOK
      <3>2. CASE Raise(w)
        BY <1>1, <2>1, <3>2, RaiseGoes, FailingKept
      <3>3. QED
        BY <1>6, <3>1, <3>2
    <2>4. QED
      BY <1>1, <2>1, <2>2, <2>3, OthersKept DEF Kept
  <1>7. CASE Goto(w, "failing") /\ UNCHANGED queueVars
    <2>1. pc'[w] = "failing" /\ \A v \in Workers \ {w} : LocalsKept(v)
      BY <1>1, <1>7, LocalTypes DEF Goto, LocalsKept
    <2>2. QED
      BY <1>1, <1>7, <2>1, FailingUntouched
  <1>8. QED
    BY <1>4, <1>6, <1>7 DEF CheckpointStage

LEMMA EmitStageCompletedKeeps ==
  ASSUME WorkerInv, NEW w \in Workers, EmitStageCompleted(w)
  PROVE  Kept
  <1>1. /\ pc[w] = "staged" /\ audit \subseteq audit' /\ hb[w] = "off"
        /\ UNCHANGED <<queueVars, updated, run, heartbeatVars>>
    BY LocalTypes DEF EmitStageCompleted
  <1>2. CASE Resume(w, updated[w])
    <2>1. KnowsStage(w) /\ KnowsRow(w)
      BY DEF WorkerInv, WorkerOK
    <2>2. /\ IsClaimed(w, updated[w]) /\ Accepts(w, updated[w])
          /\ job[w].status \in Staged
          /\ worker_id[current[w].job_id] = w => payload[current[w].job_id] = updated[w]
      BY <1>1, <2>1 DEF KnowsStage, KnowsRow, InStage
    <2>3. /\ updated[w].status \in Durable
          /\ worker_id[updated[w].job_id] = w => payload[updated[w].job_id] = updated[w]
      BY <2>2, Stages DEF Accepts, Stage, IsClaimed
    <2>4. QED
      BY <1>1, <1>2, <2>2, <2>3, ResumeKeeps
  <1>3. CASE Raise(w) /\ UNCHANGED <<current, job>>
    <2>1. pc'[w] = "failing" /\ \A v \in Workers \ {w} : pc'[v] = pc[v]
      BY <1>1, <1>3, RaiseGoes
    <2>2. \A v \in Workers \ {w} : LocalsKept(v)
      BY <1>1, <1>3, <2>1 DEF LocalsKept, heartbeatVars
    <2>3. QED
      BY <1>1, <1>3, <2>1, <2>2, FailingUntouched DEF heartbeatVars
  <1>4. QED
    BY <1>2, <1>3 DEF EmitStageCompleted

LEMMA CheckpointDryRunKeeps ==
  ASSUME WorkerInv, NEW w \in Workers, CheckpointDryRun(w)
  PROVE  Kept
  <1>1. /\ pc[w] = "finish" /\ hb[w] = "off"
        /\ UNCHANGED <<current, job, updated, run, hb, audit>>
    BY LocalTypes DEF CheckpointDryRun, heartbeatVars
  <1>2. KnowsJob(w) /\ KnowsStage(w) /\ KnowsRow(w)
    BY DEF WorkerInv, WorkerOK
  <1>3. /\ IsClaimed(w, current[w]) /\ current[w].status = "dry-run-complete"
        /\ current[w].status \in Durable
    BY <1>1, <1>2 DEF KnowsJob, KnowsStage
  <1>4. CASE Checkpoint(current[w].job_id, w, current[w]) /\ (Goto(w, "announce") \/ Raise(w))
    <2>1. /\ RowsOK' /\ AuditCoversTable' /\ TableKept({w})
          /\ Rows' = Rows /\ UNCHANGED <<tenant, attempts, worker_id>>
          /\ payload'[current[w].job_id] = current[w]
      BY <1>1, <1>3, <1>4, CheckpointWrites
    <2>2. \A v \in Workers \ {w} : LocalsKept(v)
      BY <1>1, <1>4, LocalTypes, RaiseGoes DEF Goto, LocalsKept
    <2>3. WorkerOK(w)'
      <3>1. CASE Goto(w, "announce")
        <4>1. pc'[w] = "announce"
          BY <3>1, LocalTypes DEF Goto
        <4>2. KnowsJob(w)'
          BY <1>1, <1>2, <2>1, <4>1 DEF KnowsJob, IsClaimed
        <4>3. KnowsStage(w)'
          BY <1>1, <1>3, <4>1 DEF KnowsStage, InStage, Started
        <4>4. KnowsRow(w)'
          BY <1>1, <1>2, <2>1, <4>1 DEF KnowsRow
        <4>5. QED
          BY <4>2, <4>3, <4>4 DEF WorkerOK
      <3>2. CASE Raise(w)
        BY <1>1, <2>1, <3>2, RaiseGoes, FailingKept
      <3>3. QED
        BY <1>4, <3>1, <3>2
    <2>4. QED
      BY <1>1, <2>1, <2>2, <2>3, OthersKept DEF Kept
  <1>5. CASE Goto(w, "failing") /\ UNCHANGED queueVars
    <2>1. pc'[w] = "failing" /\ \A v \in Workers \ {w} : LocalsKept(v)
      BY <1>1, <1>5, LocalTypes DEF Goto, LocalsKept
    <2>2. QED
      BY <1>1, <1>5, <2>1, FailingUntouched
  <1>6. QED
    BY <1>4, <1>5 DEF CheckpointDryRun

LEMMA EmitJobCompletedKeeps ==
  ASSUME WorkerInv, NEW w \in Workers, EmitJobCompleted(w)
  PROVE  Kept
  <1>1. /\ pc[w] = "announce" /\ hb[w] = "off"
        /\ audit' = audit \cup {Event(current[w], "job_completed", current[w].status)}
        /\ UNCHANGED <<queueVars, current, job, updated, run, hb>>
    BY LocalTypes DEF EmitJobCompleted, heartbeatVars
  <1>2. CASE Goto(w, "complete")
    <2>1. KnowsJob(w) /\ KnowsStage(w) /\ KnowsRow(w)
      BY DEF WorkerInv, WorkerOK
    <2>2. pc'[w] = "complete" /\ \A v \in Workers \ {w} : LocalsKept(v)
      BY <1>1, <1>2, LocalTypes DEF Goto, LocalsKept
    <2>3. KnowsJob(w)'
      BY <1>1, <2>1, <2>2 DEF KnowsJob, IsClaimed, queueVars, Rows
    <2>4. KnowsStage(w)'
      BY <1>1, <2>1, <2>2 DEF KnowsStage, InStage, Started
    <2>5. KnowsRow(w)'
      BY <1>1, <2>1, <2>2 DEF KnowsRow, queueVars
    <2>6. QED
      BY <1>1, <2>2, <2>3, <2>4, <2>5, TableUntouched DEF WorkerOK
  <1>3. CASE Raise(w)
    <2>1. pc'[w] = "failing" /\ \A v \in Workers \ {w} : pc'[v] = pc[v]
      BY <1>1, <1>3, RaiseGoes
    <2>2. \A v \in Workers \ {w} : LocalsKept(v)
      BY <1>1, <2>1 DEF LocalsKept
    <2>3. QED
      BY <1>1, <2>1, <2>2, FailingUntouched
  <1>4. QED
    BY <1>2, <1>3 DEF EmitJobCompleted

(* What complete() and fail() leave behind when they give up the row.      *)
LEMMA UpdateOwnedWrites ==
  ASSUME WorkerInv, NEW w \in Workers, pc[w] # "idle",
         NEW p, IsClaimed(w, p), p.status \in {"queued", "dry-run-complete"},
         UpdateOwned(current[w].job_id, w, p, p.status), UNCHANGED audit,
         Statement(w),
         p.status = "dry-run-complete" =>
           Event(p, "job_completed", "dry-run-complete") \in audit
  PROVE  /\ RowsOK' /\ AuditCoversTable' /\ TableKept({w})
         /\ worker_id'[current[w].job_id] # w
  <1> DEFINE j == current[w].job_id
  <1>1. KnowsJob(w) /\ j \in Rows /\ j \in Jobs /\ p \in Payload /\ p.job_id = j
    BY DEF WorkerInv, WorkerOK, KnowsJob, IsClaimed, Rows
  <1>2. p.tenant = tenant[j] /\ p.status \in Durable
    BY <1>1 DEF KnowsJob, IsClaimed, Durable, Staged
  <1>3. TableKept({w})
    BY StatementKeepsTable
  <1>4. RowsOK' /\ AuditCoversTable'
    BY <1>1, <1>2, WrittenRows DEF UpdateOwned, IsClaimed
  <1>5. worker_id'[j] # w
    BY <1>1, NullAssumption DEF UpdateOwned, WorkerInv, TypeOK, QueueTypeOK
  <1>6. QED
    BY <1>3, <1>4, <1>5

LEMMA CompleteJobKeeps ==
  ASSUME WorkerInv, NEW w \in Workers, CompleteJob(w)
  PROVE  Kept
  <1>1. pc[w] = "complete" /\ hb[w] = "off" /\ UNCHANGED <<hb, audit>>
    BY LocalTypes DEF CompleteJob, heartbeatVars
  <1>2. KnowsJob(w) /\ KnowsStage(w)
    BY DEF WorkerInv, WorkerOK
  <1>3. /\ IsClaimed(w, current[w]) /\ current[w].status = "dry-run-complete"
        /\ Event(current[w], "job_completed", "dry-run-complete") \in audit
        /\ current[w] \in Payload /\ current[w].job_id \in Jobs
    BY <1>1, <1>2 DEF KnowsJob, KnowsStage, IsClaimed, Payload
  <1>4. CASE /\ Complete(current[w].job_id, w, current[w])
             /\ \/ Goto(w, "idle") /\ Forget(w)
                \/ Raise(w) /\ UNCHANGED <<current, job, updated, run>>
    <2>1. /\ RowsOK' /\ AuditCoversTable' /\ TableKept({w})
          /\ worker_id'[current[w].job_id] # w
      <3>1. Statement(w)
        BY <1>3, <1>4 DEF Statement
      <3>2. UpdateOwned(current[w].job_id, w, current[w], current[w].status)
        BY <1>4 DEF Complete
      <3>3. QED
        BY <1>1, <1>3, <3>1, <3>2, UpdateOwnedWrites
    <2>2. CASE Goto(w, "idle") /\ Forget(w)
      <3>1. pc'[w] = "idle" /\ \A v \in Workers \ {w} : pc'[v] = pc[v]
        BY <2>2, LocalTypes DEF Goto
      <3>2. \A v \in Workers \ {w} : LocalsKept(v)
        BY <1>1, <2>2, <3>1, ForgetKeepsOthers
      <3>3. WorkerOK(w)'
        BY <1>1, <3>1, IdleKept
      <3>4. QED
        BY <1>1, <2>1, <3>2, <3>3, OthersKept DEF Kept
    <2>3. CASE Raise(w) /\ UNCHANGED <<current, job, updated, run>>
      <3>1. pc'[w] = "failing" /\ \A v \in Workers \ {w} : pc'[v] = pc[v]
        BY <1>1, <2>3, RaiseGoes
      <3>2. \A v \in Workers \ {w} : LocalsKept(v)
        BY <1>1, <2>3, <3>1 DEF LocalsKept
      <3>3. WorkerOK(w)'
        BY <1>1, <2>1, <2>3, <3>1, FailingKept
      <3>4. QED
        BY <1>1, <2>1, <3>2, <3>3, OthersKept DEF Kept
    <2>4. QED
      BY <1>4, <2>2, <2>3
  <1>5. CASE Goto(w, "failing") /\ UNCHANGED <<queueVars, current, job, updated, run>>
    <2>1. pc'[w] = "failing" /\ \A v \in Workers \ {w} : LocalsKept(v)
      BY <1>1, <1>5, LocalTypes DEF Goto, LocalsKept
    <2>2. QED
      BY <1>1, <1>5, <2>1, FailingUntouched
  <1>6. QED
    BY <1>4, <1>5 DEF CompleteJob

LEMMA EmitJobFailedKeeps ==
  ASSUME WorkerInv, NEW w \in Workers, EmitJobFailed(w)
  PROVE  Kept
  <1>1. /\ pc[w] = "failing" /\ hb[w] = "off" /\ audit \subseteq audit'
        /\ UNCHANGED <<queueVars, hb>>
    BY LocalTypes DEF EmitJobFailed, heartbeatVars
  <1>2. CASE Goto(w, "fail") /\ UNCHANGED <<current, job, updated, run>>
    <2>1. pc'[w] = "fail" /\ \A v \in Workers \ {w} : LocalsKept(v)
      BY <1>1, <1>2, LocalTypes DEF Goto, LocalsKept
    <2>2. QED
      BY <1>1, <1>2, <2>1, FailingUntouched
  <1>3. CASE Raise(w) /\ Forget(w)
    <2>1. pc'[w] = "idle" /\ \A v \in Workers \ {w} : pc'[v] = pc[v]
      BY <1>1, <1>3, RaiseGoes
    <2>2. \A v \in Workers \ {w} : LocalsKept(v)
      BY <1>1, <1>3, <2>1, ForgetKeepsOthers
    <2>3. QED
      BY <1>1, <2>1, <2>2, IdleKept, TableUntouched
  <1>4. QED
    BY <1>2, <1>3 DEF EmitJobFailed

(* A job put back is queued, with the patch and results it had.            *)
LEMMA FailJobKeeps ==
  ASSUME WorkerInv, NEW w \in Workers, FailJob(w)
  PROVE  Kept
  <1>1. /\ pc[w] = "fail" /\ hb[w] = "off" /\ Goto(w, "idle") /\ Forget(w)
        /\ UNCHANGED <<hb, audit>>
    BY LocalTypes DEF FailJob, heartbeatVars
  <1>2. pc'[w] = "idle" /\ \A v \in Workers \ {w} : pc'[v] = pc[v]
    BY <1>1, LocalTypes DEF Goto
  <1>3. \A v \in Workers \ {w} : LocalsKept(v)
    BY <1>1, <1>2, ForgetKeepsOthers
  <1>4. WorkerOK(w)'
    BY <1>1, <1>2, IdleKept
  <1>5. CASE Fail(current[w].job_id, w, RetryPayload(w), RetryTicks)
    <2>1. IsClaimed(w, current[w]) /\ current[w] \in Payload /\ current[w].job_id \in Jobs
      BY <1>1 DEF WorkerInv, WorkerOK, KnowsJob, IsClaimed, Payload
    <2>2. /\ RetryPayload(w) \in Payload /\ RetryPayload(w).job_id = current[w].job_id
          /\ RetryPayload(w).tenant = current[w].tenant
          /\ RetryPayload(w).status = "queued"
      BY <2>1, StatusOnly DEF RetryPayload, Statuses
    <2>3. IsClaimed(w, RetryPayload(w))
      BY <2>2 DEF IsClaimed, Sound
    <2>4. Statement(w)
      BY <1>5, <2>1, <2>2 DEF Statement
    <2>5. UpdateOwned(current[w].job_id, w, RetryPayload(w), RetryPayload(w).status)
      BY <1>5, <2>2 DEF Fail
    <2>6. RowsOK' /\ AuditCoversTable' /\ TableKept({w})
      BY <1>1, <2>2, <2>3, <2>4, <2>5, UpdateOwnedWrites
    <2>7. QED
      BY <1>1, <1>3, <1>4, <2>6, OthersKept DEF Kept
  <1>6. CASE UNCHANGED queueVars
    BY <1>1, <1>3, <1>4, <1>6, TableUntouched
  <1>7. QED
    BY <1>5, <1>6 DEF FailJob

LEMMA CallFailsKeeps ==
  ASSUME WorkerInv, NEW w \in Workers, CallFails(w)
  PROVE  Kept
  <1>1. /\ pc[w] # "idle" /\ hb[w] = "off" /\ Raise(w)
        /\ UNCHANGED <<queueVars, hb, audit>>
        /\ IF pc'[w] = "idle" THEN Forget(w) ELSE UNCHANGED <<current, job, updated, run>>
    BY LocalTypes DEF CallFails, heartbeatVars
  <1>2. \A v \in Workers \ {w} : pc'[v] = pc[v] /\ hb'[v] = hb[v]
    BY <1>1, RaiseGoes
  <1>3. CASE pc'[w] = "idle"
    <2>1. \A v \in Workers \ {w} : LocalsKept(v)
      BY <1>1, <1>2, <1>3, ForgetKeepsOthers
    <2>2. QED
      BY <1>1, <1>3, <2>1, IdleKept, TableUntouched
  <1>4. CASE pc'[w] # "idle"
    <2>1. pc'[w] = "failing" /\ \A v \in Workers \ {w} : LocalsKept(v)
      BY <1>1, <1>2, <1>4, RaiseGoes DEF LocalsKept
    <2>2. QED
      BY <1>1, <1>4, <2>1, FailingUntouched
  <1>5. QED
    BY <1>3, <1>4

LEMMA CrashKeeps ==
  ASSUME WorkerInv, NEW w \in Workers, Crash(w)
  PROVE  Kept
  <1>1. /\ pc' = [pc EXCEPT ![w] = "idle"] /\ hb' = [hb EXCEPT ![w] = "off"]
        /\ Forget(w) /\ UNCHANGED <<queueVars, audit>>
    BY DEF Crash
  <1>2. /\ pc'[w] = "idle" /\ hb'[w] = "off"
        /\ \A v \in Workers \ {w} : pc'[v] = pc[v] /\ hb'[v] = hb[v]
    BY <1>1, LocalTypes
  <1>3. \A v \in Workers \ {w} : LocalsKept(v)
    BY <1>1, <1>2, ForgetKeepsOthers
  <1>4. QED
    BY <1>1, <1>2, <1>3, IdleKept, TableUntouched

(* Heartbeats and the clock touch leases and waits only.                   *)
LEMMA LeasesOnly ==
  ASSUME WorkerInv, UNCHANGED <<status, payload, tenant, worker_id, attempts>>,
         UNCHANGED <<workerVars, audit>>,
         \A v \in Workers : hb'[v] # "off" => pc[v] \in {"handler", "exit"}
  PROVE  Kept
  <1>1. RowsOK' /\ AuditCoversTable'
    BY UnwrittenRows
  <1>2. ASSUME NEW v \in Workers
        PROVE  WorkerOK(v)'
    <2>1. KnowsJob(v) /\ KnowsStage(v) /\ KnowsRow(v)
      BY DEF WorkerInv, WorkerOK
    <2>2. KnowsJob(v)'
      BY <2>1 DEF KnowsJob, IsClaimed, Rows, workerVars
    <2>3. KnowsStage(v)'
      BY <2>1 DEF KnowsStage, IsClaimed, Accepts, Stage, workerVars
    <2>4. KnowsRow(v)'
      BY <2>1 DEF KnowsRow, workerVars
    <2>5. QED
      BY <2>2, <2>3, <2>4 DEF WorkerOK
  <1>3. QED
    BY <1>1, <1>2 DEF Kept

LEMMA HeartbeatKeeps ==
  ASSUME WorkerInv, NEW w \in Workers, HeartbeatStep(w)
  PROVE  Kept
  <1>1. pc[w] \in {"handler", "exit"}
    BY LocalTypes DEF HeartbeatStep, HeartbeatWakes, HeartbeatRenews
  <1>2. \A v \in Workers : hb'[v] # "off" => pc[v] \in {"handler", "exit"}
    <2>1. \A v \in Workers \ {w} : hb'[v] = hb[v]
      BY LocalTypes DEF HeartbeatStep, HeartbeatWakes, HeartbeatRenews
    <2>2. QED
      BY <1>1, <2>1, LocalTypes
  <1>3. UNCHANGED <<status, payload, tenant, worker_id, attempts>>
    BY DEF HeartbeatStep, HeartbeatWakes, HeartbeatRenews, RenewLease, queueVars
  <1>4. UNCHANGED <<workerVars, audit>>
    BY DEF HeartbeatStep, HeartbeatWakes, HeartbeatRenews
  <1>5. QED
    BY <1>2, <1>3, <1>4, LeasesOnly

LEMMA LateAndIdleKeep ==
  ASSUME WorkerInv,
         \/ \E r \in detached : DetachedRenews(r)
         \/ Tick
         \/ UNCHANGED vars
  PROVE  Kept
  <1>1. UNCHANGED <<status, payload, tenant, worker_id, attempts>>
    BY DEF DetachedRenews, RenewLease, Tick, QueueTick, vars, queueVars
  <1>2. UNCHANGED <<workerVars, audit, hb>>
    BY DEF DetachedRenews, Tick, vars, heartbeatVars
  <1>3. QED
    BY <1>1, <1>2, LeasesOnly, LocalTypes

(* A new row is queued and has no work yet.                                *)
LEMMA SubmitKeeps ==
  ASSUME WorkerInv, NEW j \in Jobs, Submit(j)
  PROVE  Kept
  <1>1. PICK t \in Tenants :
          Enqueue([job_id |-> j, tenant |-> t, status |-> "queued",
                   work |-> [patch |-> 0, verification |-> 0]])
    BY DEF Submit
  <1> DEFINE p == [job_id |-> j, tenant |-> t, status |-> "queued",
                   work |-> [patch |-> 0, verification |-> 0]]
  <1>2. /\ p \in Payload /\ p.job_id = j /\ p.tenant = t /\ p.status = "queued"
    BY WorkAssumption, AttemptsAssumption DEF Payload, Statuses
  <1> HIDE DEF p
  <1>3. /\ j \notin Rows
        /\ status' = [status EXCEPT ![j] = "queued"]
        /\ payload' = [payload EXCEPT ![j] = p]
        /\ tenant' = [tenant EXCEPT ![j] = t]
        /\ UNCHANGED <<worker_id, attempts>>
    BY <1>1, <1>2 DEF Enqueue, p
  <1>4. /\ status \in [Jobs -> RowStatuses] /\ payload \in [Jobs -> Payload \cup {NULL}]
        /\ tenant \in [Jobs -> Tenants \cup {NULL}]
        /\ attempts \in [Jobs -> 0 .. MaxAttempts]
        /\ worker_id \in [Jobs -> Workers \cup {NULL}]
    BY DEF WorkerInv, TypeOK, QueueTypeOK
  <1>5. UNCHANGED <<workerVars, hb, audit>>
    BY DEF Submit, heartbeatVars
  <1>6. /\ Rows' = Rows \cup {j}
        /\ payload'[j] = p /\ tenant'[j] = t /\ status'[j] = "queued"
        /\ \A i \in Rows : /\ payload'[i] = payload[i] /\ tenant'[i] = tenant[i]
                           /\ status'[i] = status[i]
    BY <1>3, <1>4 DEF Rows
  <1>7. worker_id[j] = NULL
    BY <1>3 DEF WorkerInv, OwnershipConsistent, Rows
  <1>8. TableKept({})
    <2>1. \A i \in Rows : i \in Jobs /\ attempts[i] \in Nat
      BY <1>4, AttemptsAssumption DEF Rows
    <2>2. \A i \in Jobs \ {j} : payload'[i] = payload[i]
      BY <1>3, <1>4
    <2>3. \A v \in Workers : worker_id[j] # v
      BY <1>7, NullAssumption
    <2>4. QED
      BY <1>3, <1>6, <2>1, <2>2, <2>3 DEF TableKept
  <1>9. RowsOK'
    <2>1. RowOK(j)'
      BY <1>2, <1>6 DEF RowOK, Sound, Durable, Staged
    <2>2. ASSUME NEW i \in Rows PROVE RowOK(i)'
      BY <1>6 DEF WorkerInv, RowsOK, RowOK
    <2>3. QED
      BY <1>6, <2>1, <2>2 DEF RowsOK
  <1>10. AuditCoversTable'
    <2>1. ASSUME NEW i \in Rows \cup {j}
          PROVE  /\ payload'[i].status \notin {"queued", "dry-run-complete"} =>
                      \E e \in audit : /\ e.job_id = i
                                       /\ e.type = "stage_started"
                                       /\ e.to = payload'[i].status
                 /\ status'[i] = "dry-run-complete" =>
                      \E e \in audit : e.job_id = i /\ e.type = "job_completed"
      <3>1. CASE i = j
        BY <1>2, <1>6, <3>1
      <3>2. CASE i \in Rows
        BY <1>6, <3>2 DEF WorkerInv, AuditCoversTable
      <3>3. QED
        BY <3>1, <3>2
    <2>2. QED
      BY <1>5, <1>6, <2>1 DEF AuditCoversTable
  <1>11. ASSUME NEW v \in Workers
         PROVE  WorkerOK(v)'
    BY <1>5, <1>8, OthersKept DEF LocalsKept, workerVars
  <1>12. QED
    BY <1>9, <1>10, <1>11 DEF Kept

-----------------------------------------------------------------------------
(* Whatever a worker or its heartbeat does to the table is one statement.  *)
LEMMA StepIsStatement ==
  ASSUME WorkerInv, NEW w \in Workers,
         WorkerStep(w) \/ HeartbeatStep(w) \/ CallFails(w) \/ Crash(w)
  PROVE  Statement(w) \/ UNCHANGED queueVars
  <1>1. CASE WorkerStep(w)
    <2>1. /\ pc[w] # "idle" => /\ current[w] \in Payload /\ current[w].job_id \in Jobs
                               /\ RetryPayload(w) \in Payload
          /\ pc[w] = "checkpoint" => /\ updated[w] \in Payload
                                     /\ job[w] \in Payload /\ job[w].job_id \in Jobs
      <3>1. pc[w] # "idle" => current[w] \in Payload
        BY DEF WorkerInv, WorkerOK, KnowsJob, IsClaimed
      <3>2. pc[w] = "checkpoint" => updated[w] \in Payload /\ job[w] \in Payload
        BY DEF WorkerInv, WorkerOK, KnowsStage, IsClaimed, InStage
      <3>3. \A p \in Payload : p.job_id \in Jobs
        BY DEF Payload
      <3>4. \A p \in Payload : WithStatus(p, "queued") \in Payload
        BY StatusOnly DEF Statuses
      <3>5. QED
        BY <3>1, <3>2, <3>3, <3>4 DEF RetryPayload
    <2>2. CASE ClaimJob(w)
      BY <2>2 DEF ClaimJob, Statement
    <2>3. CASE CheckpointStage(w)
      BY <2>1, <2>3 DEF CheckpointStage, Statement
    <2>4. CASE CheckpointDryRun(w)
      BY <2>1, <2>4 DEF CheckpointDryRun, Statement
    <2>5. CASE CompleteJob(w)
      BY <2>1, <2>5 DEF CompleteJob, Statement
    <2>6. CASE FailJob(w)
      BY <2>1, <2>6 DEF FailJob, Statement
    <2>7. CASE \/ EmitJobClaimed(w) \/ EmitStageStarted(w) \/ HandlerReturns(w)
               \/ ExitHeartbeat(w) \/ EmitStageCompleted(w)
               \/ EmitJobCompleted(w) \/ EmitJobFailed(w)
      BY <2>7 DEF EmitJobClaimed, EmitStageStarted, HandlerReturns, ExitHeartbeat,
                  EmitStageCompleted, EmitJobCompleted, EmitJobFailed
    <2>8. QED
      BY <1>1, <2>2, <2>3, <2>4, <2>5, <2>6, <2>7 DEF WorkerStep
  <1>2. CASE HeartbeatStep(w)
    <2>1. hb[w] = "renewing" => job[w].job_id \in Jobs
      BY DEF WorkerInv, WorkerOK, KnowsStage, IsClaimed, InStage, Payload
    <2>2. QED
      BY <1>2, <2>1 DEF HeartbeatStep, HeartbeatWakes, HeartbeatRenews, Statement
  <1>3. CASE CallFails(w) \/ Crash(w)
    BY <1>3 DEF CallFails, Crash
  <1>4. QED
    BY <1>1, <1>2, <1>3

LEMMA LateRenewalIsStatement ==
  ASSUME WorkerInv, NEW r \in detached, DetachedRenews(r)
  PROVE  /\ r.worker \in Workers
         /\ Statement(r.worker) \/ UNCHANGED queueVars
  <1>1. r.job_id \in Jobs /\ r.worker \in Workers
    BY DEF WorkerInv, TypeOK
  <1>2. QED
    BY <1>1 DEF DetachedRenews, Statement

(* So every step of the workers is a step of the queue.                    *)
LEMMA WorkerStepIsQueueStep == WorkerInv /\ [Next]_vars => [QueueNext]_queueVars
  <1> SUFFICES ASSUME WorkerInv, [Next]_vars
               PROVE  [QueueNext]_queueVars
    OBVIOUS
  <1>1. ASSUME NEW w \in Workers, Statement(w)
        PROVE  QueueNext
    BY <1>1, Durations DEF Statement, QueueNext
  <1>2. ASSUME NEW j \in Jobs, Submit(j)
        PROVE  QueueNext
    <2>1. PICK t \in Tenants :
            Enqueue([job_id |-> j, tenant |-> t, status |-> "queued",
                     work |-> [patch |-> 0, verification |-> 0]])
      BY <1>2 DEF Submit
    <2>2. [job_id |-> j, tenant |-> t, status |-> "queued",
           work |-> [patch |-> 0, verification |-> 0]] \in Payload
      BY WorkAssumption, AttemptsAssumption DEF Payload, Statuses
    <2>3. QED
      BY <2>1, <2>2 DEF NewJob, QueueNext
  <1>3. Tick => QueueNext
    BY DEF Tick, QueueNext
  <1>4. UNCHANGED vars => UNCHANGED queueVars
    BY DEF vars
  <1>5. QED
    BY <1>1, <1>2, <1>3, <1>4, StepIsStatement, LateRenewalIsStatement
       DEF Next, ProcessNext

(* The types of the workers' variables.                                    *)
LEMMA WorkerStepTypes == WorkerInv /\ [Next]_vars => TypeOK'
  <1> SUFFICES ASSUME WorkerInv, [Next]_vars
               PROVE  TypeOK'
    OBVIOUS
  <1>1. QueueTypeOK'
    BY WorkerStepIsQueueStep, QueueStepInv DEF WorkerInv, TypeOK, QueueInv
  <1> DEFINE
        RunTypes == /\ pc \in [Workers -> Labels]
                    /\ current \in [Workers -> Payload \cup {NULL}]
                    /\ job \in [Workers -> Payload \cup {NULL}]
                    /\ updated \in [Workers -> Payload \cup {NULL}]
                    /\ run \in [Workers -> 0 .. MaxAttempts]
        BeatTypes == /\ hb \in [Workers -> {"off", "waiting", "renewing", "failed"}]
                     /\ hb_left \in [Workers -> Int]
                     /\ \A r \in detached : r.job_id \in Jobs /\ r.worker \in Workers
                     /\ faults \in 0 .. MaxFaults
  <1>2. RunTypes /\ BeatTypes
    BY DEF WorkerInv, TypeOK
  <1>3. HeartbeatInterval \in Int /\ MaxFaults \in Nat /\ HeartbeatLag \in Nat
    BY Durations, WorkerChoices
  <1>4. ASSUME NEW w \in Workers
        PROVE  /\ pc[w] # "idle" => current[w] \in Payload
               /\ pc[w] \in InStage => job[w] \in Payload /\ job[w].status \in Staged
               /\ pc[w] \in {"checkpoint", "staged"} => updated[w] \in Payload
               /\ hb[w] # "off" => job[w].job_id \in Jobs
    BY DEF WorkerInv, WorkerOK, KnowsJob, KnowsStage, IsClaimed, InStage, Payload
  <1>5. ASSUME NEW w \in Workers, Raise(w)
        PROVE  pc' \in [Workers -> Labels] /\ faults' \in 0 .. MaxFaults
    BY <1>2, <1>3, <1>5 DEF Raise, AfterError, Labels
  <1>6. ASSUME NEW w \in Workers, NEW l \in Labels, Goto(w, l)
        PROVE  pc' \in [Workers -> Labels] /\ faults' \in 0 .. MaxFaults
    BY <1>2, <1>6 DEF Goto
  <1>7. ASSUME NEW w \in Workers, Forget(w)
        PROVE  /\ current' \in [Workers -> Payload \cup {NULL}]
               /\ job' \in [Workers -> Payload \cup {NULL}]
               /\ updated' \in [Workers -> Payload \cup {NULL}]
               /\ run' \in [Workers -> 0 .. MaxAttempts]
    BY <1>2, <1>7, AttemptsAssumption DEF Forget
  <1>8. ASSUME NEW w \in Workers, NEW p \in Payload, Resume(w, p)
        PROVE  /\ pc' \in [Workers -> Labels] /\ faults' \in 0 .. MaxFaults
               /\ current' \in [Workers -> Payload \cup {NULL}]
               /\ job' \in [Workers -> Payload \cup {NULL}]
    <2>1. WithStatus(p, "dry-run-complete") \in Payload
      BY StatusOnly DEF Statuses
    <2>2. /\ \E l \in Labels : Goto(w, l)
          /\ \/ UNCHANGED current
             \/ current' = [current EXCEPT ![w] = WithStatus(p, "dry-run-complete")]
             \/ current' = [current EXCEPT ![w] = p]
          /\ job' = [job EXCEPT ![w] = p]
      BY <1>8 DEF Resume, Labels
    <2>3. QED
      BY <1>2, <1>6, <2>1, <2>2
  <1>9. ASSUME NEW w \in Workers, ClaimJob(w)
        PROVE  (RunTypes /\ BeatTypes)'
    <2>1. PICK j \in Jobs :
            /\ Claim(j, w, LeaseTicks)
            /\ \/ /\ Goto(w, "claimed")
                  /\ current' = [current EXCEPT ![w] = Claimed(payload[j])]
                  /\ run' = [run EXCEPT ![w] = attempts[j] + 1]
               \/ Raise(w) /\ UNCHANGED <<current, run>>
      BY <1>9 DEF ClaimJob
    <2>2. attempts[j] + 1 \in 0 .. MaxAttempts
      BY <2>1, AttemptsAssumption DEF Claim, WorkerInv, TypeOK, QueueTypeOK
    <2>3. Claimed(payload[j]) \in Payload
      <3>1. payload[j] \in Payload
        BY <2>1 DEF Claim, Candidate, Claimable, Rows, WorkerInv, RowsOK, RowOK
      <3>2. QED
        BY <3>1, StatusOnly DEF Claimed, Statuses
    <2>4. pc' \in [Workers -> Labels] /\ faults' \in 0 .. MaxFaults
      BY <1>5, <1>6, <2>1 DEF Labels
    <2>5. QED
      BY <1>2, <1>9, <2>1, <2>2, <2>3, <2>4 DEF ClaimJob, heartbeatVars
  <1>10. ASSUME NEW w \in Workers, EmitJobClaimed(w) \/ EmitStageCompleted(w)
         PROVE  (RunTypes /\ BeatTypes)'
    <2>1. \/ \E p \in Payload : Resume(w, p)
          \/ Raise(w) /\ UNCHANGED <<current, job>>
      BY <1>4, <1>10 DEF EmitJobClaimed, EmitStageCompleted
    <2>2. /\ pc' \in [Workers -> Labels] /\ faults' \in 0 .. MaxFaults
          /\ current' \in [Workers -> Payload \cup {NULL}]
          /\ job' \in [Workers -> Payload \cup {NULL}]
      BY <1>2, <1>5, <1>8, <2>1
    <2>3. QED
      BY <1>2, <1>10, <2>2 DEF EmitJobClaimed, EmitStageCompleted, heartbeatVars
  <1>11. ASSUME NEW w \in Workers, EmitStageStarted(w)
         PROVE  (RunTypes /\ BeatTypes)'
    <2>1. pc' \in [Workers -> Labels] /\ faults' \in 0 .. MaxFaults
      BY <1>5, <1>6, <1>11 DEF EmitStageStarted, Labels
    <2>2. QED
      BY <1>2, <1>3, <1>11, <2>1 DEF EmitStageStarted
  <1>12. ASSUME NEW w \in Workers, HandlerReturns(w)
         PROVE  (RunTypes /\ BeatTypes)'
    <2> DEFINE staged == WithStatus(job[w], Stage(w))
    <2>1. job[w] \in Payload /\ job[w].status \in Staged
      BY <1>4, <1>12 DEF HandlerReturns, InStage
    <2>2. HandlerResult(staged, w) \in Payload
      <3>1. KnowsJob(w) /\ KnowsStage(w) /\ pc[w] = "handler"
        BY <1>12 DEF HandlerReturns, WorkerInv, WorkerOK
      <3>2. run[w] \in 1 .. MaxAttempts /\ Sound(job[w])
        BY <1>2, <3>1, AttemptsAssumption DEF KnowsJob, KnowsStage, IsClaimed, InStage
      <3>3. QED
        BY <2>1, <3>2, HandlerKeepsSound DEF Stage
    <2>3. \A u \in HandlerFailures(staged) : u \in Payload \cup {NULL}
      BY <2>1, FailuresRefused
    <2>4. \E u \in Payload \cup {NULL} : updated' = [updated EXCEPT ![w] = u]
      BY <1>12, <2>2, <2>3 DEF HandlerReturns
    <2>5. faults' \in 0 .. MaxFaults /\ pc' \in [Workers -> Labels]
      BY <1>2, <1>3, <1>12 DEF HandlerReturns, Labels
    <2>6. QED
      BY <1>2, <1>12, <2>4, <2>5 DEF HandlerReturns, heartbeatVars
  <1>13. ASSUME NEW w \in Workers, ExitHeartbeat(w) \/ Crash(w)
         PROVE  BeatTypes'
    <2>1. faults' \in 0 .. MaxFaults
      BY <1>2, <1>3, <1>13 DEF ExitHeartbeat, Crash
    <2>2. \/ detached' = detached
          \/ /\ hb[w] # "off"
             /\ detached' = detached \cup {[job_id |-> job[w].job_id, worker |-> w]}
      BY <1>13 DEF ExitHeartbeat, Crash
    <2>3. \A r \in detached' : r.job_id \in Jobs /\ r.worker \in Workers
      BY <1>2, <1>4, <2>2
    <2>4. QED
      BY <1>2, <1>13, <2>1, <2>3 DEF ExitHeartbeat, Crash
  <1>14. ASSUME NEW w \in Workers, ExitHeartbeat(w)
         PROVE  RunTypes'
    <2>1. \E l \in Labels : pc' = [pc EXCEPT ![w] = l]
      BY <1>14 DEF ExitHeartbeat, Labels
    <2>2. QED
      BY <1>2, <1>14, <2>1 DEF ExitHeartbeat
  <1>15. ASSUME NEW w \in Workers, Crash(w)
         PROVE  RunTypes'
    BY <1>2, <1>7, <1>15 DEF Crash, Labels
  <1>16. ASSUME NEW w \in Workers,
                \/ CheckpointStage(w) \/ CheckpointDryRun(w) \/ EmitJobCompleted(w)
         PROVE  (RunTypes /\ BeatTypes)'
    <2>1. Raise(w) \/ \E l \in Labels : Goto(w, l)
      BY <1>16 DEF CheckpointStage, CheckpointDryRun, EmitJobCompleted, Labels
    <2>2. pc' \in [Workers -> Labels] /\ faults' \in 0 .. MaxFaults
      BY <1>5, <1>6, <2>1
    <2>3. QED
      BY <1>2, <1>16, <2>2
         DEF CheckpointStage, CheckpointDryRun, EmitJobCompleted, heartbeatVars
  <1>17. ASSUME NEW w \in Workers,
                \/ CompleteJob(w) \/ EmitJobFailed(w) \/ FailJob(w) \/ CallFails(w)
         PROVE  (RunTypes /\ BeatTypes)'
    <2>1. /\ Raise(w) \/ \E l \in Labels : Goto(w, l)
          /\ Forget(w) \/ UNCHANGED <<current, job, updated, run>>
          /\ UNCHANGED heartbeatVars
      BY <1>17 DEF CompleteJob, EmitJobFailed, FailJob, CallFails, Labels
    <2>2. pc' \in [Workers -> Labels] /\ faults' \in 0 .. MaxFaults
      BY <1>5, <1>6, <2>1
    <2>3. QED
      BY <1>2, <1>7, <2>1, <2>2 DEF heartbeatVars
  <1>18. ASSUME NEW w \in Workers, HeartbeatStep(w)
         PROVE  (RunTypes /\ BeatTypes)'
    BY <1>2, <1>3, <1>18
       DEF HeartbeatStep, HeartbeatWakes, HeartbeatRenews, workerVars
  <1>19. ASSUME \/ \E r \in detached : DetachedRenews(r)
                \/ \E j \in Jobs : Submit(j)
                \/ Tick \/ UNCHANGED vars
         PROVE  (RunTypes /\ BeatTypes)'
    BY <1>2, <1>3, <1>19
       DEF DetachedRenews, Submit, Tick, vars, workerVars, heartbeatVars
  <1> HIDE DEF RunTypes, BeatTypes
  <1>20. (RunTypes /\ BeatTypes)'
    BY <1>9, <1>10, <1>11, <1>12, <1>13, <1>14, <1>15, <1>16, <1>17, <1>18, <1>19
       DEF Next, ProcessNext, WorkerStep
  <1>21. QED
    BY <1>1, <1>20 DEF TypeOK, RunTypes, BeatTypes

-----------------------------------------------------------------------------
(* An empty table and idle workers satisfy the invariant.                  *)
LEMMA WorkerInitInv == Init => WorkerInv
  <1> SUFFICES ASSUME Init PROVE WorkerInv
    OBVIOUS
  <1>1. QueueInv
    BY QueueInitInv DEF Init
  <1>2. TypeOK
    BY <1>1, AttemptsAssumption, WorkerChoices DEF Init, QueueInv, TypeOK, Labels
  <1>3. RowsOK /\ AuditCoversTable
    BY DEF Init, QueueInit, RowsOK, AuditCoversTable, Rows
  <1>4. ASSUME NEW w \in Workers
        PROVE  WorkerOK(w)
    BY DEF Init, WorkerOK, KnowsJob, KnowsStage, KnowsRow, InStage, Started
  <1>5. QED
    BY <1>1, <1>2, <1>3, <1>4 DEF WorkerInv, QueueInv

(* Every step of a worker, a heartbeat, a late renewal, the clock or the   *)
(* API preserves it.                                                       *)
LEMMA WorkerStepInv == WorkerInv /\ [Next]_vars => WorkerInv'
  <1> SUFFICES ASSUME WorkerInv, [Next]_vars
               PROVE  WorkerInv'
    OBVIOUS
  <1>1. TypeOK'
    BY WorkerStepTypes
  <1>2. OwnershipConsistent'
    BY WorkerStepIsQueueStep, QueueStepInv DEF WorkerInv, TypeOK, QueueInv
  <1>3. Kept
    BY ClaimJobKeeps, EmitJobClaimedKeeps, EmitStageStartedKeeps,
       HandlerReturnsKeeps, ExitHeartbeatKeeps, CheckpointStageKeeps,
       EmitStageCompletedKeeps, CheckpointDryRunKeeps, EmitJobCompletedKeeps,
       CompleteJobKeeps, EmitJobFailedKeeps, FailJobKeeps, CallFailsKeeps,
       CrashKeeps, HeartbeatKeeps, LateAndIdleKeep, SubmitKeeps
       DEF Next, ProcessNext, WorkerStep
  <1>4. QED
    BY <1>1, <1>2, <1>3 DEF WorkerInv, Kept

(* A worker's variables are its own.                                       *)
LEMMA OthersLeaveLocals ==
  ASSUME WorkerInv, NEW v \in Workers,
         WorkerStep(v) \/ HeartbeatStep(v) \/ CallFails(v) \/ Crash(v),
         NEW w \in Workers \ {v}
  PROVE  LocalsKept(w) /\ hb_left'[w] = hb_left[w]
  <1>1. /\ pc \in [Workers -> Labels] /\ current \in [Workers -> Payload \cup {NULL}]
        /\ job \in [Workers -> Payload \cup {NULL}]
        /\ updated \in [Workers -> Payload \cup {NULL}]
        /\ run \in [Workers -> 0 .. MaxAttempts]
        /\ hb \in [Workers -> {"off", "waiting", "renewing", "failed"}]
        /\ hb_left \in [Workers -> Int]
    BY DEF WorkerInv, TypeOK
  <1> USE <1>1 DEF LocalsKept
  <1>2. ASSUME NEW l, Goto(v, l) PROVE pc'[w] = pc[w]
    BY <1>2 DEF Goto
  <1>3. ASSUME Raise(v) PROVE pc'[w] = pc[w]
    BY <1>3 DEF Raise
  <1>4. ASSUME Forget(v)
        PROVE  /\ current'[w] = current[w] /\ job'[w] = job[w]
               /\ updated'[w] = updated[w] /\ run'[w] = run[w]
    BY <1>4 DEF Forget
  <1>5. ASSUME NEW p, Resume(v, p)
        PROVE  pc'[w] = pc[w] /\ current'[w] = current[w] /\ job'[w] = job[w]
    <2>1. /\ job' = [job EXCEPT ![v] = p]
          /\ \E l : Goto(v, l)
          /\ UNCHANGED current \/ \E c : current' = [current EXCEPT ![v] = c]
      BY <1>5 DEF Resume
    <2>2. QED
      BY <1>2, <2>1
  <1>6. CASE ClaimJob(v)
    <2>1. /\ pc'[w] = pc[w] /\ current'[w] = current[w] /\ run'[w] = run[w]
      BY <1>2, <1>3, <1>6 DEF ClaimJob
    <2>2. QED
      BY <1>6, <2>1 DEF ClaimJob, heartbeatVars
  <1>7. CASE EmitJobClaimed(v)
    BY <1>3, <1>5, <1>7 DEF EmitJobClaimed, heartbeatVars
  <1>8. CASE EmitStageStarted(v)
    <2>1. pc'[w] = pc[w]
      BY <1>2, <1>3, <1>8 DEF EmitStageStarted
    <2>2. QED
      BY <1>8, <2>1 DEF EmitStageStarted
  <1>9. CASE HandlerReturns(v)
    <2>1. \E u : updated' = [updated EXCEPT ![v] = u]
      BY <1>9 DEF HandlerReturns
    <2>2. QED
      BY <1>9, <2>1 DEF HandlerReturns, heartbeatVars
  <1>10. CASE ExitHeartbeat(v)
    <2>1. \E l : pc' = [pc EXCEPT ![v] = l]
      BY <1>10 DEF ExitHeartbeat
    <2>2. QED
      BY <1>10, <2>1 DEF ExitHeartbeat
  <1>11. CASE CheckpointStage(v) \/ CheckpointDryRun(v) \/ EmitJobCompleted(v)
    <2>1. pc'[w] = pc[w]
      BY <1>2, <1>3, <1>11 DEF CheckpointStage, CheckpointDryRun, EmitJobCompleted
    <2>2. QED
      BY <1>11, <2>1 DEF CheckpointStage, CheckpointDryRun, EmitJobCompleted,
                         heartbeatVars
  <1>12. CASE EmitStageCompleted(v)
    BY <1>3, <1>5, <1>12 DEF EmitStageCompleted, heartbeatVars
  <1>13. CASE CompleteJob(v) \/ EmitJobFailed(v) \/ FailJob(v) \/ CallFails(v)
    <2>1. /\ Raise(v) \/ \E l : Goto(v, l)
          /\ Forget(v) \/ UNCHANGED <<current, job, updated, run>>
          /\ UNCHANGED heartbeatVars
      BY <1>13 DEF CompleteJob, EmitJobFailed, FailJob, CallFails
    <2>2. QED
      BY <1>2, <1>3, <1>4, <2>1 DEF heartbeatVars
  <1>14. CASE Crash(v)
    BY <1>4, <1>14 DEF Crash
  <1>15. CASE HeartbeatStep(v)
    <2>1. \E b : hb' = [hb EXCEPT ![v] = b]
      BY <1>15 DEF HeartbeatStep, HeartbeatWakes, HeartbeatRenews
    <2>2. QED
      BY <1>15, <2>1 DEF HeartbeatStep, HeartbeatWakes, HeartbeatRenews, workerVars
  <1>16. QED
    BY <1>6, <1>7, <1>8, <1>9, <1>10, <1>11, <1>12, <1>13, <1>14, <1>15
       DEF WorkerStep

(* A step that writes is one of the worker whose statement it is.          *)
LEMMA WriterSteps ==
  ASSUME WorkerInv, NEW w \in Workers,
         CheckpointStage(w) \/ CheckpointDryRun(w) \/ CompleteJob(w) \/ FailJob(w)
  PROVE  StepOf(w)
  <1>1. WorkerStep(w)
    BY DEF WorkerStep
  <1>2. \A v \in Workers \ {w} : pc'[v] = pc[v]
    BY <1>1, OthersLeaveLocals DEF LocalsKept
  <1>3. pc \in [Workers -> Labels]
    BY DEF WorkerInv, TypeOK
  <1>4. pc'[w] # pc[w]
    BY <1>3 DEF CheckpointStage, CheckpointDryRun, CompleteJob, FailJob, Goto,
                Raise, AfterError
  <1>5. QED
    BY <1>2, <1>4 DEF StepOf

(* Who writes to a running row, and what.                                  *)
LEMMA RowWriter ==
  ASSUME WorkerInv, [Next]_vars, NEW j \in Jobs, status[j] = "running",
         payload'[j] # payload[j] \/ status'[j] # "running"
  PROVE  \E w \in Workers :
           /\ StepOf(w)
           /\ pc[w] # "idle" /\ current[w].job_id = j /\ Owned(j, w)
           /\ \/ pc[w] = "checkpoint" /\ payload'[j] = updated[w]
              \/ pc[w] = "finish" /\ payload'[j] = current[w]
              \/ status'[j] # "running"
  <1> DEFINE Writes(w) ==
        /\ StepOf(w)
        /\ pc[w] # "idle" /\ current[w].job_id = j /\ Owned(j, w)
        /\ \/ pc[w] = "checkpoint" /\ payload'[j] = updated[w]
           \/ pc[w] = "finish" /\ payload'[j] = current[w]
           \/ status'[j] # "running"
  <1>1. /\ status \in [Jobs -> RowStatuses] /\ payload \in [Jobs -> Payload \cup {NULL}]
    BY DEF WorkerInv, TypeOK, QueueTypeOK
  <1>2. ASSUME NEW i \in Jobs, Submit(i)
        PROVE  FALSE
    <2>1. PICK t \in Tenants :
            Enqueue([job_id |-> i, tenant |-> t, status |-> "queued",
                     work |-> [patch |-> 0, verification |-> 0]])
      BY <1>2 DEF Submit
    <2>2. /\ i \notin Rows
          /\ status' = [status EXCEPT ![i] = "queued"]
          /\ \E p : payload' = [payload EXCEPT ![i] = p]
      BY <2>1 DEF Enqueue
    <2>3. QED
      BY <1>1, <2>2 DEF Rows
  <1>3. ASSUME NEW w \in Workers, ClaimJob(w)
        PROVE  FALSE
    BY <1>1, <1>3 DEF ClaimJob, Claim
  <1>4. ASSUME NEW w \in Workers, CheckpointStage(w)
        PROVE  Writes(w)
    <2>1. pc[w] = "checkpoint"
      BY <1>4 DEF CheckpointStage
    <2>2. job[w].job_id = current[w].job_id
      BY <2>1 DEF WorkerInv, WorkerOK, KnowsStage, IsClaimed, InStage
    <2>3. Checkpoint(current[w].job_id, w, updated[w])
      BY <1>4, <2>2 DEF CheckpointStage, queueVars
    <2>4. /\ payload' = [payload EXCEPT ![current[w].job_id] = updated[w]]
          /\ UNCHANGED status /\ Owned(current[w].job_id, w)
      BY <2>3 DEF Checkpoint, CheckpointEnabled
    <2>5. StepOf(w)
      BY <1>4, WriterSteps
    <2>6. QED
      BY <1>1, <2>1, <2>4, <2>5
  <1>5. ASSUME NEW w \in Workers, CheckpointDryRun(w)
        PROVE  Writes(w)
    <2>1. pc[w] = "finish" /\ Checkpoint(current[w].job_id, w, current[w])
      BY <1>5 DEF CheckpointDryRun, queueVars
    <2>2. /\ payload' = [payload EXCEPT ![current[w].job_id] = current[w]]
          /\ UNCHANGED status /\ Owned(current[w].job_id, w)
      BY <2>1 DEF Checkpoint, CheckpointEnabled
    <2>3. StepOf(w)
      BY <1>5, WriterSteps
    <2>4. QED
      BY <1>1, <2>1, <2>2, <2>3
  <1>6. ASSUME NEW w \in Workers, CompleteJob(w) \/ FailJob(w)
        PROVE  Writes(w)
    <2>1. \/ /\ UpdateOwned(current[w].job_id, w, current[w], current[w].status)
             /\ current[w].status \in TerminalStatuses
          \/ UpdateOwned(current[w].job_id, w, RetryPayload(w), "queued")
      BY <1>6 DEF CompleteJob, FailJob, Complete, CompleteEnabled, Fail, queueVars
    <2>2. current[w].status \in TerminalStatuses => current[w].status # "running"
      BY DEF TerminalStatuses
    <2>3. pc[w] # "idle"
      BY <1>6 DEF CompleteJob, FailJob
    <2>4. StepOf(w)
      BY <1>6, WriterSteps
    <2>5. QED
      BY <1>1, <2>1, <2>2, <2>3, <2>4 DEF UpdateOwned
  <1>7. ASSUME NEW w \in Workers,
               \/ EmitJobClaimed(w) \/ EmitStageStarted(w) \/ HandlerReturns(w)
               \/ ExitHeartbeat(w) \/ EmitStageCompleted(w)
               \/ EmitJobCompleted(w) \/ EmitJobFailed(w)
               \/ HeartbeatStep(w) \/ CallFails(w) \/ Crash(w)
        PROVE  FALSE
    BY <1>7 DEF EmitJobClaimed, EmitStageStarted, HandlerReturns, ExitHeartbeat,
                EmitStageCompleted, EmitJobCompleted, EmitJobFailed, HeartbeatStep,
                HeartbeatWakes, HeartbeatRenews, RenewLease, CallFails, Crash, queueVars
  <1>8. ASSUME \/ \E r \in detached : DetachedRenews(r)
               \/ Tick \/ UNCHANGED vars
        PROVE  FALSE
    BY <1>8 DEF DetachedRenews, RenewLease, Tick, QueueTick, vars, queueVars
  <1> HIDE DEF Writes
  <1>9. \E w \in Workers : Writes(w)
    BY <1>2, <1>3, <1>4, <1>5, <1>6, <1>7, <1>8 DEF Next, ProcessNext, WorkerStep
  <1>10. QED
    BY <1>9 DEF Writes

(* Who extends the lease of a running row without claiming it.             *)
LEMMA LeaseExtender ==
  ASSUME WorkerInv, [Next]_vars, NEW j \in Jobs, status[j] = "running",
         status'[j] = "running", attempts'[j] = attempts[j], lease'[j] > lease[j]
  PROVE  \E w \in Workers : RenewalOf(w, j) /\ Owned(j, w)
  <1>1. /\ status \in [Jobs -> RowStatuses] /\ lease \in [Jobs -> Int \cup {NULL}]
        /\ attempts \in [Jobs -> 0 .. MaxAttempts]
        /\ hb \in [Workers -> {"off", "waiting", "renewing", "failed"}]
    BY DEF WorkerInv, TypeOK, QueueTypeOK
  <1>2. lease[j] \in Int
    BY <1>1 DEF WorkerInv, OwnershipConsistent
  <1>3. lease'[j] # lease[j]
    BY <1>2
  <1>4. ASSUME NEW i \in Jobs, Submit(i)
        PROVE  FALSE
    BY <1>3, <1>4 DEF Submit, Enqueue
  <1>5. ASSUME NEW w \in Workers, ClaimJob(w)
        PROVE  FALSE
    <2>1. PICK i \in Jobs : Claim(i, w, LeaseTicks)
      BY <1>5 DEF ClaimJob
    <2>2. i = j
      BY <1>1, <1>3, <2>1 DEF Claim
    <2>3. attempts'[j] = attempts[j] + 1 /\ attempts[j] \in Int
      BY <1>1, <2>1, <2>2, AttemptsAssumption DEF Claim
    <2>4. attempts[j] + 1 # attempts[j]
      BY <2>3
    <2>5. QED
      BY <2>3, <2>4
  <1>6. ASSUME NEW w \in Workers,
               \/ EmitJobClaimed(w) \/ EmitStageStarted(w) \/ HandlerReturns(w)
               \/ ExitHeartbeat(w) \/ CheckpointStage(w) \/ EmitStageCompleted(w)
               \/ CheckpointDryRun(w) \/ EmitJobCompleted(w) \/ EmitJobFailed(w)
               \/ HeartbeatWakes(w) \/ CallFails(w) \/ Crash(w)
        PROVE  FALSE
    BY <1>3, <1>6 DEF EmitJobClaimed, EmitStageStarted, HandlerReturns, ExitHeartbeat,
                CheckpointStage, EmitStageCompleted, CheckpointDryRun, Checkpoint,
                EmitJobCompleted, EmitJobFailed, HeartbeatWakes, CallFails, Crash,
                queueVars
  <1>7. ASSUME NEW w \in Workers, CompleteJob(w) \/ FailJob(w)
        PROVE  FALSE
    <2> DEFINE i == current[w].job_id
    <2>1. \/ /\ lease' = [lease EXCEPT ![i] = NULL]
             /\ status' = [status EXCEPT ![i] = current[w].status]
             /\ current[w].status \in TerminalStatuses
          \/ /\ lease' = [lease EXCEPT ![i] = NULL]
             /\ status' = [status EXCEPT ![i] = "queued"]
      BY <1>3, <1>7 DEF CompleteJob, FailJob, Complete, CompleteEnabled, Fail,
                        UpdateOwned, queueVars
    <2>2. status'[j] \in TerminalStatuses \cup {"queued"}
      BY <1>1, <1>3, <2>1
    <2>3. QED
      BY <2>2 DEF TerminalStatuses
  <1>8. ASSUME NEW w \in Workers, HeartbeatRenews(w)
        PROVE  RenewalOf(w, j) /\ Owned(j, w)
    <2>1. /\ hb[w] = "renewing" /\ RenewLease(job[w].job_id, w, LeaseTicks)
          /\ hb' = [hb EXCEPT ![w] = "waiting"]
      BY <1>3, <1>8 DEF HeartbeatRenews, queueVars
    <2>2. job[w].job_id = j
      BY <1>1, <1>3, <2>1 DEF RenewLease
    <2>3. hb'[w] = "waiting"
      BY <1>1, <2>1
    <2>4. QED
      BY <2>1, <2>2, <2>3 DEF RenewalOf, RenewLease
  <1>9. ASSUME NEW r \in detached, DetachedRenews(r)
        PROVE  \E w \in Workers : RenewalOf(w, j) /\ Owned(j, w)
    <2>1. /\ RenewLease(r.job_id, r.worker, LeaseTicks)
          /\ detached' = detached \ {r} /\ r.worker \in Workers
      BY <1>3, <1>9 DEF DetachedRenews, queueVars, WorkerInv, TypeOK
    <2>2. r.job_id = j
      BY <1>1, <1>3, <2>1 DEF RenewLease
    <2>3. r \in detached \ detached'
      BY <2>1
    <2>4. QED
      BY <2>1, <2>2, <2>3 DEF RenewalOf, RenewLease
  <1>10. ASSUME Tick PROVE FALSE
    <2>1. lease'[j] = LeaseTickDown(lease[j])
      BY <1>10 DEF Tick, QueueTick
    <2>2. lease[j] # NULL /\ lease[j] \in Int
      BY <1>2, NullAssumption
    <2>3. CASE lease[j] >= 0
      BY <2>1, <2>2, <2>3 DEF LeaseTickDown
    <2>4. CASE lease[j] < 0
      BY <2>1, <2>2, <2>4 DEF LeaseTickDown
    <2>5. QED
      BY <2>2, <2>3, <2>4
  <1>11. ASSUME UNCHANGED vars PROVE FALSE
    BY <1>3, <1>11 DEF vars, queueVars
  <1>12. QED
    BY <1>4, <1>5, <1>6, <1>7, <1>8, <1>9, <1>10, <1>11
       DEF Next, ProcessNext, WorkerStep, HeartbeatStep

-----------------------------------------------------------------------------
(* The workers keep the table and their own variables well typed.          *)
THEOREM WorkerTypeCorrect == Spec => []TypeOK
  BY WorkerInitInv, WorkerStepInv, PTL DEF Spec, WorkerInv

(* A verified or finished row carries results about the patch it carries,  *)
(* whatever was requeued, resumed or written by workers in turn.           *)
THEOREM WorkerVerifiedPatch == Spec => []VerifiedPatch
  <1>1. WorkerInv => VerifiedPatch
    BY DEF WorkerInv, RowsOK, RowOK, Sound, VerifiedPatch
  <1>2. QED
    BY <1>1, WorkerInitInv, WorkerStepInv, PTL DEF Spec

(* No handler gets another job's or tenant's payload into a row.           *)
THEOREM WorkerPayloadIdentity == Spec => []PayloadIdentity
  <1>1. WorkerInv => PayloadIdentity
    BY DEF WorkerInv, RowsOK, RowOK, PayloadIdentity
  <1>2. QED
    BY <1>1, WorkerInitInv, WorkerStepInv, PTL DEF Spec

(* The audit trail is never behind the table.                              *)
THEOREM WorkerAuditCoversTable == Spec => []AuditCoversTable
  BY WorkerInitInv, WorkerStepInv, PTL DEF Spec, WorkerInv

(* A running row is written, and its lease extended, only by the worker    *)
(* whose row it is, in the run of the latest claim, while the lease holds. *)
THEOREM WorkerWritesFenced == Spec => WritesFenced
  <1> DEFINE Writing(j) ==
        payload'[j] # payload[j] \/ status'[j] # "running"
  <1> DEFINE Extended(j) ==
        status'[j] = "running" /\ attempts'[j] = attempts[j]
          /\ lease'[j] > lease[j]
  <1> DEFINE ByTheRun(j) ==
        \E w \in Workers :
          /\ StepOf(w)
          /\ worker_id[j] = w /\ Live(j)
          /\ run[w] = attempts[j] /\ current[w].job_id = j
  <1> DEFINE ByARenewal(j) ==
        \E w \in Workers :
          RenewalOf(w, j) /\ worker_id[j] = w /\ Live(j)
  <1> DEFINE Fenced ==
        \A j \in Jobs :
          status[j] = "running" =>
            /\ Writing(j) => ByTheRun(j)
            /\ Extended(j) => ByARenewal(j)
  <1>1. WorkerInv /\ [Next]_vars => Fenced
    <2> SUFFICES ASSUME WorkerInv, [Next]_vars, NEW j \in Jobs, status[j] = "running"
                 PROVE  (Writing(j) => ByTheRun(j)) /\ (Extended(j) => ByARenewal(j))
      OBVIOUS
    <2>1. Writing(j) => ByTheRun(j)
      <3>1. ASSUME Writing(j) PROVE ByTheRun(j)
        <4>1. PICK w \in Workers : /\ StepOf(w) /\ pc[w] # "idle"
                                   /\ current[w].job_id = j /\ Owned(j, w)
          BY <3>1, RowWriter
        <4>2. run[w] = attempts[j]
          BY <4>1 DEF WorkerInv, WorkerOK, KnowsRow, Owned
        <4>3. QED
          BY <4>1, <4>2 DEF Owned
      <3>2. QED
        BY <3>1
    <2>2. Extended(j) => ByARenewal(j)
      <3>1. ASSUME Extended(j) PROVE ByARenewal(j)
        <4>1. PICK w \in Workers : RenewalOf(w, j) /\ Owned(j, w)
          BY <3>1, LeaseExtender
        <4>2. worker_id[j] = w /\ Live(j)
          BY <4>1 DEF Owned
        <4>3. QED
          BY <4>1, <4>2
      <3>2. QED
        BY <3>1
    <2>3. QED
      BY <2>1, <2>2
  <1> HIDE DEF Fenced
  <1>2. Spec => [][Fenced]_vars
    BY <1>1, WorkerInitInv, WorkerStepInv, PTL DEF Spec
  <1>3. QED
    BY <1>2 DEF Fenced, WritesFenced

(* Durable progress goes one stage forward at a time, except by fail().    *)
THEOREM WorkerProgressKept == Spec => ProgressKept
  <1> DEFINE OneStage ==
        \A j \in Jobs :
          status[j] = "running" /\ status'[j] = "running"
            /\ payload'[j] # payload[j]
          => StageRank(payload'[j].status) = StageRank(payload[j].status) + 1
  <1>1. WorkerInv /\ [Next]_vars => OneStage
    <2> SUFFICES ASSUME WorkerInv, [Next]_vars, NEW j \in Jobs,
                        status[j] = "running", status'[j] = "running",
                        payload'[j] # payload[j]
                 PROVE  StageRank(payload'[j].status) = StageRank(payload[j].status) + 1
      OBVIOUS
    <2>1. PICK w \in Workers :
            /\ pc[w] # "idle" /\ current[w].job_id = j /\ Owned(j, w)
            /\ \/ pc[w] = "checkpoint" /\ payload'[j] = updated[w]
               \/ pc[w] = "finish" /\ payload'[j] = current[w]
      BY RowWriter
    <2>2. KnowsStage(w) /\ KnowsRow(w) /\ worker_id[j] = w
      BY <2>1 DEF WorkerInv, WorkerOK, Owned
    <2>3. CASE pc[w] = "checkpoint" /\ payload'[j] = updated[w]
      <3>1. /\ payload[j] = job[w] /\ job[w].status \in Staged
            /\ updated[w].status = StageOf(job[w].status)
        BY <2>1, <2>2, <2>3 DEF KnowsStage, KnowsRow, InStage, Accepts, Stage
      <3>2. QED
        BY <2>3, <3>1 DEF Staged, StageOf, StageRank
    <2>4. CASE pc[w] = "finish" /\ payload'[j] = current[w]
      <3>1. /\ payload[j] = job[w] /\ job[w].status = "verified"
            /\ current[w].status = "dry-run-complete"
        BY <2>1, <2>2, <2>4 DEF KnowsStage, KnowsRow
      <3>2. QED
        BY <2>4, <3>1 DEF StageRank
    <2>5. QED
      BY <2>1, <2>3, <2>4
  <1> HIDE DEF OneStage
  <1>2. Spec => [][OneStage]_vars
    BY <1>1, WorkerInitInv, WorkerStepInv, PTL DEF Spec
  <1>3. QED
    BY <1>2 DEF OneStage, ProgressKept

(* The workers are callers of the queue and nothing else: what holds of    *)
(* the queue holds of the table they share.                                *)
THEOREM WorkerImplementsQueue == Spec => QueueSpec
  <1>1. Init => QueueInit
    BY DEF Init
  <1>2. QED
    BY <1>1, WorkerInitInv, WorkerStepInv, WorkerStepIsQueueStep, PTL
       DEF Spec, QueueSpec

(* So jobs are granted to one worker at a time, and only a grant that has  *)
(* not lapsed settles a job.                                               *)
THEOREM WorkerImplementsLeasedJobs == Spec => ImplementsLeasedJobs
  BY WorkerImplementsQueue, QueueImplementsLeasedJobs, PTL

-----------------------------------------------------------------------------
(* The lease under the time of a healthy deployment.  A checkpoint does    *)
(* not lengthen a lease, and a stage that ends before its first renewal is *)
(* due renews nothing: what three such stages take has to fit into one     *)
(* lease.                                                                  *)
RoundTicks == HeartbeatInterval + HeartbeatLag

(* What the stages before the one of status s may have used of the lease.  *)
Spent(s) ==
  CASE s = "queued" -> 0
    [] s = "ready-for-remediation" -> RoundTicks
    [] OTHER -> 2 * RoundTicks

(* What worker w has left of its lease.                                    *)
LeaseOK(w) ==
  faults = 0 =>
    /\ pc[w] = "claimed" =>
         /\ Owned(current[w].job_id, w)
         /\ lease[current[w].job_id] = LeaseTicks
    /\ pc[w] = "start" =>
         /\ Owned(job[w].job_id, w)
         /\ lease[job[w].job_id] >= LeaseTicks - Spent(job[w].status)
    /\ pc[w] \in Started =>
         /\ Owned(job[w].job_id, w)
         /\ hb_left[w] \in -HeartbeatLag .. HeartbeatInterval
         /\ job[w].status = "patch-generated" => hb_left[w] = HeartbeatInterval
         /\ lease[job[w].job_id] >=
              LeaseTicks - Spent(job[w].status) - (HeartbeatInterval - hb_left[w])
    /\ pc[w] \in {"handler", "exit"} => hb[w] \in {"waiting", "renewing"}

LeaseInv == WorkerInv /\ \A w \in Workers : LeaseOK(w)

LEMMA RoundsAreNatural ==
  /\ LeaseTicks \in Nat /\ HeartbeatLag \in Nat /\ HeartbeatInterval \in Nat
  /\ RoundTicks \in Nat /\ \A s : Spent(s) \in 0 .. 2 * RoundTicks
  <1>1. IntervalThirds \in Nat
    BY LeaseSecondsAssumption DEF IntervalThirds
  <1>2. HeartbeatInterval \in Nat
    BY <1>1, TickAssumption DEF HeartbeatInterval
  <1>3. LeaseTicks \in Nat /\ HeartbeatLag \in Nat
    BY Durations, LeasesAssumption, WorkerChoices
  <1>4. RoundTicks \in Nat
    BY <1>2, <1>3 DEF RoundTicks
  <1>5. QED
    BY <1>2, <1>3, <1>4 DEF Spent

(* The rows that worker w owns stay its own, with no less of their lease   *)
(* than they had or could have.                                            *)
RowsStay(w) ==
  \A j \in Jobs :
    Owned(j, w) => Owned(j, w)' /\ lease'[j] \in {lease[j], LeaseTicks}

(* No statement of another worker touches a row that is owned, nor does a  *)
(* renewal take time from one.                                             *)
LEMMA OthersLeaveRows ==
  ASSUME WorkerInv, NEW w \in Workers, NEW v \in Workers,
         \/ v # w /\ Statement(v)
         \/ \E j \in Jobs : RenewLease(j, v, LeaseTicks)
         \/ \E j \in Jobs : Submit(j)
         \/ UNCHANGED queueVars
  PROVE  RowsStay(w)
  <1>1. /\ status \in [Jobs -> RowStatuses] /\ worker_id \in [Jobs -> Workers \cup {NULL}]
        /\ lease \in [Jobs -> Int \cup {NULL}]
    BY DEF WorkerInv, TypeOK, QueueTypeOK
  <1>2. LeaseTicks \in Nat /\ LeaseTicks # NULL
    BY RoundsAreNatural, NullAssumption
  <1> SUFFICES ASSUME NEW j \in Jobs, Owned(j, w)
               PROVE  Owned(j, w)' /\ lease'[j] \in {lease[j], LeaseTicks}
    BY DEF RowsStay
  <1>3. status[j] = "running" /\ worker_id[j] = w /\ Live(j)
    BY DEF Owned
  <1>kept. ASSUME status'[j] = status[j], worker_id'[j] = worker_id[j],
                  lease'[j] = lease[j]
           PROVE  Owned(j, w)'
    BY <1>3, <1>kept DEF Owned, Live
  <1>4. ASSUME NEW i \in Jobs, v # w, Claim(i, v, LeaseTicks)
        PROVE  Owned(j, w)' /\ lease'[j] = lease[j]
    <2>1. i # j
      BY <1>1, <1>3, <1>4 DEF Claim, Candidate, Claimable, Expired, Live
    <2>2. QED
      BY <1>1, <1>4, <1>kept, <2>1 DEF Claim
  <1>5. ASSUME NEW i \in Jobs, RenewLease(i, v, LeaseTicks)
        PROVE  Owned(j, w)' /\ lease'[j] \in {lease[j], LeaseTicks}
    <2>1. CASE i = j
      BY <1>1, <1>2, <1>3, <1>5, <2>1 DEF RenewLease, Owned, Live
    <2>2. CASE i # j
      BY <1>1, <1>5, <1>kept, <2>2 DEF RenewLease
    <2>3. QED
      BY <2>1, <2>2
  <1>6. ASSUME NEW i \in Jobs, NEW p \in Payload, v # w,
               Checkpoint(i, v, p) \/ Complete(i, v, p) \/ Fail(i, v, p, RetryTicks)
        PROVE  Owned(j, w)' /\ lease'[j] = lease[j]
    <2>1. i # j
      BY <1>3, <1>6 DEF Checkpoint, CheckpointEnabled, Complete, CompleteEnabled,
                        Fail, FailEnabled, Owned
    <2>2. QED
      BY <1>1, <1>6, <1>kept, <2>1 DEF Checkpoint, Complete, Fail, UpdateOwned
  <1>7. ASSUME NEW i \in Jobs, Submit(i)
        PROVE  Owned(j, w)' /\ lease'[j] = lease[j]
    <2>1. PICK t \in Tenants :
            Enqueue([job_id |-> i, tenant |-> t, status |-> "queued",
                     work |-> [patch |-> 0, verification |-> 0]])
      BY <1>7 DEF Submit
    <2>2. /\ i \notin Rows /\ status' = [status EXCEPT ![i] = "queued"]
          /\ UNCHANGED <<worker_id, lease>>
      BY <2>1 DEF Enqueue
    <2>3. i # j
      BY <1>3, <2>2 DEF Rows
    <2>4. QED
      BY <1>1, <1>kept, <2>2, <2>3
  <1>8. CASE UNCHANGED queueVars
    BY <1>8, <1>kept DEF queueVars
  <1>9. QED
    BY <1>4, <1>5, <1>6, <1>7, <1>8 DEF Statement

(* A worker at work knows which row is its own.                            *)
LEMMA OwnRow ==
  ASSUME WorkerInv, NEW w \in Workers
  PROVE  /\ pc[w] # "idle" => current[w] \in Payload /\ current[w].job_id \in Jobs
         /\ pc[w] \in InStage =>
              /\ job[w] \in Payload /\ job[w].job_id \in Jobs
              /\ job[w].status \in Staged /\ job[w].job_id = current[w].job_id
  BY DEF WorkerInv, WorkerOK, KnowsJob, KnowsStage, IsClaimed, Payload

(* A step that leaves a worker's rows and variables alone leaves it the    *)
(* lease it had.                                                           *)
LEMMA LeaseOfOthers ==
  ASSUME WorkerInv, NEW w \in Workers, LeaseOK(w), RowsStay(w), LocalsKept(w),
         hb_left'[w] = hb_left[w], faults' = 0 => faults = 0
  PROVE  LeaseOK(w)'
  <1> SUFFICES ASSUME faults = 0, faults' = 0 PROVE LeaseOK(w)'
    BY DEF LeaseOK
  <1>1. pc[w] = "claimed" => LeaseOK(w)'
    <2> SUFFICES ASSUME pc[w] = "claimed" PROVE LeaseOK(w)'
      OBVIOUS
    <2>1. /\ current[w].job_id \in Jobs /\ Owned(current[w].job_id, w)
          /\ lease[current[w].job_id] = LeaseTicks
      BY OwnRow DEF LeaseOK
    <2>2. Owned(current[w].job_id, w)' /\ lease'[current'[w].job_id] = LeaseTicks
      BY <2>1 DEF RowsStay, LocalsKept, Owned, Live
    <2>3. QED
      BY <2>2 DEF LeaseOK, LocalsKept, Started
  <1>2. pc[w] \in InStage => LeaseOK(w)'
    <2> SUFFICES ASSUME pc[w] \in InStage PROVE LeaseOK(w)'
      OBVIOUS
    <2> DEFINE j == job[w].job_id
    <2>1. j \in Jobs /\ Owned(j, w)
      BY OwnRow DEF LeaseOK, InStage, Started
    <2>2. /\ Owned(job[w].job_id, w)'
          /\ lease'[job'[w].job_id] \in {lease[job[w].job_id], LeaseTicks}
      BY <2>1 DEF RowsStay, LocalsKept, Owned, Live
    <2>3. Spent(job[w].status) \in Nat
      BY RoundsAreNatural
    <2>4. CASE pc[w] = "start"
      <3>1. lease[job[w].job_id] >= LeaseTicks - Spent(job[w].status)
        BY <2>4 DEF LeaseOK
      <3>2. lease'[job'[w].job_id] >= LeaseTicks - Spent(job[w].status)
        BY <2>2, <2>3, <3>1, RoundsAreNatural
      <3>3. QED
        BY <2>2, <2>4, <3>2 DEF LeaseOK, LocalsKept, Started
    <2>5. CASE pc[w] \in Started
      <3>1. /\ hb_left[w] \in -HeartbeatLag .. HeartbeatInterval
            /\ job[w].status = "patch-generated" => hb_left[w] = HeartbeatInterval
            /\ pc[w] \in {"handler", "exit"} => hb[w] \in {"waiting", "renewing"}
            /\ lease[job[w].job_id] >=
                 LeaseTicks - Spent(job[w].status) - (HeartbeatInterval - hb_left[w])
        BY <2>5 DEF LeaseOK
      <3>2. lease'[job'[w].job_id] >=
              LeaseTicks - Spent(job[w].status) - (HeartbeatInterval - hb_left[w])
        BY <2>2, <2>3, <3>1, RoundsAreNatural
      <3>3. QED
        BY <2>2, <2>5, <3>1, <3>2 DEF LeaseOK, LocalsKept, Started
    <2>6. QED
      BY <2>4, <2>5 DEF InStage, Started
  <1>3. pc[w] \notin InStage \cup {"claimed"} => LeaseOK(w)'
    BY DEF LeaseOK, LocalsKept, InStage, Started
  <1>4. QED
    BY <1>1, <1>2, <1>3

(* Out of its stages a worker needs no lease to go on.                     *)
LEMMA LeaseNotNeeded ==
  ASSUME NEW w \in Workers, pc'[w] \notin InStage \cup {"claimed"}
  PROVE  LeaseOK(w)'
  BY DEF LeaseOK, InStage, Started

(* The stages use up the lease one round at a time.                        *)
LEMMA LeaseOfOwn ==
  ASSUME WorkerInv, NEW w \in Workers, LeaseOK(w),
         WorkerStep(w) \/ HeartbeatStep(w) \/ CallFails(w) \/ Crash(w)
  PROVE  LeaseOK(w)'
  <1>1. /\ pc \in [Workers -> Labels] /\ current \in [Workers -> Payload \cup {NULL}]
        /\ job \in [Workers -> Payload \cup {NULL}]
        /\ updated \in [Workers -> Payload \cup {NULL}]
        /\ hb \in [Workers -> {"off", "waiting", "renewing", "failed"}]
        /\ hb_left \in [Workers -> Int] /\ faults \in Nat
    BY WorkerChoices DEF WorkerInv, TypeOK
  <1>2. SUFFICES ASSUME faults' = 0 PROVE LeaseOK(w)'
    BY DEF LeaseOK
  <1>3. ~Raise(w)
    BY <1>1, <1>2 DEF Raise
  <1>4. ~CallFails(w) /\ ~Crash(w)
    BY <1>1, <1>2, <1>3 DEF CallFails, Crash
  <1>5. ASSUME NEW l, Goto(w, l) PROVE pc'[w] = l /\ faults = 0
    BY <1>1, <1>2, <1>5 DEF Goto
  <1>6. CASE ClaimJob(w)
    <2>1. PICK j \in Jobs :
            /\ Claim(j, w, LeaseTicks) /\ Goto(w, "claimed")
            /\ current' = [current EXCEPT ![w] = Claimed(payload[j])]
      BY <1>3, <1>6 DEF ClaimJob
    <2>2. /\ status[j] # "absent" /\ j \in Rows
      BY <2>1 DEF Claim, Candidate, Claimable, Rows
    <2>3. payload[j] \in Payload /\ payload[j].job_id = j
      BY <2>2 DEF WorkerInv, RowsOK, RowOK
    <2>4. Claimed(payload[j]).job_id = j
      BY <2>3, StatusOnly DEF Claimed, Statuses
    <2>5. current'[w].job_id = j /\ pc'[w] = "claimed"
      BY <1>1, <1>5, <2>1, <2>4
    <2>6. Owned(j, w)' /\ lease'[j] = LeaseTicks
      BY <2>1, RoundsAreNatural, NullAssumption
         DEF Claim, Owned, Live, WorkerInv, TypeOK, QueueTypeOK
    <2>7. Owned(current[w].job_id, w)' /\ lease'[current'[w].job_id] = LeaseTicks
      BY <2>5, <2>6 DEF Owned, Live
    <2>8. QED
      BY <2>5, <2>7 DEF LeaseOK, Started
  <1>7. ASSUME NEW p, Resume(w, p), p.status \in Durable
        PROVE  pc'[w] # "claimed" /\ pc'[w] \notin Started
    <2>1. \E l \in {"start", "finish", "announce", "failing"} : Goto(w, l)
      BY <1>7 DEF Resume
    <2>2. QED
      BY <1>5, <2>1 DEF Started
  <1>8. ASSUME NEW p, Resume(w, p), p.status \in Durable, UNCHANGED queueVars,
               Owned(p.job_id, w), lease[p.job_id] >= LeaseTicks - Spent(p.status)
        PROVE  LeaseOK(w)'
    <2>1. job'[w] = p
      BY <1>1, <1>8 DEF Resume
    <2>2. /\ Owned(job[w].job_id, w)'
          /\ lease'[job'[w].job_id] >= LeaseTicks - Spent(job'[w].status)
      BY <1>8, <2>1 DEF Owned, Live, queueVars
    <2>3. pc'[w] # "claimed" /\ pc'[w] \notin Started
      BY <1>7, <1>8
    <2>4. QED
      BY <2>2, <2>3 DEF LeaseOK, Started
  <1>9. CASE EmitJobClaimed(w)
    <2>1. pc[w] = "claimed" /\ Resume(w, current[w]) /\ UNCHANGED queueVars
      BY <1>3, <1>9 DEF EmitJobClaimed
    <2>2. current[w].status \in Durable
      BY <2>1 DEF WorkerInv, WorkerOK, KnowsJob
    <2>3. \E l \in Labels : Goto(w, l)
      BY <2>1 DEF Resume, Labels
    <2>4. Owned(current[w].job_id, w) /\ lease[current[w].job_id] = LeaseTicks
      BY <1>5, <2>1, <2>3 DEF LeaseOK
    <2>5. Spent(current[w].status) \in Nat
      BY RoundsAreNatural
    <2>6. lease[current[w].job_id] >= LeaseTicks - Spent(current[w].status)
      BY <2>4, <2>5, RoundsAreNatural
    <2>7. QED
      BY <1>8, <2>1, <2>2, <2>4, <2>6
  <1>10. CASE EmitStageStarted(w)
    <2>1. /\ pc[w] = "start" /\ Goto(w, "handler")
          /\ hb' = [hb EXCEPT ![w] = "waiting"]
          /\ hb_left' = [hb_left EXCEPT ![w] = HeartbeatInterval]
          /\ UNCHANGED <<queueVars, job>>
      BY <1>3, <1>10 DEF EmitStageStarted
    <2>2. /\ Owned(job[w].job_id, w)
          /\ lease[job[w].job_id] >= LeaseTicks - Spent(job[w].status)
      BY <1>5, <2>1 DEF LeaseOK
    <2>3. /\ pc'[w] = "handler" /\ hb'[w] = "waiting"
          /\ hb_left'[w] = HeartbeatInterval /\ job'[w] = job[w]
      BY <1>1, <1>5, <2>1
    <2>4. Owned(job[w].job_id, w)' /\ lease'[job'[w].job_id] = lease[job[w].job_id]
      BY <2>1, <2>2, <2>3 DEF Owned, Live, queueVars
    <2>5. HeartbeatInterval \in -HeartbeatLag .. HeartbeatInterval
      BY RoundsAreNatural
    <2>6. Spent(job[w].status) \in Nat /\ LeaseTicks - Spent(job[w].status) \in Int
      BY RoundsAreNatural
    <2>7. lease'[job'[w].job_id] >=
            LeaseTicks - Spent(job'[w].status) - (HeartbeatInterval - hb_left'[w])
      BY <2>2, <2>3, <2>4, <2>6, RoundsAreNatural
    <2>8. QED
      BY <2>3, <2>4, <2>5, <2>7 DEF LeaseOK, Started
  <1>11. ASSUME pc[w] \in Started, faults = 0, pc'[w] \in Started,
                status'[job[w].job_id] = status[job[w].job_id],
                worker_id'[job[w].job_id] = worker_id[job[w].job_id],
                lease'[job[w].job_id] = lease[job[w].job_id],
                job' = job, hb_left' = hb_left,
                pc'[w] \in {"handler", "exit"} => hb'[w] \in {"waiting", "renewing"}
         PROVE  LeaseOK(w)'
    <2>1. /\ Owned(job[w].job_id, w)
          /\ hb_left[w] \in -HeartbeatLag .. HeartbeatInterval
          /\ job[w].status = "patch-generated" => hb_left[w] = HeartbeatInterval
          /\ lease[job[w].job_id] >=
               LeaseTicks - Spent(job[w].status) - (HeartbeatInterval - hb_left[w])
      BY <1>11 DEF LeaseOK
    <2>2. Owned(job[w].job_id, w)'
      BY <1>11, <2>1 DEF Owned, Live
    <2>3. QED
      BY <1>11, <2>1, <2>2 DEF LeaseOK, Started
  <1>12. CASE HandlerReturns(w)
    <2>1. /\ pc[w] = "handler" /\ pc'[w] = "exit" /\ faults = 0
          /\ UNCHANGED <<status, worker_id, lease, job, hb, hb_left>>
      BY <1>1, <1>2, <1>12 DEF HandlerReturns, queueVars, heartbeatVars
    <2>2. hb[w] \in {"waiting", "renewing"}
      BY <2>1 DEF LeaseOK
    <2>3. QED
      BY <1>11, <2>1, <2>2 DEF Started
  <1>13. CASE ExitHeartbeat(w)
    <2>1. /\ pc[w] = "exit" /\ pc'[w] \in {"checkpoint", "failing"} /\ faults = 0
          /\ UNCHANGED <<status, worker_id, lease, job, hb_left>>
      BY <1>1, <1>2, <1>13 DEF ExitHeartbeat, queueVars
    <2>2. CASE pc'[w] = "checkpoint"
      BY <1>11, <2>1, <2>2 DEF Started
    <2>3. CASE pc'[w] = "failing"
      BY <2>3, LeaseNotNeeded DEF InStage
    <2>4. QED
      BY <2>1, <2>2, <2>3
  <1>14. CASE CheckpointStage(w)
    <2>1. CASE ~CheckpointEnabled(job[w].job_id, w, updated[w]) /\ Goto(w, "failing")
      BY <1>5, <2>1, LeaseNotNeeded DEF InStage
    <2>2. CASE /\ Checkpoint(job[w].job_id, w, updated[w])
               /\ Goto(w, "staged")
      <3>1. /\ pc[w] = "checkpoint" /\ pc'[w] = "staged" /\ faults = 0
            /\ UNCHANGED <<status, worker_id, lease, job, hb_left>>
        BY <1>5, <1>14, <2>2 DEF CheckpointStage, Checkpoint, heartbeatVars
      <3>2. QED
        BY <1>11, <3>1 DEF Started
    <2>3. QED
      BY <1>3, <1>14, <2>1, <2>2 DEF CheckpointStage
  <1>15. CASE EmitStageCompleted(w)
    <2>1. pc[w] = "staged" /\ Resume(w, updated[w]) /\ UNCHANGED queueVars
      BY <1>3, <1>15 DEF EmitStageCompleted
    <2>2. \E l \in Labels : Goto(w, l)
      BY <2>1 DEF Resume, Labels
    <2>3. /\ IsClaimed(w, updated[w]) /\ Accepts(w, updated[w])
          /\ job[w].status \in Staged
      BY <2>1 DEF WorkerInv, WorkerOK, KnowsStage, InStage
    <2>4. /\ updated[w].job_id = job[w].job_id
          /\ updated[w].status = StageOf(job[w].status)
          /\ updated[w].status \in Durable
      BY <2>3, Stages DEF Accepts, Stage
    <2>5. /\ Owned(job[w].job_id, w)
          /\ hb_left[w] \in -HeartbeatLag .. HeartbeatInterval
          /\ job[w].status = "patch-generated" => hb_left[w] = HeartbeatInterval
          /\ lease[job[w].job_id] >=
               LeaseTicks - Spent(job[w].status) - (HeartbeatInterval - hb_left[w])
      BY <1>5, <2>1, <2>2 DEF LeaseOK, Started
    <2>6. lease[job[w].job_id] \in Int
      BY <2>1, <2>5, OwnRow DEF Owned, Live, WorkerInv, TypeOK, QueueTypeOK, InStage
    <2>7. CASE job[w].status # "verification-pending"
      <3>1. lease[job[w].job_id] >= LeaseTicks - Spent(updated[w].status)
        <4>1. CASE job[w].status = "queued"
          <5>1. Spent(job[w].status) = 0 /\ Spent(updated[w].status) = RoundTicks
            BY <2>4, <4>1 DEF Spent, StageOf
          <5>2. QED
            BY <2>5, <2>6, <5>1, RoundsAreNatural DEF RoundTicks
        <4>2. CASE job[w].status = "ready-for-remediation"
          <5>1. /\ Spent(job[w].status) = RoundTicks
                /\ Spent(updated[w].status) = 2 * RoundTicks
            BY <2>4, <4>2 DEF Spent, StageOf
          <5>2. QED
            BY <2>5, <2>6, <5>1, RoundsAreNatural DEF RoundTicks
        <4>3. CASE job[w].status = "patch-generated"
          <5>1. /\ Spent(job[w].status) = 2 * RoundTicks
                /\ Spent(updated[w].status) = 2 * RoundTicks
            BY <2>4, <4>3 DEF Spent, StageOf
          <5>2. QED
            BY <2>5, <2>6, <4>3, <5>1, RoundsAreNatural
        <4>4. QED
          BY <2>3, <2>7, <4>1, <4>2, <4>3 DEF Staged
      <3>2. QED
        BY <1>8, <2>1, <2>4, <2>5, <3>1
    <2>8. CASE job[w].status = "verification-pending"
      <3>1. updated[w].status = "verified"
        BY <2>4, <2>8 DEF StageOf
      <3>2. StageOf(updated[w].status) = NULL
        BY <3>1, Stages
      <3>3. Goto(w, "finish")
        BY <2>1, <3>1, <3>2 DEF Resume
      <3>4. QED
        BY <1>5, <3>3, LeaseNotNeeded DEF InStage
    <2>9. QED
      BY <2>7, <2>8
  <1>16. CASE \/ CheckpointDryRun(w) \/ EmitJobCompleted(w) \/ CompleteJob(w)
              \/ EmitJobFailed(w) \/ FailJob(w)
    <2>1. \E l \in {"idle", "announce", "complete", "failing", "fail"} : Goto(w, l)
      BY <1>3, <1>16 DEF CheckpointDryRun, EmitJobCompleted, CompleteJob,
                         EmitJobFailed, FailJob
    <2>2. QED
      BY <1>5, <2>1, LeaseNotNeeded DEF InStage
  <1>17. CASE HeartbeatWakes(w)
    <2>1. /\ pc[w] \in {"handler", "exit"} /\ pc'[w] = pc[w] /\ hb'[w] = "renewing"
          /\ faults = 0
          /\ UNCHANGED <<status, worker_id, lease, job, hb_left>>
      BY <1>1, <1>2, <1>17 DEF HeartbeatWakes, queueVars, workerVars
    <2>2. QED
      BY <1>11, <2>1 DEF Started
  <1>18. CASE HeartbeatRenews(w)
    <2>1. hb[w] = "renewing" /\ faults = 0
      BY <1>1, <1>2, <1>18 DEF HeartbeatRenews
    <2>2. pc[w] \in {"handler", "exit"}
      BY <2>1 DEF WorkerInv, WorkerOK, KnowsStage
    <2>3. Owned(job[w].job_id, w) /\ job[w].job_id \in Jobs
      BY <2>1, <2>2, OwnRow DEF LeaseOK, Started, InStage
    <2>4. /\ RenewLease(job[w].job_id, w, LeaseTicks)
          /\ hb' = [hb EXCEPT ![w] = "waiting"]
      BY <1>1, <1>2, <1>18, <2>1, <2>3 DEF HeartbeatRenews
    <2>5. /\ hb_left'[w] = HeartbeatInterval /\ hb'[w] = "waiting"
          /\ pc'[w] = pc[w] /\ job'[w] = job[w]
      BY <1>1, <1>18, <2>4 DEF HeartbeatRenews, workerVars
    <2>6. Owned(job[w].job_id, w)' /\ lease'[job'[w].job_id] = LeaseTicks
      BY <2>3, <2>4, <2>5, RoundsAreNatural, NullAssumption
         DEF RenewLease, Owned, Live, WorkerInv, TypeOK, QueueTypeOK
    <2>7. HeartbeatInterval \in -HeartbeatLag .. HeartbeatInterval
      BY RoundsAreNatural
    <2>8. Spent(job'[w].status) \in Nat
      BY RoundsAreNatural
    <2>9. lease'[job'[w].job_id] >=
            LeaseTicks - Spent(job'[w].status) - (HeartbeatInterval - hb_left'[w])
      BY <2>5, <2>6, <2>8, RoundsAreNatural
    <2>10. QED
      BY <2>2, <2>5, <2>6, <2>7, <2>9 DEF LeaseOK, Started
  <1>19. QED
    BY <1>4, <1>6, <1>9, <1>10, <1>12, <1>13, <1>14, <1>15, <1>16, <1>17, <1>18
       DEF WorkerStep, HeartbeatStep
(* Time passes only inside the stages that have a handler to wait for, and *)
(* there not past a renewal that is due.                                   *)
LEMMA LeaseTicksDown ==
  ASSUME 3 * RoundTicks <= LeaseTicks,
         WorkerInv, NEW w \in Workers, LeaseOK(w), Timely, Tick
  PROVE  LeaseOK(w)'
  <1>1. /\ UNCHANGED <<pc, current, job, hb, faults, status, worker_id>>
        /\ lease' = [j \in Jobs |-> LeaseTickDown(lease[j])]
        /\ hb_left'[w] = IF hb[w] = "waiting" /\ hb_left[w] > -HeartbeatLag
                         THEN hb_left[w] - 1 ELSE hb_left[w]
    BY DEF Tick, QueueTick, workerVars
  <1>2. CASE pc[w] = "idle" \/ faults # 0
    BY <1>1, <1>2 DEF LeaseOK, Started
  <1>3. CASE pc[w] = "handler" /\ faults = 0
    <2> DEFINE j == job[w].job_id
    <2>1. /\ Owned(j, w) /\ j \in Jobs /\ hb[w] = "waiting"
          /\ hb_left[w] \in -HeartbeatLag .. HeartbeatInterval
          /\ hb_left[w] > -HeartbeatLag /\ job[w].status # "patch-generated"
          /\ lease[j] >=
               LeaseTicks - Spent(job[w].status) - (HeartbeatInterval - hb_left[w])
      <3>1. Stage(w) # "verification-pending" /\ hb[w] # "renewing"
            /\ (hb[w] = "waiting" => hb_left[w] > -HeartbeatLag)
        BY <1>3 DEF Timely
      <3>2. job[w].status # "patch-generated"
        BY <3>1 DEF Stage, StageOf
      <3>3. QED
        BY <1>3, <3>1, <3>2, OwnRow DEF LeaseOK, Started, InStage
    <2>2. lease[j] \in Int /\ lease[j] >= 0 /\ lease[j] # NULL
      BY <2>1 DEF Owned, Live, WorkerInv, TypeOK, QueueTypeOK
    <2>3. hb_left'[w] = hb_left[w] - 1 /\ lease'[j] = lease[j] - 1
      BY <1>1, <2>1, <2>2 DEF LeaseTickDown
    <2>4. hb_left'[w] \in -HeartbeatLag .. HeartbeatInterval
      BY <2>1, <2>3, RoundsAreNatural
    <2>5. Spent(job[w].status) \in 0 .. 2 * RoundTicks
      BY RoundsAreNatural
    <2>6. lease'[j] >=
            LeaseTicks - Spent(job[w].status) - (HeartbeatInterval - hb_left'[w])
      BY <2>1, <2>2, <2>3, <2>5, RoundsAreNatural
    <2>7. lease'[j] >= 0 /\ lease'[j] \in Int
      BY <2>2, <2>3, <2>4, <2>5, <2>6, RoundsAreNatural DEF RoundTicks
    <2>8. Owned(job[w].job_id, w)'
      BY <1>1, <2>1, <2>7, NullAssumption DEF Owned, Live
    <2>9. QED
      BY <1>1, <1>3, <2>1, <2>4, <2>6, <2>8 DEF LeaseOK, Started
  <1>4. QED
    BY <1>2, <1>3 DEF Timely

LEMMA LeaseStepInv ==
  ASSUME 3 * RoundTicks <= LeaseTicks
  PROVE  LeaseInv /\ [TimelyNext]_vars => LeaseInv'
  <1> SUFFICES ASSUME LeaseInv, [TimelyNext]_vars PROVE LeaseInv'
    OBVIOUS
  <1>1. WorkerInv /\ [Next]_vars
    BY DEF LeaseInv, TimelyNext, Next
  <1>2. WorkerInv'
    BY <1>1, WorkerStepInv
  <1>3. ASSUME NEW w \in Workers PROVE LeaseOK(w)'
    <2>1. LeaseOK(w)
      BY DEF LeaseInv
    <2>2. faults' = 0 => faults = 0
      <3>1. faults \in Nat
        BY <1>1, WorkerChoices DEF WorkerInv, TypeOK
      <3>2. ASSUME NEW v \in Workers,
                   WorkerStep(v) \/ HeartbeatStep(v) \/ CallFails(v) \/ Crash(v)
            PROVE  faults' = faults \/ faults' = faults + 1
        <4>1. CASE \/ ClaimJob(v) \/ EmitStageStarted(v) \/ HandlerReturns(v)
                   \/ ExitHeartbeat(v) \/ CheckpointStage(v) \/ CheckpointDryRun(v)
                   \/ EmitJobCompleted(v) \/ CompleteJob(v) \/ EmitJobFailed(v)
                   \/ FailJob(v)
          BY <4>1 DEF ClaimJob, EmitStageStarted, HandlerReturns, ExitHeartbeat,
                      CheckpointStage, CheckpointDryRun, EmitJobCompleted,
                      CompleteJob, EmitJobFailed, FailJob, Goto, Raise
        <4>2. CASE EmitJobClaimed(v) \/ EmitStageCompleted(v)
          BY <4>2 DEF EmitJobClaimed, EmitStageCompleted, Resume, Goto, Raise
        <4>3. CASE HeartbeatStep(v) \/ CallFails(v) \/ Crash(v)
          BY <4>3 DEF HeartbeatStep, HeartbeatWakes, HeartbeatRenews, CallFails,
                      Crash, Raise
        <4>4. QED
          BY <3>2, <4>1, <4>2, <4>3 DEF WorkerStep
      <3>3. CASE \/ \E j \in Jobs : Submit(j)
                 \/ \E r \in detached : DetachedRenews(r)
                 \/ Tick \/ UNCHANGED vars
        BY <3>3 DEF Submit, DetachedRenews, Tick, vars
      <3>4. QED
        BY <1>1, <3>1, <3>2, <3>3 DEF Next, ProcessNext
    <2>3. ASSUME NEW v \in Workers, v # w,
                 WorkerStep(v) \/ HeartbeatStep(v) \/ CallFails(v) \/ Crash(v)
          PROVE  LeaseOK(w)'
      <3>1. Statement(v) \/ UNCHANGED queueVars
        BY <1>1, <2>3, StepIsStatement
      <3>2. RowsStay(w)
        BY <1>1, <2>3, <3>1, OthersLeaveRows
      <3>3. w \in Workers \ {v}
        BY <2>3
      <3>4. LocalsKept(w) /\ hb_left'[w] = hb_left[w]
        BY <1>1, <2>3, <3>3, OthersLeaveLocals
      <3>5. QED
        BY <1>1, <2>1, <2>2, <3>2, <3>4, LeaseOfOthers
    <2>4. ASSUME WorkerStep(w) \/ HeartbeatStep(w) \/ CallFails(w) \/ Crash(w)
          PROVE  LeaseOK(w)'
      BY <1>1, <2>1, <2>4, LeaseOfOwn
    <2>5. CASE \/ \E j \in Jobs : Submit(j)
               \/ \E r \in detached : DetachedRenews(r)
               \/ UNCHANGED vars
      <3>1. LocalsKept(w) /\ hb_left'[w] = hb_left[w]
        BY <2>5 DEF Submit, DetachedRenews, vars, workerVars, heartbeatVars, LocalsKept
      <3>2. ASSUME NEW r \in detached, DetachedRenews(r)
            PROVE  RowsStay(w)
        <4>1. r.worker \in Workers /\ r.job_id \in Jobs
          BY <1>1 DEF WorkerInv, TypeOK
        <4>2. RenewLease(r.job_id, r.worker, LeaseTicks) \/ UNCHANGED queueVars
          BY <3>2 DEF DetachedRenews
        <4>3. QED
          BY <1>1, <4>1, <4>2, OthersLeaveRows
      <3>3. ASSUME UNCHANGED vars PROVE RowsStay(w)
        <4>1. UNCHANGED queueVars
          BY <3>3 DEF vars
        <4>2. QED
          BY <1>1, <4>1, OthersLeaveRows
      <3>4. RowsStay(w)
        BY <1>1, <2>5, <3>2, <3>3, OthersLeaveRows
      <3>5. QED
        BY <1>1, <2>1, <2>2, <3>1, <3>4, LeaseOfOthers
    <2>6. CASE Timely /\ Tick
      BY <1>1, <2>1, <2>6, LeaseTicksDown
    <2>7. QED
      BY <2>3, <2>4, <2>5, <2>6 DEF TimelyNext, ProcessNext
  <1>4. QED
    BY <1>2, <1>3 DEF LeaseInv

(* As long as nothing has failed, the heartbeat keeps the lease while a    *)
(* stage runs, for any lease, number of workers and number of jobs,        *)
(* provided three heartbeat intervals, each with the time a due renewal    *)
(* needs to get going, fit into the lease (_LeaseHeartbeat).               *)
THEOREM WorkerLeaseKept ==
  ASSUME 3 * (HeartbeatInterval + HeartbeatLag) <= LeaseTicks
  PROVE  TimelySpec => []LeaseKeptDuringStage
  <1>1. Init => LeaseInv
    <2>1. ASSUME Init, NEW w \in Workers PROVE LeaseOK(w)
      BY <2>1 DEF Init, LeaseOK, Started
    <2>2. QED
      BY <2>1, WorkerInitInv DEF LeaseInv
  <1>2. LeaseInv /\ [TimelyNext]_vars => LeaseInv'
    <2>1. 3 * RoundTicks <= LeaseTicks
      BY DEF RoundTicks
    <2>2. QED
      BY <2>1, LeaseStepInv
  <1>3. LeaseInv => LeaseKeptDuringStage
    BY DEF LeaseInv, LeaseOK, LeaseKeptDuringStage, Started
  <1>4. QED
    BY <1>1, <1>2, <1>3, PTL DEF TimelySpec

=============================================================================
