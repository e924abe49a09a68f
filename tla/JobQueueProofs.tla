--------------------------- MODULE JobQueueProofs ---------------------------
(***************************************************************************)
(* Proofs about the durable queue, for any sets of jobs, tenants, workers  *)
(* and payloads and any lease and retry durations.                         *)
(***************************************************************************)
EXTENDS JobQueue, FiniteSetTheorems, TLAPS

(* What the proofs carry from step to step: the types, and that a row has  *)
(* a worker and a lease exactly while it is running.                       *)
QueueInv == QueueTypeOK /\ OwnershipConsistent

(* Init establishes the inductive invariant: there are no rows yet.        *)
LEMMA QueueInitInv == QueueInit => QueueInv
  BY AttemptsAssumption
     DEF QueueInit, QueueInv, QueueTypeOK, OwnershipConsistent, RowStatuses

(* The creation rank enqueue gives a row is a number: the table is finite. *)
LEMMA CreationRank == Cardinality(Rows) \in Nat
  <1>1. Rows \subseteq Jobs
    BY DEF Rows
  <1>2. IsFiniteSet(Rows)
    BY <1>1, JobsAssumption, FS_Subset
  <1>3. QED
    BY <1>2, FS_CardinalityType

(* The payload with another status is a payload of the same job, tenant    *)
(* and work.                                                               *)
LEMMA WithAnotherStatus ==
  ASSUME NEW p \in Payload, NEW s \in Statuses
  PROVE  /\ [p EXCEPT !.status = s] \in Payload
         /\ [p EXCEPT !.status = s].job_id = p.job_id
         /\ [p EXCEPT !.status = s].tenant = p.tenant
         /\ [p EXCEPT !.status = s].status = s
         /\ [p EXCEPT !.status = s].work = p.work
  BY DEF Payload

(* Every operation of PostgresJobQueue, and the passing of time, preserves *)
(* the inductive invariant.                                                *)
LEMMA QueueStepInv == QueueInv /\ [QueueNext]_queueVars => QueueInv'
  <1> SUFFICES ASSUME QueueInv, [QueueNext]_queueVars
               PROVE  QueueInv'
    OBVIOUS
  <1> USE LeasesAssumption, RetriesAssumption, AttemptsAssumption,
          NullAssumption
      DEF QueueInv, QueueTypeOK, OwnershipConsistent, RowStatuses,
          TerminalStatuses, Payload, Statuses
  <1>1. ASSUME NEW p \in Payload, NewJob(p), Enqueue(p)
        PROVE  QueueInv'
    <2>1. p.job_id \in Jobs /\ status[p.job_id] = "absent"
      BY <1>1 DEF Enqueue, Rows
    <2>2. Cardinality(Rows) + 1 \in Nat
      BY CreationRank
    <2>3. QED
      BY <1>1, <2>1, <2>2 DEF NewJob, Enqueue
  <1>2. ASSUME NEW j \in Jobs, NEW w \in Workers, NEW l \in LeaseChoices,
               Claim(j, w, l)
        PROVE  QueueInv'
    BY <1>2 DEF Claim, Candidate, Claimable
  <1>3. ASSUME NEW j \in Jobs, NEW w \in Workers, NEW l \in LeaseChoices,
               RenewLease(j, w, l)
        PROVE  QueueInv'
    BY <1>3 DEF RenewLease, Owned
  <1>4. ASSUME NEW p \in Payload, ReleaseApproval(p)
        PROVE  QueueInv'
    BY <1>4 DEF ReleaseApproval, ReleaseApprovalEnabled
  <1>5. ASSUME NEW j \in Jobs, NEW w \in Workers, NEW p \in Payload,
               Checkpoint(j, w, p)
        PROVE  QueueInv'
    BY <1>5 DEF Checkpoint
  <1>6. ASSUME NEW j \in Jobs, NEW w \in Workers, NEW p \in Payload,
               Complete(j, w, p)
        PROVE  QueueInv'
    BY <1>6 DEF Complete, CompleteEnabled, UpdateOwned
  <1>7. ASSUME NEW j \in Jobs, NEW w \in Workers, NEW p \in Payload,
               NEW r \in RetryChoices, Fail(j, w, p, r)
        PROVE  QueueInv'
    BY <1>7 DEF Fail, UpdateOwned
  <1>8. CASE QueueTick
    BY <1>8 DEF QueueTick, TickDown, LeaseTickDown
  <1>9. CASE UNCHANGED queueVars
    BY <1>9 DEF queueVars
  <1>10. QED
    BY <1>1, <1>2, <1>3, <1>4, <1>5, <1>6, <1>7, <1>8, <1>9 DEF QueueNext

(* PostgresJobQueue keeps every column well typed, and keeps a stage or    *)
(* "failed" out of the status column, whatever its callers pass.           *)
THEOREM QueueTypeCorrect == QueueSpec => []QueueTypeOK
  BY QueueInitInv, QueueStepInv, PTL DEF QueueSpec, QueueInv

(* PostgresJobQueue never leaves a running row without a worker or a       *)
(* lease, nor any other row with one.                                      *)
THEOREM QueueOwnership == QueueSpec => []OwnershipConsistent
  BY QueueInitInv, QueueStepInv, PTL DEF QueueSpec, QueueInv

(* One step of the queue on a row that is running changes its owner, or    *)
(* gives a passed lease more time, only by claiming it.                    *)
THEOREM QueueOwnerChangesOnlyByClaim == QueueSpec => OwnerChangesOnlyByClaim
  <1> DEFINE Step ==
        \A j \in Jobs :
          /\ status[j] = "running" /\ status'[j] = "running"
          /\ \/ worker_id'[j] # worker_id[j]
             \/ Expired(j) /\ ~Expired(j)'
          => Expired(j) /\ attempts'[j] = attempts[j] + 1
  <1>1. QueueInv /\ [QueueNext]_queueVars => [Step]_queueVars
    <2> SUFFICES ASSUME QueueInv, [QueueNext]_queueVars
                 PROVE  [Step]_queueVars
      OBVIOUS
    <2> USE NullAssumption DEF QueueInv, QueueTypeOK
    <2>1. ASSUME NEW p \in Payload, NewJob(p), Enqueue(p)
          PROVE  Step
      BY <2>1 DEF Enqueue, Expired, Payload
    <2>2. ASSUME NEW j \in Jobs, NEW w \in Workers, NEW l \in LeaseChoices,
                 Claim(j, w, l)
          PROVE  Step
      BY <2>2 DEF Claim, Candidate, Claimable, Expired
    <2>3. ASSUME NEW j \in Jobs, NEW w \in Workers, NEW l \in LeaseChoices,
                 RenewLease(j, w, l)
          PROVE  Step
      BY <2>3 DEF RenewLease, Owned, Live, Expired
    <2>4. ASSUME NEW p \in Payload, ReleaseApproval(p)
          PROVE  Step
      BY <2>4 DEF ReleaseApproval, ReleaseApprovalEnabled, Expired, Payload
    <2>5. ASSUME NEW j \in Jobs, NEW w \in Workers, NEW p \in Payload,
                 Checkpoint(j, w, p)
          PROVE  Step
      BY <2>5 DEF Checkpoint, Expired
    <2>6. ASSUME NEW j \in Jobs, NEW w \in Workers, NEW p \in Payload,
                 Complete(j, w, p)
          PROVE  Step
      BY <2>6 DEF Complete, CompleteEnabled, UpdateOwned, Expired,
                  TerminalStatuses
    <2>7. ASSUME NEW j \in Jobs, NEW w \in Workers, NEW p \in Payload,
                 NEW r \in RetryChoices, Fail(j, w, p, r)
          PROVE  Step
      BY <2>7 DEF Fail, UpdateOwned, Expired
    <2>8. CASE QueueTick
      BY <2>8 DEF QueueTick, LeaseTickDown, Expired
    <2>9. QED
      BY <2>1, <2>2, <2>3, <2>4, <2>5, <2>6, <2>7, <2>8 DEF QueueNext
  <1>2. QED
    BY <1>1, QueueInitInv, QueueStepInv, PTL
       DEF QueueSpec, OwnerChangesOnlyByClaim

(* No operation touches the row of a finished job.                         *)
THEOREM QueueCompletedIsFinal == QueueSpec => CompletedIsFinal
  <1> DEFINE Step ==
        \A j \in Jobs :
          status[j] \in TerminalStatuses =>
            /\ status'[j] = status[j] /\ payload'[j] = payload[j]
            /\ tenant'[j] = tenant[j] /\ worker_id'[j] = NULL
            /\ attempts'[j] = attempts[j] /\ created'[j] = created[j]
  <1>1. QueueInv /\ [QueueNext]_queueVars => [Step]_queueVars
    <2> SUFFICES ASSUME QueueInv, [QueueNext]_queueVars
                 PROVE  [Step]_queueVars
      OBVIOUS
    <2> USE NullAssumption
        DEF QueueInv, QueueTypeOK, OwnershipConsistent, TerminalStatuses
    <2>1. ASSUME NEW p \in Payload, NewJob(p), Enqueue(p)
          PROVE  Step
      BY <2>1 DEF Enqueue, Rows, Payload
    <2>2. ASSUME NEW j \in Jobs, NEW w \in Workers, NEW l \in LeaseChoices,
                 Claim(j, w, l)
          PROVE  Step
      BY <2>2 DEF Claim, Candidate, Claimable
    <2>3. ASSUME NEW j \in Jobs, NEW w \in Workers, NEW l \in LeaseChoices,
                 RenewLease(j, w, l)
          PROVE  Step
      BY <2>3 DEF RenewLease, Owned
    <2>4. ASSUME NEW p \in Payload, ReleaseApproval(p)
          PROVE  Step
      BY <2>4 DEF ReleaseApproval, ReleaseApprovalEnabled, Payload
    <2>5. ASSUME NEW j \in Jobs, NEW w \in Workers, NEW p \in Payload,
                 Checkpoint(j, w, p)
          PROVE  Step
      BY <2>5 DEF Checkpoint, CheckpointEnabled, Owned
    <2>6. ASSUME NEW j \in Jobs, NEW w \in Workers, NEW p \in Payload,
                 Complete(j, w, p)
          PROVE  Step
      BY <2>6 DEF Complete, UpdateOwned, Owned
    <2>7. ASSUME NEW j \in Jobs, NEW w \in Workers, NEW p \in Payload,
                 NEW r \in RetryChoices, Fail(j, w, p, r)
          PROVE  Step
      BY <2>7 DEF Fail, UpdateOwned, Owned
    <2>8. CASE QueueTick
      BY <2>8 DEF QueueTick
    <2>9. QED
      BY <2>1, <2>2, <2>3, <2>4, <2>5, <2>6, <2>7, <2>8 DEF QueueNext
  <1>2. QED
    BY <1>1, QueueInitInv, QueueStepInv, PTL DEF QueueSpec, CompletedIsFinal

(* Only release_approval, and only for the tenant of the row, lets a held  *)
(* job go.                                                                 *)
THEOREM QueueHeldUntilApproved == QueueSpec => HeldUntilApproved
  <1> DEFINE Step ==
        \A j \in Jobs :
          status[j] = "awaiting-approval" =>
            \/ status'[j] = "awaiting-approval" /\ payload'[j] = payload[j]
            \/ status'[j] = "queued" /\ payload'[j].tenant = tenant[j]
                 /\ payload'[j].status = "queued"
  <1>1. QueueInv /\ [QueueNext]_queueVars => [Step]_queueVars
    <2> SUFFICES ASSUME QueueInv, [QueueNext]_queueVars
                 PROVE  [Step]_queueVars
      OBVIOUS
    <2> USE DEF QueueInv, QueueTypeOK
    <2>1. ASSUME NEW p \in Payload, NewJob(p), Enqueue(p)
          PROVE  Step
      BY <2>1 DEF Enqueue, Rows, Payload
    <2>2. ASSUME NEW j \in Jobs, NEW w \in Workers, NEW l \in LeaseChoices,
                 Claim(j, w, l)
          PROVE  Step
      BY <2>2 DEF Claim, Candidate, Claimable
    <2>3. ASSUME NEW j \in Jobs, NEW w \in Workers, NEW l \in LeaseChoices,
                 RenewLease(j, w, l)
          PROVE  Step
      BY <2>3 DEF RenewLease
    <2>4. ASSUME NEW p \in Payload, ReleaseApproval(p)
          PROVE  Step
      BY <2>4 DEF ReleaseApproval, ReleaseApprovalEnabled, Payload
    <2>5. ASSUME NEW j \in Jobs, NEW w \in Workers, NEW p \in Payload,
                 Checkpoint(j, w, p)
          PROVE  Step
      BY <2>5 DEF Checkpoint, CheckpointEnabled, Owned
    <2>6. ASSUME NEW j \in Jobs, NEW w \in Workers, NEW p \in Payload,
                 Complete(j, w, p)
          PROVE  Step
      BY <2>6 DEF Complete, UpdateOwned, Owned
    <2>7. ASSUME NEW j \in Jobs, NEW w \in Workers, NEW p \in Payload,
                 NEW r \in RetryChoices, Fail(j, w, p, r)
          PROVE  Step
      BY <2>7 DEF Fail, UpdateOwned, Owned
    <2>8. CASE QueueTick
      BY <2>8 DEF QueueTick
    <2>9. QED
      BY <2>1, <2>2, <2>3, <2>4, <2>5, <2>6, <2>7, <2>8 DEF QueueNext
  <1>2. QED
    BY <1>1, QueueInitInv, QueueStepInv, PTL DEF QueueSpec, HeldUntilApproved

-----------------------------------------------------------------------------
(* Each operation of the queue is a step of LeasedJobs, or changes nothing *)
(* LeasedJobs can see.                                                     *)
LEMMA QueueStepRefines ==
  QueueInv /\ [QueueNext]_queueVars => [Leased!Next]_(Leased!vars)
  <1> SUFFICES ASSUME QueueInv, [QueueNext]_queueVars
               PROVE  [Leased!Next]_(Leased!vars)
    OBVIOUS
  <1> USE LeasesAssumption, NullAssumption
      DEF QueueInv, QueueTypeOK, OwnershipConsistent, PhaseOf, Live
  <1>1. ASSUME NEW p \in Payload, NewJob(p), Enqueue(p)
        PROVE  Leased!Submit(p.job_id)
    BY <1>1 DEF NewJob, Enqueue, Rows, Payload, Leased!Submit
  <1>2. ASSUME NEW j \in Jobs, NEW w \in Workers, NEW l \in LeaseChoices,
               Claim(j, w, l)
        PROVE  Leased!Grant(j, w)
    <2>1. \/ PhaseOf(status[j]) = "ready"
          \/ PhaseOf(status[j]) = "owned" /\ ~Live(j)
      BY <1>2 DEF Claim, Candidate, Claimable, Expired
    <2>2. /\ [i \in Jobs |-> PhaseOf(status[i])]'
               = [[i \in Jobs |-> PhaseOf(status[i])] EXCEPT ![j] = "owned"]
          /\ worker_id' = [worker_id EXCEPT ![j] = w]
      BY <1>2 DEF Claim
    <2>3. {i \in Jobs : Live(i)}' = {i \in Jobs : Live(i)} \cup {j}
      <3>1. l \in Nat /\ l # NULL
        OBVIOUS
      <3>2. lease' = [lease EXCEPT ![j] = l]
        BY <1>2 DEF Claim
      <3>3. QED
        BY <3>1, <3>2
    <2>4. QED
      BY <2>1, <2>2, <2>3 DEF Leased!Grant
  <1>3. ASSUME NEW j \in Jobs, NEW w \in Workers, NEW l \in LeaseChoices,
               RenewLease(j, w, l)
        PROVE  UNCHANGED Leased!vars
    BY <1>3 DEF RenewLease, Owned, Leased!vars
  <1>4. ASSUME NEW p \in Payload, ReleaseApproval(p)
        PROVE  Leased!Approve(p.job_id)
    BY <1>4 DEF ReleaseApproval, ReleaseApprovalEnabled, Payload,
                Leased!Approve
  <1>5. ASSUME NEW j \in Jobs, NEW w \in Workers, NEW p \in Payload,
               Checkpoint(j, w, p)
        PROVE  UNCHANGED Leased!vars
    BY <1>5 DEF Checkpoint, Leased!vars
  <1>6. ASSUME NEW j \in Jobs, NEW w \in Workers, NEW p \in Payload,
               Complete(j, w, p)
        PROVE  Leased!Settle(j, "done")
    BY <1>6 DEF Complete, CompleteEnabled, UpdateOwned, Owned,
                TerminalStatuses, Leased!Settle
  <1>7. ASSUME NEW j \in Jobs, NEW w \in Workers, NEW p \in Payload,
               NEW r \in RetryChoices, Fail(j, w, p, r)
        PROVE  Leased!Settle(j, "ready")
    BY <1>7 DEF Fail, UpdateOwned, Owned, Leased!Settle
  <1>8. CASE QueueTick
    <2>1. Leased!Lapse
      BY <1>8 DEF QueueTick, LeaseTickDown, Leased!Lapse
    <2>2. QED
      BY <2>1 DEF Leased!Next
  <1>9. CASE UNCHANGED queueVars
    BY <1>9 DEF queueVars, Leased!vars
  <1>10. ASSUME NEW p \in Payload
         PROVE  p.job_id \in Jobs
    BY DEF Payload
  <1>11. QED
    BY <1>1, <1>2, <1>3, <1>4, <1>5, <1>6, <1>7, <1>8, <1>9, <1>10
       DEF QueueNext, Leased!Next

(* The table and its statements implement the abstract lease: whatever     *)
(* their callers do, jobs are granted to one worker at a time, and only a  *)
(* grant that has not lapsed settles a job.                                *)
THEOREM QueueImplementsLeasedJobs == QueueSpec => ImplementsLeasedJobs
  <1>1. QueueInit => Leased!Init
    BY DEF QueueInit, Leased!Init, PhaseOf, Live
  <1>2. QED
    BY <1>1, QueueInitInv, QueueStepInv, QueueStepRefines, PTL
       DEF QueueSpec, ImplementsLeasedJobs, Leased!Spec

=============================================================================
