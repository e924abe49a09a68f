------------------------------ MODULE JobQueue ------------------------------
(***************************************************************************)
(* The durable remediation queue of sentinel/job_queue.py: one PostgreSQL  *)
(* table, remediation_jobs, and the statements PostgresJobQueue runs on    *)
(* it.  Every statement is one transaction, so every operation below is    *)
(* one action whose guard is the statement's WHERE clause together with    *)
(* the checks made before it; a call whose guard is false raises           *)
(* JobQueueError and changes nothing.                                      *)
(*                                                                         *)
(* A timestamp column is kept as the ticks that are left until it is       *)
(* passed, so that "lease_until < now" is lease < 0 and "available_at <=   *)
(* now" is available = 0: the statements only ever compare a column with   *)
(* CURRENT_TIMESTAMP, never two columns with each other.                   *)
(***************************************************************************)
EXTENDS Integers, FiniteSets

CONSTANTS
  Jobs,         \* job identities (uuid4 strings)
  Tenants,      \* (organization_id, installation_id) pairs
  Workers,      \* worker identities, the worker_id strings callers pass
  Work,         \* the rest of the JSON payload: patch, verification results
  LeaseChoices, \* lease_seconds values callers pass, in ticks
  RetryChoices, \* retry_after_seconds values callers pass, in ticks
  MaxAttempts,  \* the largest value of the INTEGER column attempts
  NULL          \* SQL NULL

ASSUME JobsAssumption == IsFiniteSet(Jobs)
ASSUME LeasesAssumption == LeaseChoices \subseteq Nat \ {0}
ASSUME RetriesAssumption == RetryChoices \subseteq Nat
ASSUME AttemptsAssumption == MaxAttempts \in Nat
ASSUME NullAssumption == NULL \notin Workers /\ NULL \notin Int

VARIABLES
  status,      \* the status column; "absent" before the row is inserted
  payload,     \* the payload column; NULL before the row is inserted
  tenant,      \* the organization_id and installation_id columns
  worker_id,
  lease,       \* lease_until - now: NULL, or -1 once it has passed
  available,   \* available_at - now: 0 once it has passed
  attempts,
  created      \* rank of the row in the order of created_at, job_id

queueVars == <<status, payload, tenant, worker_id, lease, available,
               attempts, created>>

(* RemediationStatus, and the two statuses only the queue knows of.        *)
Statuses == {"queued", "awaiting-approval", "ready-for-remediation",
             "patch-generated", "verification-pending", "verified",
             "failed", "dry-run-complete", "running", "completed"}

TerminalStatuses == {"dry-run-complete", "completed"}

(* The statuses checkpoint() refuses.                                      *)
UnfinishedStatuses == {"queued", "running", "failed", "awaiting-approval"}

Payload == [job_id : Jobs, tenant : Tenants, status : Statuses, work : Work]
ASSUME PayloadAssumption == NULL \notin Payload

-----------------------------------------------------------------------------
QueueInit ==
  /\ status = [j \in Jobs |-> "absent"]
  /\ payload = [j \in Jobs |-> NULL]
  /\ tenant = [j \in Jobs |-> NULL]
  /\ worker_id = [j \in Jobs |-> NULL]
  /\ lease = [j \in Jobs |-> NULL]
  /\ available = [j \in Jobs |-> 0]
  /\ attempts = [j \in Jobs |-> 0]
  /\ created = [j \in Jobs |-> 0]

Rows == {j \in Jobs : status[j] # "absent"}

Expired(j) == lease[j] # NULL /\ lease[j] < 0
Live(j) == lease[j] # NULL /\ lease[j] >= 0

(* The ownership predicate that renew_lease, checkpoint, complete and fail *)
(* share: job, worker, running, lease not passed.                          *)
OwnedIgnoringLease(j, w) == status[j] = "running" /\ worker_id[j] = w
OwnedByAnyone(j, w) == status[j] = "running" /\ Live(j)
Owned(j, w) ==
  /\ worker_id[j] = w
  /\ status[j] = "running"
  /\ Live(j)

(* enqueue: INSERT ... ON CONFLICT (job_id) DO NOTHING.  A second insert   *)
(* of the same job changes nothing.                                        *)
EnqueueOverwriting(p) ==
  /\ status' = [status EXCEPT ![p.job_id] = p.status]
  /\ payload' = [payload EXCEPT ![p.job_id] = p]
  /\ tenant' = [tenant EXCEPT ![p.job_id] = p.tenant]
  /\ UNCHANGED <<worker_id, lease, available, attempts, created>>
Enqueue(p) ==
  /\ p.job_id \notin Rows
  /\ status' = [status EXCEPT ![p.job_id] = p.status]
  /\ payload' = [payload EXCEPT ![p.job_id] = p]
  /\ tenant' = [tenant EXCEPT ![p.job_id] = p.tenant]
  /\ available' = [available EXCEPT ![p.job_id] = 0]
  /\ created' = [created EXCEPT ![p.job_id] = Cardinality(Rows) + 1]
  /\ UNCHANGED <<worker_id, lease, attempts>>

(* The WHERE clause of claim's candidate query.                            *)
ClaimableWhileLeased(j) ==
  available[j] = 0 /\ status[j] \in {"queued", "running"}
ClaimableWhileHeld(j) ==
  /\ available[j] = 0
  /\ \/ status[j] \in {"queued", "awaiting-approval"}
     \/ status[j] = "running" /\ Expired(j)
Claimable(j) ==
  /\ available[j] = 0
  /\ \/ status[j] = "queued"
     \/ status[j] = "running" /\ Expired(j)

(* ORDER BY created_at, job_id FOR UPDATE SKIP LOCKED LIMIT 1: the oldest  *)
(* claimable row that no concurrent claim has locked; the claims of the    *)
(* other workers can hold at most one row each.                            *)
Candidate(j) ==
  /\ Claimable(j)
  /\ Cardinality({i \in Jobs : Claimable(i) /\ created[i] < created[j]})
       < Cardinality(Workers)

(* claim: the row keeps its payload, which is what the caller gets back.   *)
(* attempts + 1 past the INTEGER range makes the statement fail.           *)
Claim(j, w, l) ==
  /\ Candidate(j)
  /\ attempts[j] < MaxAttempts
  /\ status' = [status EXCEPT ![j] = "running"]
  /\ worker_id' = [worker_id EXCEPT ![j] = w]
  /\ attempts' = [attempts EXCEPT ![j] = @ + 1]
  /\ lease' = [lease EXCEPT ![j] = l]
  /\ UNCHANGED <<payload, tenant, available, created>>

(* renew_lease: lease metadata only.                                       *)
RenewLease(j, w, l) ==
  /\ Owned(j, w)
  /\ lease' = [lease EXCEPT ![j] = l]
  /\ UNCHANGED <<status, payload, tenant, worker_id, available, attempts,
                 created>>

(* release_approval: p is the payload approve_remediation returned.        *)
ReleaseApprovalAgain(p) == p.status = "queued" /\ tenant[p.job_id] = p.tenant
ReleaseApprovalEnabled(p) ==
  /\ p.status = "queued"
  /\ tenant[p.job_id] = p.tenant
  /\ status[p.job_id] = "awaiting-approval"
ReleaseApproval(p) ==
  /\ ReleaseApprovalEnabled(p)
  /\ status' = [status EXCEPT ![p.job_id] = "queued"]
  /\ payload' = [payload EXCEPT ![p.job_id] = p]
  /\ worker_id' = [worker_id EXCEPT ![p.job_id] = NULL]
  /\ lease' = [lease EXCEPT ![p.job_id] = NULL]
  /\ available' = [available EXCEPT ![p.job_id] = 0]
  /\ UNCHANGED <<tenant, attempts, created>>

(* checkpoint: the payload column only.                                    *)
CheckpointEnabled(j, w, p) ==
  p.job_id = j /\ p.status \notin UnfinishedStatuses /\ Owned(j, w)
Checkpoint(j, w, p) ==
  /\ CheckpointEnabled(j, w, p)
  /\ payload' = [payload EXCEPT ![j] = p]
  /\ UNCHANGED <<status, tenant, worker_id, lease, available, attempts,
                 created>>

(* _update_owned: the row gives up its owner and its lease together.       *)
UpdateOwnedKeepsLease(j, w, p, s) ==
  /\ Owned(j, w)
  /\ status' = [status EXCEPT ![j] = s]
  /\ payload' = [payload EXCEPT ![j] = p]
  /\ worker_id' = [worker_id EXCEPT ![j] = NULL]
  /\ UNCHANGED <<lease, tenant, attempts, created>>
UpdateOwned(j, w, p, s) ==
  /\ Owned(j, w)
  /\ status' = [status EXCEPT ![j] = s]
  /\ payload' = [payload EXCEPT ![j] = p]
  /\ worker_id' = [worker_id EXCEPT ![j] = NULL]
  /\ lease' = [lease EXCEPT ![j] = NULL]
  /\ UNCHANGED <<tenant, attempts, created>>

CompleteEnabled(j, w, p) ==
  p.job_id = j /\ p.status \in TerminalStatuses /\ Owned(j, w)
CompleteAnyStatus(j, w, p) ==
  /\ p.job_id = j /\ Owned(j, w)
  /\ UpdateOwned(j, w, p, p.status)
  /\ UNCHANGED available
Complete(j, w, p) ==
  /\ CompleteEnabled(j, w, p)
  /\ UpdateOwned(j, w, p, p.status)
  /\ UNCHANGED available

FailEnabled(j, w, p) == p.job_id = j /\ Owned(j, w)
FailForGood(j, w, p, r) ==
  /\ FailEnabled(j, w, p)
  /\ UpdateOwned(j, w, p, "failed")
  /\ available' = [available EXCEPT ![j] = r]
Fail(j, w, p, r) ==
  /\ FailEnabled(j, w, p)
  /\ UpdateOwned(j, w, p, "queued")
  /\ available' = [available EXCEPT ![j] = r]

(* CURRENT_TIMESTAMP moves on by one tick; a lease that has passed stays   *)
(* passed.                                                                 *)
TickDown(n) == IF n > 0 THEN n - 1 ELSE 0
LeaseTickDown(n) == IF n = NULL \/ n < 0 THEN n ELSE n - 1
QueueTick ==
  /\ lease' = [j \in Jobs |-> LeaseTickDown(lease[j])]
  /\ available' = [j \in Jobs |-> TickDown(available[j])]
  /\ UNCHANGED <<status, payload, tenant, worker_id, attempts, created>>

-----------------------------------------------------------------------------
(* The queue with callers that know nothing of each other and may call     *)
(* anything: the HTTP endpoints take job, worker_id and payload from the   *)
(* request.  Only the payloads given to enqueue are constrained, by        *)
(* create_remediation_job.                                                 *)
NewJob(p) == p.status \in {"queued", "awaiting-approval"}

QueueNext ==
  \/ \E p \in Payload : NewJob(p) /\ Enqueue(p)
  \/ \E j \in Jobs, w \in Workers, l \in LeaseChoices : Claim(j, w, l)
  \/ \E j \in Jobs, w \in Workers, l \in LeaseChoices : RenewLease(j, w, l)
  \/ \E p \in Payload : ReleaseApproval(p)
  \/ \E j \in Jobs, w \in Workers, p \in Payload : Checkpoint(j, w, p)
  \/ \E j \in Jobs, w \in Workers, p \in Payload : Complete(j, w, p)
  \/ \E j \in Jobs, w \in Workers, p \in Payload, r \in RetryChoices :
       Fail(j, w, p, r)
  \/ QueueTick

QueueSpec == QueueInit /\ [][QueueNext]_queueVars

-----------------------------------------------------------------------------
(* The queue as an implementation of LeasedJobs.                           *)
PhaseOf(s) ==
  CASE s = "absent" -> "absent"
    [] s = "awaiting-approval" -> "held"
    [] s = "queued" -> "ready"
    [] s = "running" -> "owned"
    [] OTHER -> "done"

Leased == INSTANCE LeasedJobs
            WITH NoOwner <- NULL,
                 phase <- [j \in Jobs |-> PhaseOf(status[j])],
                 owner <- worker_id,
                 live <- {j \in Jobs : Live(j)}

(* Seen from outside, the table, its payloads, its clock and its renewals  *)
(* are nothing but jobs granted to one worker at a time under a grant that *)
(* lapses and is never revived (docs/lease-fencing.md).                    *)
ImplementsLeasedJobs == Leased!Spec

-----------------------------------------------------------------------------
RowStatuses == {"absent", "queued", "awaiting-approval", "running"}
                 \cup TerminalStatuses

(* Every column holds a value of its type, and the status column never     *)
(* takes a workflow stage: complete() writes payload.status into it, and   *)
(* only the terminal-status check keeps a stage or "failed" out, a value   *)
(* no claim would ever pick up again.                                      *)
QueueTypeOK ==
  /\ status \in [Jobs -> RowStatuses]
  /\ payload \in [Jobs -> Payload \cup {NULL}]
  /\ tenant \in [Jobs -> Tenants \cup {NULL}]
  /\ worker_id \in [Jobs -> Workers \cup {NULL}]
  /\ lease \in [Jobs -> Int \cup {NULL}]
  /\ available \in [Jobs -> Nat]
  /\ attempts \in [Jobs -> 0 .. MaxAttempts]
  /\ created \in [Jobs -> Nat]

(* A row has a worker, has a lease and is running together or not at all.  *)
(* A running row without a lease could never be reclaimed, since NULL <    *)
(* now is not true; a queued row with a worker would let a stale worker    *)
(* keep writing to it.                                                     *)
OwnershipConsistent ==
  \A j \in Jobs :
    /\ status[j] = "running" <=> worker_id[j] # NULL
    /\ status[j] = "running" <=> lease[j] # NULL

(* A lease that has passed is never given more time by renew_lease, nor    *)
(* does the row change hands, except by a claim, which counts an attempt:  *)
(* docs/worker-lease-heartbeat.md, "An expired lease cannot be revived by  *)
(* the stale worker".                                                      *)
OwnerChangesOnlyByClaim ==
  [][\A j \in Jobs :
       /\ status[j] = "running" /\ status'[j] = "running"
       /\ \/ worker_id'[j] # worker_id[j]
          \/ Expired(j) /\ ~Expired(j)'
       => Expired(j) /\ attempts'[j] = attempts[j] + 1]_queueVars

(* A finished job is finished: no sequence of claims, late completions,    *)
(* failures, duplicate enqueues or approvals changes any column of its     *)
(* row, so a completed job is never worked on again.                       *)
CompletedIsFinal ==
  [][\A j \in Jobs :
       status[j] \in TerminalStatuses =>
         /\ status'[j] = status[j] /\ payload'[j] = payload[j]
         /\ tenant'[j] = tenant[j] /\ worker_id'[j] = NULL
         /\ attempts'[j] = attempts[j] /\ created'[j] = created[j]]_queueVars

(* A job held for approval stays exactly as it was inserted, and is        *)
(* handed to no worker, until release_approval makes it queued for the     *)
(* same tenant: neither a claim nor a failure or completion by any caller  *)
(* gets past the hold.                                                     *)
HeldUntilApproved ==
  [][\A j \in Jobs :
       status[j] = "awaiting-approval" =>
         \/ status'[j] = "awaiting-approval" /\ payload'[j] = payload[j]
         \/ status'[j] = "queued" /\ payload'[j].tenant = tenant[j]
              /\ payload'[j].status = "queued"]_queueVars
=============================================================================
