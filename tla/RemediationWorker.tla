-------------------------- MODULE RemediationWorker --------------------------
(***************************************************************************)
(* The workers of sentinel/remediation_worker.py on the durable queue:     *)
(* run_once claims a job, takes it through the workflow stages with a      *)
(* checkpoint after each, and completes it or puts it back.  A worker is   *)
(* two threads, run_once and the lease heartbeat of the stage it is in,    *)
(* and every call either of them makes to the queue or to the audit sink   *)
(* is a step of its own, so that other workers, the clock, crashes and     *)
(* failing calls fall between any two of them.                             *)
(*                                                                         *)
(* Time is counted in ticks of TickThirds thirds of a second; both the     *)
(* lease and the heartbeat interval must be whole numbers of ticks.        *)
(***************************************************************************)
EXTENDS JobQueue

CONSTANTS
  LeaseSeconds,  \* SENTINEL_WORKER_LEASE_SECONDS, 1 .. 3600
  TickThirds,    \* how many thirds of a second a tick is
  RetryTicks,    \* fail()'s default retry_after_seconds
  HeartbeatLag,  \* ticks a due renewal may need to get going
  MaxFaults      \* how many calls, handlers and processes fail in a behaviour

LeaseTicks == (3 * LeaseSeconds) \div TickThirds

(* interval = max(1.0, min(30.0, lease_seconds / 3)), in thirds.           *)
IntervalThirds ==
  LET third == IF LeaseSeconds < 90 THEN LeaseSeconds ELSE 90
  IN  IF third > 3 THEN third ELSE 3

(* None is not a status.                                                   *)
ASSUME StageAssumption == NULL \notin Statuses
ASSUME LeaseSecondsAssumption == LeaseSeconds \in 1 .. 3600
ASSUME TickAssumption ==
  /\ TickThirds \in Nat \ {0}
  /\ (3 * LeaseSeconds) % TickThirds = 0
  /\ IntervalThirds % TickThirds = 0
ASSUME WorkerChoices ==
  /\ LeaseChoices = {LeaseTicks}
  /\ RetryChoices = {RetryTicks}
  /\ HeartbeatLag \in Nat
  /\ MaxFaults \in Nat
(* patch_diff and verification, told apart by the run that produced the    *)
(* patch and by the patch the recorded results are about; 0 is neither.    *)
ASSUME WorkAssumption ==
  Work = [patch : 0 .. MaxAttempts, verification : 0 .. MaxAttempts]

VARIABLES
  pc,        \* the call run_once is about to make
  current,   \* run_once's `current`
  job,       \* the job the running stage was given
  updated,   \* what the stage handler returned, NULL if it raised
  run,       \* the attempt this worker's claim was counted as
  hb,        \* the heartbeat thread of the running stage
  hb_left,   \* ticks left of its wait
  detached,  \* renewals still under way after their stage was left
  audit,     \* the lifecycle events recorded
  faults     \* how many failures have happened

workerVars == <<pc, current, job, updated, run>>
heartbeatVars == <<hb, hb_left, detached>>
vars == <<queueVars, workerVars, heartbeatVars, audit, faults>>

-----------------------------------------------------------------------------
HeartbeatIntervalOfLease == LeaseTicks
HeartbeatInterval == IntervalThirds \div TickThirds

(* The stage _resume runs for a job in status s, by the status it leads    *)
(* to; a job in any other status has no stage left to run.                 *)
StageOf(s) ==
  CASE s = "queued" -> "ready-for-remediation"
    [] s = "ready-for-remediation" -> "patch-generated"
    [] s = "patch-generated" -> "verification-pending"
    [] s = "verification-pending" -> "verified"
    [] OTHER -> NULL

WithStatus(p, s) == [p EXCEPT !.status = s]

(* The injected handlers.  prepare and the stage before verification leave *)
(* patch and results alone; generate_patch sets the patch of this run and  *)
(* leaves older results where they are; verify records results about the   *)
(* patch it was given.                                                     *)
HandlerResult(staged, w) ==
  CASE staged.status = "patch-generated" ->
         [staged EXCEPT !.work.patch = run[w]]
    [] staged.status = "verified" ->
         [staged EXCEPT !.work.verification = staged.work.patch]
    [] OTHER -> staged

(* A handler that goes wrong raises, or returns another job, another       *)
(* tenant's job, or a job in another status, as verify_remediation_job     *)
(* does with "failed".                                                     *)
HandlerFailures(staged) ==
  {NULL, WithStatus(staged, "failed")}
    \cup {[staged EXCEPT !.job_id = j] : j \in Jobs \ {staged.job_id}}
    \cup {[staged EXCEPT !.tenant = t] : t \in Tenants \ {staged.tenant}}

-----------------------------------------------------------------------------
Init ==
  /\ QueueInit
  /\ pc = [w \in Workers |-> "idle"]
  /\ current = [w \in Workers |-> NULL]
  /\ job = [w \in Workers |-> NULL]
  /\ updated = [w \in Workers |-> NULL]
  /\ run = [w \in Workers |-> 0]
  /\ hb = [w \in Workers |-> "off"]
  /\ hb_left = [w \in Workers |-> 0]
  /\ detached = {}
  /\ audit = {}
  /\ faults = 0

(* A job is created by the API for some tenant.                            *)
Submit(j) ==
  /\ \E t \in Tenants :
       Enqueue([job_id |-> j, tenant |-> t, status |-> "queued",
                work |-> [patch |-> 0, verification |-> 0]])
  /\ UNCHANGED <<workerVars, heartbeatVars, audit, faults>>

Event(p, type, to) == [job_id |-> p.job_id, type |-> type, to |-> to]

Goto(w, l) == pc' = [pc EXCEPT ![w] = l] /\ UNCHANGED faults

(* A failure is counted, and sends run_once where its exception handlers   *)
(* do: to the requeue path, or out of run_once when claiming failed or the *)
(* requeue path itself fails.                                              *)
AfterError(l) == IF l \in {"idle", "failing", "fail"} THEN "idle" ELSE "failing"
Raise(w) ==
  /\ faults < MaxFaults
  /\ faults' = faults + 1
  /\ pc' = [pc EXCEPT ![w] = AfterError(pc[w])]

Forget(w) ==
  /\ current' = [current EXCEPT ![w] = NULL]
  /\ job' = [job EXCEPT ![w] = NULL]
  /\ updated' = [updated EXCEPT ![w] = NULL]
  /\ run' = [run EXCEPT ![w] = 0]

(* _resume goes on with p: the next stage, or, once p is verified, the     *)
(* rest of run_once, which knows the job as dry-run-complete from here.    *)
ResumeWithoutVerifying(w, p) ==
  /\ job' = [job EXCEPT ![w] = p]
  /\ IF StageOf(p.status) \in {NULL, "verified"}
     THEN /\ Goto(w, "finish")
          /\ current' = [current EXCEPT ![w] = WithStatus(p, "dry-run-complete")]
     ELSE Goto(w, "start") /\ UNCHANGED current
ResumeWithoutAnnouncing(w, p) ==
  /\ job' = [job EXCEPT ![w] = p]
  /\ CASE StageOf(p.status) # NULL -> Goto(w, "start") /\ UNCHANGED current
       [] p.status = "verified" ->
            /\ Goto(w, "finish")
            /\ current' = [current EXCEPT ![w] =
                             WithStatus(p, "dry-run-complete")]
       [] OTHER -> Goto(w, "complete") /\ current' = [current EXCEPT ![w] = p]
Resume(w, p) ==
  /\ job' = [job EXCEPT ![w] = p]
  /\ CASE StageOf(p.status) # NULL ->
            Goto(w, "start") /\ UNCHANGED current
       [] p.status = "verified" ->
            /\ Goto(w, "finish")
            /\ current' = [current EXCEPT ![w] =
                             WithStatus(p, "dry-run-complete")]
       [] p.status = "dry-run-complete" ->
            Goto(w, "announce") /\ current' = [current EXCEPT ![w] = p]
       [] OTHER -> Goto(w, "failing") /\ UNCHANGED current

-----------------------------------------------------------------------------
(* run_once *)

(* The claim.  If its answer is lost the row stays leased to nobody's      *)
(* work until the lease passes.                                            *)
ClaimedFromTheStart(p) == WithStatus(p, "queued")
Claimed(p) == IF p.status = "running" THEN WithStatus(p, "queued") ELSE p
ClaimJob(w) ==
  /\ pc[w] = "idle"
  /\ \E j \in Jobs :
       /\ Claim(j, w, LeaseTicks)
       /\ \/ /\ Goto(w, "claimed")
             /\ current' = [current EXCEPT ![w] = Claimed(payload[j])]
             /\ run' = [run EXCEPT ![w] = attempts[j] + 1]
          \/ Raise(w) /\ UNCHANGED <<current, run>>
  /\ UNCHANGED <<job, updated, heartbeatVars, audit>>

EmitJobClaimed(w) ==
  /\ pc[w] = "claimed"
  /\ audit' = audit \cup {Event(current[w], "job_claimed", "running")}
  /\ \/ Resume(w, current[w])
     \/ Raise(w) /\ UNCHANGED <<current, job>>
  /\ UNCHANGED <<queueVars, updated, run, heartbeatVars>>

(* _run_stage: the event, then the heartbeat thread and the handler.       *)
Stage(w) == StageOf(job[w].status)
EmitStageStarted(w) ==
  /\ pc[w] = "start"
  /\ audit' = audit \cup {Event(job[w], "stage_started", Stage(w))}
  /\ \/ /\ Goto(w, "handler")
        /\ hb' = [hb EXCEPT ![w] = "waiting"]
        /\ hb_left' = [hb_left EXCEPT ![w] = HeartbeatInterval]
     \/ Raise(w) /\ UNCHANGED <<hb, hb_left>>
  /\ UNCHANGED <<queueVars, current, job, updated, run, detached>>

HandlerReturns(w) ==
  /\ pc[w] = "handler"
  /\ LET staged == WithStatus(job[w], Stage(w))
     IN  \/ /\ updated' = [updated EXCEPT ![w] = HandlerResult(staged, w)]
            /\ UNCHANGED faults
         \/ /\ faults < MaxFaults
            /\ faults' = faults + 1
            /\ \E u \in HandlerFailures(staged) :
                 updated' = [updated EXCEPT ![w] = u]
  /\ pc' = [pc EXCEPT ![w] = "exit"]
  /\ UNCHANGED <<queueVars, current, job, run, heartbeatVars, audit>>

(* The checks _run_stage makes of what the handler returned.               *)
AcceptsAnyTenant(w, u) ==
  u.job_id = job[w].job_id /\ u.status = Stage(w)
Accepts(w, u) ==
  /\ u.job_id = job[w].job_id
  /\ u.tenant = job[w].tenant
  /\ u.status = Stage(w)

(* __exit__ stops the heartbeat and joins its thread, for a limited time.  *)
(* A renewal the thread is still waiting for when the join gives up goes   *)
(* on by itself.  An exception of the handler takes precedence over a      *)
(* failed renewal; the checks come last.                                   *)
ExitHeartbeat(w) ==
  /\ pc[w] = "exit"
  /\ \/ hb[w] # "renewing" /\ UNCHANGED <<detached, faults>>
     \/ /\ hb[w] = "renewing"
        /\ faults < MaxFaults
        /\ faults' = faults + 1
        /\ detached' = detached \cup {[job_id |-> job[w].job_id, worker |-> w]}
  /\ hb' = [hb EXCEPT ![w] = "off"]
  /\ pc' = [pc EXCEPT ![w] =
              IF /\ updated[w] # NULL
                 /\ hb[w] # "failed"
                 /\ Accepts(w, updated[w])
              THEN "checkpoint" ELSE "failing"]
  /\ UNCHANGED <<queueVars, current, job, updated, run, hb_left, audit>>

(* The checkpoint after a stage: the lease may have passed, and another    *)
(* worker may have the job, since the handler was called.                  *)
CheckpointStage(w) ==
  /\ pc[w] = "checkpoint"
  /\ LET j == job[w].job_id
     IN  \/ /\ Checkpoint(j, w, updated[w])
            /\ Goto(w, "staged") \/ Raise(w)
         \/ /\ ~CheckpointEnabled(j, w, updated[w])
            /\ Goto(w, "failing")
            /\ UNCHANGED queueVars
  /\ UNCHANGED <<current, job, updated, run, heartbeatVars, audit>>

EmitStageCompleted(w) ==
  /\ pc[w] = "staged"
  /\ audit' = audit \cup {Event(job[w], "stage_completed", updated[w].status)}
  /\ \/ Resume(w, updated[w])
     \/ Raise(w) /\ UNCHANGED <<current, job>>
  /\ UNCHANGED <<queueVars, updated, run, heartbeatVars>>

(* A verified job is checkpointed once more, as dry-run-complete.          *)
CheckpointDryRun(w) ==
  /\ pc[w] = "finish"
  /\ LET j == current[w].job_id
     IN  \/ /\ Checkpoint(j, w, current[w])
            /\ Goto(w, "announce") \/ Raise(w)
         \/ /\ ~CheckpointEnabled(j, w, current[w])
            /\ Goto(w, "failing")
            /\ UNCHANGED queueVars
  /\ UNCHANGED <<current, job, updated, run, heartbeatVars, audit>>

EmitJobCompleted(w) ==
  /\ pc[w] = "announce"
  /\ audit' = audit \cup {Event(current[w], "job_completed", current[w].status)}
  /\ Goto(w, "complete") \/ Raise(w)
  /\ UNCHANGED <<queueVars, current, job, updated, run, heartbeatVars>>

CompleteJob(w) ==
  /\ pc[w] = "complete"
  /\ LET j == current[w].job_id
     IN  \/ /\ Complete(j, w, current[w])
            /\ \/ Goto(w, "idle") /\ Forget(w)
               \/ Raise(w) /\ UNCHANGED <<current, job, updated, run>>
         \/ /\ ~CompleteEnabled(j, w, current[w])
            /\ Goto(w, "failing")
            /\ UNCHANGED <<queueVars, current, job, updated, run>>
  /\ UNCHANGED <<heartbeatVars, audit>>

(* The requeue path: run_once's own `current`, back in status queued.      *)
EmitJobFailed(w) ==
  /\ pc[w] = "failing"
  /\ audit' = audit \cup {Event(current[w], "job_failed", "failed")}
  /\ \/ Goto(w, "fail") /\ UNCHANGED <<current, job, updated, run>>
     \/ Raise(w) /\ Forget(w)
  /\ UNCHANGED <<queueVars, heartbeatVars>>

RetryPayload(w) == WithStatus(current[w], "queued")
FailJob(w) ==
  /\ pc[w] = "fail"
  /\ LET j == current[w].job_id
     IN  \/ Fail(j, w, RetryPayload(w), RetryTicks)
         \/ ~FailEnabled(j, w, RetryPayload(w)) /\ UNCHANGED queueVars
  /\ Goto(w, "idle")
  /\ Forget(w)
  /\ UNCHANGED <<heartbeatVars, audit>>

(* Any call to the queue or to the audit sink may fail without effect.     *)
CallFails(w) ==
  /\ pc[w] \notin {"idle", "handler", "exit"}
  /\ Raise(w)
  /\ IF pc'[w] = "idle" THEN Forget(w)
     ELSE UNCHANGED <<current, job, updated, run>>
  /\ UNCHANGED <<queueVars, heartbeatVars, audit>>

(* The process dies and is started again under the same worker_id; a       *)
(* renewal it had sent may still be executed.                              *)
Crash(w) ==
  /\ pc[w] # "idle"
  /\ faults < MaxFaults
  /\ faults' = faults + 1
  /\ pc' = [pc EXCEPT ![w] = "idle"]
  /\ Forget(w)
  /\ hb' = [hb EXCEPT ![w] = "off"]
  /\ detached' = IF hb[w] # "renewing" THEN detached
                 ELSE detached \cup {[job_id |-> job[w].job_id, worker |-> w]}
  /\ UNCHANGED <<queueVars, hb_left, audit>>

-----------------------------------------------------------------------------
(* The heartbeat thread *)

(* The wait ends before __exit__ sets the stop event: a renewal is sent.   *)
HeartbeatWakes(w) ==
  /\ hb[w] = "waiting" /\ hb_left[w] <= 0
  /\ pc[w] \in {"handler", "exit"}
  /\ hb' = [hb EXCEPT ![w] = "renewing"]
  /\ UNCHANGED <<queueVars, workerVars, hb_left, detached, audit, faults>>

(* The renewal is executed; refused or failed, it ends the thread with an  *)
(* error that only __exit__ looks at.                                      *)
HeartbeatRenews(w) ==
  /\ hb[w] = "renewing"
  /\ LET j == job[w].job_id
     IN  \/ /\ RenewLease(j, w, LeaseTicks)
            /\ hb' = [hb EXCEPT ![w] = "waiting"]
            /\ UNCHANGED faults
         \/ /\ ~Owned(j, w)
            /\ hb' = [hb EXCEPT ![w] = "failed"]
            /\ UNCHANGED <<queueVars, faults>>
         \/ /\ faults < MaxFaults
            /\ faults' = faults + 1
            /\ hb' = [hb EXCEPT ![w] = "failed"]
            /\ UNCHANGED queueVars
  /\ hb_left' = [hb_left EXCEPT ![w] = HeartbeatInterval]
  /\ UNCHANGED <<workerVars, detached, audit>>

(* A renewal that outlived its stage or its process is executed.           *)
DetachedRenews(r) ==
  /\ \/ RenewLease(r.job_id, r.worker, LeaseTicks)
     \/ ~Owned(r.job_id, r.worker) /\ UNCHANGED queueVars
  /\ detached' = detached \ {r}
  /\ UNCHANGED <<workerVars, hb, hb_left, audit, faults>>

(* Time passes for the queue and for the heartbeats' waits.                *)
Tick ==
  /\ QueueTick
  /\ hb_left' = [w \in Workers |->
                   IF hb[w] = "waiting" /\ hb_left[w] > -HeartbeatLag
                   THEN hb_left[w] - 1 ELSE hb_left[w]]
  /\ UNCHANGED <<workerVars, hb, detached, audit, faults>>

-----------------------------------------------------------------------------
WorkerStep(w) ==
  \/ ClaimJob(w) \/ EmitJobClaimed(w) \/ EmitStageStarted(w)
  \/ HandlerReturns(w) \/ ExitHeartbeat(w) \/ CheckpointStage(w)
  \/ EmitStageCompleted(w) \/ CheckpointDryRun(w) \/ EmitJobCompleted(w)
  \/ CompleteJob(w) \/ EmitJobFailed(w) \/ FailJob(w)

HeartbeatStep(w) == HeartbeatWakes(w) \/ HeartbeatRenews(w)

ProcessNext ==
  \/ \E j \in Jobs : Submit(j)
  \/ \E w \in Workers :
       WorkerStep(w) \/ HeartbeatStep(w) \/ CallFails(w) \/ Crash(w)
  \/ \E r \in detached : DetachedRenews(r)

Next == ProcessNext \/ Tick

(* Nothing is assumed of time: a worker may be stopped between any two     *)
(* steps for longer than its lease.                                        *)
Spec == Init /\ [][Next]_vars

(* Time as a healthy deployment has it: calls take no time worth counting, *)
(* nor does the stage before verification, whose handler is the identity;  *)
(* only the injected handlers, retry delays and waits for an expiry do, a  *)
(* renewal is on its way within HeartbeatLag of being due, and an idle     *)
(* worker polls for a claimable job before time moves on.                  *)
Timely ==
  /\ \A w \in Workers :
       /\ pc[w] \in {"idle", "handler"}
       /\ pc[w] = "handler" => Stage(w) # "verification-pending"
       /\ pc[w] = "idle" => \A j \in Jobs : ~Claimable(j)
       /\ hb[w] # "renewing"
       /\ hb[w] = "waiting" => hb_left[w] > -HeartbeatLag
  /\ detached = {}

TimelyNext == ProcessNext \/ (Timely /\ Tick)
TimelySpec == Init /\ [][TimelyNext]_vars

(* Every worker goes on, handlers return, sent renewals are executed and   *)
(* time passes.                                                            *)
LiveSpec ==
  /\ TimelySpec
  /\ WF_vars(Timely /\ Tick)
  /\ \A w \in Workers : WF_vars(WorkerStep(w)) /\ WF_vars(HeartbeatStep(w))
  /\ WF_vars(\E r \in detached : DetachedRenews(r))

-----------------------------------------------------------------------------
Labels == {"idle", "claimed", "start", "handler", "exit", "checkpoint",
           "staged", "finish", "announce", "complete", "failing", "fail"}

(* Every column and every local variable of a worker holds a value of its  *)
(* type.                                                                   *)
TypeOK ==
  /\ QueueTypeOK
  /\ pc \in [Workers -> Labels]
  /\ current \in [Workers -> Payload \cup {NULL}]
  /\ job \in [Workers -> Payload \cup {NULL}]
  /\ updated \in [Workers -> Payload \cup {NULL}]
  /\ run \in [Workers -> 0 .. MaxAttempts]
  /\ hb \in [Workers -> {"off", "waiting", "renewing", "failed"}]
  /\ hb_left \in [Workers -> Int]
  /\ \A r \in detached : r.job_id \in Jobs /\ r.worker \in Workers
  /\ faults \in 0 .. MaxFaults

(* No row is ever durably verified, or finished, unless it carries         *)
(* verification results about the very patch it carries: however often the *)
(* job was requeued with an old patch and old results, resumed by another  *)
(* worker or written by two workers in turn (docs/worker-checkpointing.md, *)
(* "verification remains mandatory before `verified`").                    *)
VerifiedPatch ==
  \A j \in Rows :
    payload[j].status \in {"verified", "dry-run-complete"} =>
      /\ payload[j].work.patch # 0
      /\ payload[j].work.verification = payload[j].work.patch

(* The payload of a row is always that job's, for the tenant the row was   *)
(* inserted for, whatever handlers return.                                 *)
PayloadIdentity ==
  \A j \in Rows : payload[j].job_id = j /\ payload[j].tenant = tenant[j]

(* The step is one of run_once in worker w, and the renewal executed one   *)
(* that w sent for job j, in its present stage or in one it has left.      *)
StepOf(w) == pc'[w] # pc[w] /\ \A v \in Workers \ {w} : pc'[v] = pc[v]
RenewalOf(w, j) ==
  \/ hb[w] = "renewing" /\ hb'[w] # "renewing" /\ job[w].job_id = j
  \/ \E r \in detached \ detached' : r.job_id = j /\ r.worker = w

(* A running row is written, its payload or its status changed, only by    *)
(* the worker whose row it is, in the run of the latest claim, while the   *)
(* lease holds, and its lease is extended only by a renewal that worker    *)
(* sent, while the lease holds: what a run that lost its lease computed,   *)
(* or a renewal it sent, never reaches the row of the next owner           *)
(* (docs/lease-fencing.md, "No valid lease -> no checkpoint -> no          *)
(* completion").                                                           *)
WritesFenced ==
  [][\A j \in Jobs :
       status[j] = "running" =>
         /\ payload'[j] # payload[j] \/ status'[j] # "running" =>
              \E w \in Workers :
                /\ StepOf(w)
                /\ worker_id[j] = w /\ Live(j)
                /\ run[w] = attempts[j] /\ current[w].job_id = j
         /\ status'[j] = "running" /\ attempts'[j] = attempts[j]
              /\ lease'[j] > lease[j] =>
              \E w \in Workers :
                RenewalOf(w, j) /\ worker_id[j] = w /\ Live(j)]_vars

StageRank(s) ==
  CASE s = "queued" -> 0
    [] s = "ready-for-remediation" -> 1
    [] s = "patch-generated" -> 2
    [] s = "verification-pending" -> 3
    [] s = "verified" -> 4
    [] s = "dry-run-complete" -> 5

(* While a job is in the hands of workers, through any number of crashes,  *)
(* expiries and reclaims, its durable progress goes one stage forward at a *)
(* time: no stage is skipped, repeated over a later one, or undone, except *)
(* by fail() (docs/worker-checkpointing.md, "resume from the persisted     *)
(* workflow status instead of restarting already-completed stages").       *)
ProgressKept ==
  [][\A j \in Jobs :
       status[j] = "running" /\ status'[j] = "running"
         /\ payload'[j] # payload[j]
       => StageRank(payload'[j].status) = StageRank(payload[j].status) + 1]_vars

(* The audit trail is never behind the table: a stage that is durable has  *)
(* its stage_started event, and a finished job its job_completed event.    *)
AuditCoversTable ==
  \A j \in Rows :
    /\ payload[j].status \notin {"queued", "dry-run-complete"} =>
         \E e \in audit : /\ e.job_id = j
                          /\ e.type = "stage_started"
                          /\ e.to = payload[j].status
    /\ status[j] = "dry-run-complete" =>
         \E e \in audit : e.job_id = j /\ e.type = "job_completed"

(* A job whose owner is at work in a stage is not up for claiming, as long *)
(* as nothing has failed (docs/worker-lease-renewal.md: the lease          *)
(* "prevents another worker from reclaiming it while the owner is still    *)
(* making progress").                                                      *)
LeaseKeptDuringStage ==
  \A w \in Workers :
    pc[w] = "handler" /\ faults = 0 => Owned(job[w].job_id, w)

(* Every submitted job is finished in the end, through as many failing     *)
(* calls, raising handlers and crashes as MaxFaults allows.                *)
JobsFinish ==
  \A j \in Jobs : status[j] # "absent" ~> status[j] = "dry-run-complete"
=============================================================================
