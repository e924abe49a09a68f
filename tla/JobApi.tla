------------------------------- MODULE JobApi -------------------------------
(***************************************************************************)
(* The job endpoints of sentinel/api.py: every request is a thread that    *)
(* calls the queue and the audit sink one after the other, with no         *)
(* transaction around the two, so requests interleave between those calls  *)
(* and either call may fail alone, before it took effect or after.  A      *)
(* failing call ends the request with an error and undoes nothing.         *)
(***************************************************************************)
EXTENDS JobQueue

CONSTANTS
  Requests,   \* the request threads of the API process
  NoWork,     \* the empty patch and verification of a new job
  CallerEvents, \* event types that callers of the events endpoint make up
  MaxFaults   \* how many calls fail in a behaviour

(* What create, approve, claim, complete and fail record of a job.         *)
OwnEvents == {"snapshot", "job_created", "job_approved", "job_claimed",
              "job_completed", "job_requeued"}

ASSUME ApiAssumption ==
  /\ NoWork \in Work
  /\ CallerEvents \cap OwnEvents = {}
  /\ MaxFaults \in Nat

VARIABLES
  at,         \* the call each request is about to make
  arg,        \* the job the request carries, read, or was handed
  caller,     \* the worker_id of a claim, complete or fail request
  holding,    \* the job each HTTP worker was answered by its last claim
  audit,      \* <<job, event type>> recorded; "snapshot" is the audit record
  held,       \* history: the jobs that were created awaiting approval
  releases,   \* history: how many approve requests released each job
  faults

requestVars == <<at, arg, caller>>
vars == <<queueVars, requestVars, holding, audit, held, releases, faults>>

Init ==
  /\ QueueInit
  /\ at = [r \in Requests |-> "free"]
  /\ arg = [r \in Requests |-> NULL]
  /\ caller = [r \in Requests |-> NULL]
  /\ holding = [w \in Workers |-> NULL]
  /\ audit = {}
  /\ held = {}
  /\ releases = [j \in Jobs |-> 0]
  /\ faults = 0

-----------------------------------------------------------------------------
Goto(r, l) == at' = [at EXCEPT ![r] = l]

(* The request is answered, with a result or an error.                     *)
Answered(r) ==
  /\ at' = [at EXCEPT ![r] = "free"]
  /\ arg' = [arg EXCEPT ![r] = NULL]
  /\ caller' = [caller EXCEPT ![r] = NULL]

(* A call of any request fails without effect, or the answer to the call   *)
(* before it is lost: 503, or 409 where the endpoint answers AuditError    *)
(* that way.                                                               *)
CallFails(r) ==
  /\ at[r] # "free"
  /\ faults < MaxFaults
  /\ faults' = faults + 1
  /\ Answered(r)
  /\ UNCHANGED <<queueVars, holding, audit, held, releases>>

(* The event of one request is recorded.                                   *)
Record(r, type) == audit' = audit \cup {<<arg[r].job_id, type>>}

-----------------------------------------------------------------------------
(* create_job: create_remediation_job makes a new id and holds new-feature *)
(* changes; snapshot, job_created event, and only then the row.            *)
CreateBegin(r) ==
  /\ at[r] = "free"
  /\ \E j \in Jobs \ Rows, t \in Tenants, s \in {"queued", "awaiting-approval"} :
       /\ \A q \in Requests : arg[q] # NULL => arg[q].job_id # j
       /\ <<j, "snapshot">> \notin audit
       /\ arg' = [arg EXCEPT ![r] = [job_id |-> j, tenant |-> t, status |-> s,
                                     work |-> NoWork]]
  /\ Goto(r, "create_snapshot")
  /\ UNCHANGED <<queueVars, caller, holding, audit, held, releases, faults>>

CreateSnapshot(r) ==
  /\ at[r] = "create_snapshot"
  /\ Record(r, "snapshot")
  /\ Goto(r, "create_event")
  /\ UNCHANGED <<queueVars, arg, caller, holding, held, releases, faults>>

CreateEventAfterRow(r) ==
  /\ at[r] = "create_event"
  /\ Enqueue(arg[r])
  /\ held' = IF arg[r].status = "awaiting-approval"
             THEN held \cup {arg[r].job_id} ELSE held
  /\ Goto(r, "create_row")
  /\ UNCHANGED <<arg, caller, holding, audit, releases, faults>>
CreateEvent(r) ==
  /\ at[r] = "create_event"
  /\ Record(r, "job_created")
  /\ Goto(r, "create_row")
  /\ UNCHANGED <<queueVars, arg, caller, holding, held, releases, faults>>

CreateRow(r) ==
  /\ at[r] = "create_row"
  /\ Enqueue(arg[r])
  /\ held' = IF arg[r].status = "awaiting-approval"
             THEN held \cup {arg[r].job_id} ELSE held
  /\ Answered(r)
  /\ UNCHANGED <<holding, audit, releases, faults>>

(* approve_job: reads the payload, approves what it read, releases the     *)
(* row if it is still held, and then records the approval.                 *)
ApproveGet(r) ==
  /\ at[r] = "free"
  /\ \E j \in Rows :
       /\ payload[j].status = "awaiting-approval"
       /\ arg' = [arg EXCEPT ![r] = [payload[j] EXCEPT !.status = "queued"]]
  /\ Goto(r, "approve_release")
  /\ UNCHANGED <<queueVars, caller, holding, audit, held, releases, faults>>

ApproveRelease(r) ==
  /\ at[r] = "approve_release"
  /\ \/ /\ ReleaseApproval(arg[r])
        /\ releases' = [releases EXCEPT ![arg[r].job_id] = @ + 1]
        /\ Goto(r, "approve_record")
        /\ UNCHANGED <<arg, caller>>
     \/ /\ ~ReleaseApprovalEnabled(arg[r])
        /\ Answered(r)
        /\ UNCHANGED <<queueVars, releases>>
  /\ UNCHANGED <<holding, audit, held, faults>>

ApproveRecord(r) ==
  /\ at[r] = "approve_record"
  /\ Record(r, "job_approved")
  /\ Answered(r)
  /\ UNCHANGED <<queueVars, holding, held, releases, faults>>

(* claim_job: the row is leased first; only an answered claim gives the    *)
(* worker the job, so a failing event leaves it leased to a worker that    *)
(* does not have it, and so does an answer that is lost after the event.   *)
ClaimRow(r) ==
  /\ at[r] = "free"
  /\ \E j \in Jobs, w \in Workers, l \in LeaseChoices :
       /\ Claim(j, w, l)
       /\ arg' = [arg EXCEPT ![r] = payload[j]]
       /\ caller' = [caller EXCEPT ![r] = w]
  /\ Goto(r, "claim_record")
  /\ UNCHANGED <<holding, audit, held, releases, faults>>

ClaimRecord(r) ==
  /\ at[r] = "claim_record"
  /\ Record(r, "job_claimed")
  /\ Answered(r)
  /\ \/ /\ holding' = [holding EXCEPT ![caller[r]] = arg[r]]
        /\ UNCHANGED faults
     \/ /\ faults < MaxFaults
        /\ faults' = faults + 1
        /\ UNCHANGED holding
  /\ UNCHANGED <<queueVars, held, releases>>

(* complete_job and fail_job: the worker hands back the job it was given.  *)
(* The endpoints would take any job, worker and payload: see QueueSpec for *)
(* what the queue does with them.                                          *)
Send(r, w, s) ==
  /\ at[r] = "free"
  /\ holding[w] # NULL
  /\ arg' = [arg EXCEPT ![r] = [holding[w] EXCEPT !.status = s]]
  /\ caller' = [caller EXCEPT ![r] = w]
  /\ UNCHANGED <<queueVars, holding, audit, held, releases, faults>>
CompleteSend(r, w) == Send(r, w, "dry-run-complete") /\ Goto(r, "complete_row")
FailSend(r, w) == Send(r, w, "queued") /\ Goto(r, "fail_row")

CompleteRowUnfenced(r) ==
  /\ at[r] = "complete_row"
  /\ LET j == arg[r].job_id
     IN  \/ Complete(j, caller[r], arg[r])
         \/ ~CompleteEnabled(j, caller[r], arg[r]) /\ UNCHANGED queueVars
  /\ Goto(r, "complete_record")
  /\ UNCHANGED <<arg, caller, holding, audit, held, releases, faults>>
CompleteRow(r) ==
  /\ at[r] = "complete_row"
  /\ LET j == arg[r].job_id
     IN  \/ /\ Complete(j, caller[r], arg[r])
            /\ Goto(r, "complete_record")
            /\ UNCHANGED <<arg, caller>>
         \/ /\ ~CompleteEnabled(j, caller[r], arg[r])
            /\ Answered(r)
            /\ UNCHANGED queueVars
  /\ UNCHANGED <<holding, audit, held, releases, faults>>

CompleteRecord(r) ==
  /\ at[r] = "complete_record"
  /\ Record(r, "job_completed")
  /\ Answered(r)
  /\ UNCHANGED <<queueVars, holding, held, releases, faults>>

FailRow(r) ==
  /\ at[r] = "fail_row"
  /\ LET j == arg[r].job_id
     IN  \/ /\ \E d \in RetryChoices : Fail(j, caller[r], arg[r], d)
            /\ Goto(r, "fail_record")
            /\ UNCHANGED <<arg, caller>>
         \/ /\ ~FailEnabled(j, caller[r], arg[r])
            /\ Answered(r)
            /\ UNCHANGED queueVars
  /\ UNCHANGED <<holding, audit, held, releases, faults>>

FailRecord(r) ==
  /\ at[r] = "fail_record"
  /\ Record(r, "job_requeued")
  /\ Answered(r)
  /\ UNCHANGED <<queueVars, holding, held, releases, faults>>

(* append_remediation_event: any job a caller names, known to the queue or *)
(* not, with an event type of the caller's own; nothing else is touched.   *)
AppendEvent(r) ==
  /\ at[r] = "free"
  /\ \E j \in Jobs, e \in CallerEvents : audit' = audit \cup {<<j, e>>}
  /\ UNCHANGED <<queueVars, requestVars, holding, held, releases, faults>>

Tick ==
  /\ QueueTick
  /\ UNCHANGED <<requestVars, holding, audit, held, releases, faults>>

RequestStep(r) ==
  \/ CreateBegin(r) \/ CreateSnapshot(r) \/ CreateEvent(r) \/ CreateRow(r)
  \/ ApproveGet(r) \/ ApproveRelease(r) \/ ApproveRecord(r)
  \/ ClaimRow(r) \/ ClaimRecord(r)
  \/ \E w \in Workers : CompleteSend(r, w) \/ FailSend(r, w)
  \/ CompleteRow(r) \/ CompleteRecord(r) \/ FailRow(r) \/ FailRecord(r)
  \/ AppendEvent(r)

Next ==
  (\E r \in Requests : RequestStep(r) \/ CallFails(r)) \/ Tick

Spec == Init /\ [][Next]_vars

-----------------------------------------------------------------------------
Calls == {"free", "create_snapshot", "create_event", "create_row",
          "approve_release", "approve_record", "claim_record", "complete_row",
          "complete_record", "fail_row", "fail_record"}

(* Every column and every request holds values of its type.                *)
TypeOK ==
  /\ QueueTypeOK
  /\ at \in [Requests -> Calls]
  /\ arg \in [Requests -> Payload \cup {NULL}]
  /\ caller \in [Requests -> Workers \cup {NULL}]
  /\ holding \in [Workers -> Payload \cup {NULL}]
  /\ audit \subseteq Jobs \X (OwnEvents \cup CallerEvents)
  /\ held \subseteq Jobs
  /\ releases \in [Jobs -> Nat]
  /\ faults \in 0 .. MaxFaults

(* A job that was created awaiting approval is handed to a worker only     *)
(* after an approve request released it (docs/worker-checkpointing.md,     *)
(* "Approval remains required where the job was created in                 *)
(* `awaiting-approval`").  Of any number of approve requests that read the *)
(* job while it was held, one releases it; the others, however late they   *)
(* come, find it released, claimed, requeued or finished and change        *)
(* nothing.                                                                *)
ReleasedOnceBeforeClaimed ==
  \A j \in Jobs :
    /\ releases[j] <= 1
    /\ j \in held /\ attempts[j] > 0 => releases[j] = 1

(* Every row has its snapshot and its job_created event, whichever call of *)
(* its create request failed: an audit outage stops creation.              *)
RowsAreAudited ==
  \A j \in Rows : <<j, "snapshot">> \in audit /\ <<j, "job_created">> \in audit

(* An event of claim, approve, complete or fail is on record only of a row *)
(* that was claimed, released or finished.                                 *)
EventsFollowRows ==
  \A j \in Jobs :
    /\ <<j, "job_completed">> \in audit => j \in Rows /\ status[j] \in TerminalStatuses
    /\ <<j, "job_approved">> \in audit => j \in held /\ releases[j] = 1
    /\ (<<j, "job_claimed">> \in audit \/ <<j, "job_requeued">> \in audit)
         => j \in Rows /\ attempts[j] > 0

(* As long as no call failed, a claimed, released or finished row has its  *)
(* event, or the request that changed the row is about to record it.       *)
GapsAreFaults ==
  faults = 0 =>
    \A j \in Rows :
      LET Recorded(type, l) ==
            \/ <<j, type>> \in audit
            \/ \E r \in Requests : at[r] = l /\ arg[r].job_id = j
      IN  /\ attempts[j] > 0 => Recorded("job_claimed", "claim_record")
          /\ releases[j] > 0 => Recorded("job_approved", "approve_record")
          /\ status[j] \in TerminalStatuses
               => Recorded("job_completed", "complete_record")

(* The audit trail against the table, whichever call of which request      *)
(* fails or is overtaken.  It never runs ahead: a stale completion that    *)
(* the queue refused leaves no job_completed.  What it lacks it lacks      *)
(* because a call failed, as complete_job changes the row first.           *)
TrailMatchesRows == EventsFollowRows /\ GapsAreFaults

(* A held job that a worker was given has its approval on record           *)
(* (docs/approval-gate-usage.md, "Persist the returned                     *)
(* `RemediationApproval` with the existing audit trail before allowing the *)
(* queued job to run").                                                    *)
ApprovalRecordedBeforeClaim ==
  \A j \in held : attempts[j] > 0 => <<j, "job_approved">> \in audit
=============================================================================
