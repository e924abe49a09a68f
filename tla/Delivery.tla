------------------------------ MODULE Delivery ------------------------------
(***************************************************************************)
(* Delivery of verified remediations as pull requests: the table           *)
(* remediation_delivery_attempts (sentinel/delivery_idempotency.py), the   *)
(* executor that fences a delivery with it (delivery_execution.py,         *)
(* delivery_reconciliation.py) and the GitHub calls both make              *)
(* (github_delivery.py).  The HTTP endpoint for deliveries calls GitHub    *)
(* without the table, and runs beside the executors.                       *)
(*                                                                         *)
(* GitHub is external: in each repository a branch can be created once,    *)
(* and has at most one open pull request into a base.  People may close or *)
(* merge a pull request, and what holds is claimed as long as nobody       *)
(* deletes the branch of a job afterwards: deliver() knows of an earlier   *)
(* delivery only by that branch.                                           *)
(***************************************************************************)
EXTENDS Integers, FiniteSets

CONSTANTS
  Jobs,        \* verified jobs whose request passes validate_request
  Repositories,
  Bases,       \* base branches callers name
  Threads,     \* callers of execute() and of the endpoint
  Owners,      \* delivery owner strings
  OwnerOf,     \* the owner string of each thread's executor
  LeaseTicks,  \* the executor's lease
  MaxFaults,   \* how many calls fail in a behaviour
  NULL

ASSUME DeliveryAssumption ==
  /\ OwnerOf \in [Threads -> Owners]
  /\ LeaseTicks \in Nat \ {0}
  /\ MaxFaults \in Nat
  /\ NULL \notin Owners \cup Threads \cup Int

(* build_delivery_key: the job with its tenant and event, the repository   *)
(* and the base branch, both chosen by the caller; execute() knows one     *)
(* provider.                                                               *)
Keys == Jobs \X Repositories \X Bases
JobOf(k) == k[1]
RepoOf(k) == k[2]
BaseOf(k) == k[3]

(* The head of a delivery, sentinel/remediation/<job_id> in its repository *)
(* whatever the base.                                                      *)
Heads == Jobs \X Repositories
HeadOf(k) == <<JobOf(k), RepoOf(k)>>

VARIABLES
  status,    \* per key: absent, pending, in_progress, succeeded
  owner,     \* delivery_owner
  lease,     \* lease_until - now: NULL, or -1 once it has passed
  result,    \* pull_request_number and commit_sha, once succeeded
  branch,    \* GitHub: the commit of each head that exists, by its author
  pulls,     \* GitHub: the pull requests ever opened
  at,        \* the call each thread is about to make
  key,       \* the delivery it is working on
  durable,   \* whether it runs execute() or the endpoint
  remote,    \* the pull request it created or found
  begins,    \* history: how often begin() succeeded for a key
  faults

rowVars == <<status, owner, lease, result>>
githubVars == <<branch, pulls>>
threadVars == <<at, key, durable, remote>>
vars == <<rowVars, githubVars, threadVars, begins, faults>>

Init ==
  /\ status = [k \in Keys |-> "absent"]
  /\ owner = [k \in Keys |-> NULL]
  /\ lease = [k \in Keys |-> NULL]
  /\ result = [k \in Keys |-> NULL]
  /\ branch = [h \in Heads |-> NULL]
  /\ pulls = {}
  /\ at = [e \in Threads |-> "free"]
  /\ key = [e \in Threads |-> NULL]
  /\ durable = [e \in Threads |-> FALSE]
  /\ remote = [e \in Threads |-> NULL]
  /\ begins = [k \in Keys |-> 0]
  /\ faults = 0

-----------------------------------------------------------------------------
Goto(e, l) == at' = [at EXCEPT ![e] = l] /\ UNCHANGED <<key, durable, remote>>

(* The thread's call of execute() or of the endpoint ends.                 *)
Done(e) ==
  /\ at' = [at EXCEPT ![e] = "free"]
  /\ key' = [key EXCEPT ![e] = NULL]
  /\ durable' = [durable EXCEPT ![e] = FALSE]
  /\ remote' = [remote EXCEPT ![e] = NULL]

Fault == faults < MaxFaults /\ faults' = faults + 1

(* The answer to a call is lost after the call took effect: every caller   *)
(* in delivery_execution.py gives up with an error.                        *)
Continue(e, l) == (Goto(e, l) /\ UNCHANGED faults) \/ (Done(e) /\ Fault)

(* A call fails without effect, or the process dies.                       *)
CallFails(e) ==
  /\ at[e] # "free"
  /\ Fault
  /\ Done(e)
  /\ UNCHANGED <<rowVars, githubVars, begins>>

LeaseHolds(k) == lease[k] = NULL \/ lease[k] >= 0

-----------------------------------------------------------------------------
(* DeliveryAttemptStore *)

(* acquire: a new row, or a row whose lease has passed and which is not    *)
(* settled, goes to the caller; any other row stays as it is.              *)
TakesOverSettled(k) ==
  status[k] # "absent" /\ (lease[k] = NULL \/ lease[k] < 0)
TakesOverPending(k) == status[k] = "pending" /\ (lease[k] = NULL \/ lease[k] < 0)
TakesOver(k) ==
  /\ status[k] \in {"pending", "in_progress"}
  /\ lease[k] = NULL \/ lease[k] < 0
Acquires(e, k) == status[k] = "absent" \/ TakesOver(k)
AcquireRow(e, k) ==
  /\ status' = [status EXCEPT ![k] = IF @ = "absent" THEN "pending" ELSE @]
  /\ owner' = [owner EXCEPT ![k] = IF Acquires(e, k) THEN OwnerOf[e] ELSE @]
  /\ lease' = [lease EXCEPT ![k] = IF Acquires(e, k) THEN LeaseTicks ELSE @]
  /\ UNCHANGED result

(* begin, once per key: only a pending row can be begun.                   *)
BeginsAgain(e, k) ==
  /\ status[k] \in {"pending", "in_progress"}
  /\ owner[k] = OwnerOf[e] /\ LeaseHolds(k)
BeginEnabled(e, k) ==
  /\ status[k] = "pending"
  /\ owner[k] = OwnerOf[e]
  /\ LeaseHolds(k)
BeginRow(e, k) ==
  /\ BeginEnabled(e, k)
  /\ status' = [status EXCEPT ![k] = "in_progress"]
  /\ lease' = [lease EXCEPT ![k] = LeaseTicks]
  /\ begins' = [begins EXCEPT ![k] = @ + 1]
  /\ UNCHANGED <<owner, result>>

(* _record_success, for a result just created or found again.              *)
RecordEnabled(e, k) ==
  /\ status[k] = "in_progress"
  /\ owner[k] = OwnerOf[e]
  /\ LeaseHolds(k)
RecordRow(e, k, r) ==
  /\ RecordEnabled(e, k)
  /\ status' = [status EXCEPT ![k] = "succeeded"]
  /\ result' = [result EXCEPT ![k] = r]
  /\ lease' = [lease EXCEPT ![k] = NULL]
  /\ UNCHANGED owner

-----------------------------------------------------------------------------
(* execute *)

(* The row decides: settled, another owner's, ambiguous, or ours to begin. *)
AfterAcquire(e, k) ==
  CASE status'[k] = "succeeded" -> "free"
    [] owner'[k] # OwnerOf[e] -> "free"
    [] status'[k] = "in_progress" -> "reconcile"
    [] status'[k] = "pending" -> "begin"
ExecuteFor(e, k) ==
  /\ at[e] = "free"
  /\ AcquireRow(e, k)
  /\ \/ /\ AfterAcquire(e, k) # "free"
        /\ at' = [at EXCEPT ![e] = AfterAcquire(e, k)]
        /\ key' = [key EXCEPT ![e] = k]
        /\ durable' = [durable EXCEPT ![e] = TRUE]
        /\ UNCHANGED <<remote, faults>>
     \/ Acquires(e, k) /\ Done(e) /\ Fault
  /\ UNCHANGED <<githubVars, begins>>
Execute(e) == \E k \in Keys : ExecuteFor(e, k)

Begin(e) ==
  /\ at[e] = "begin"
  /\ \/ BeginRow(e, key[e]) /\ Continue(e, "check_branch")
     \/ /\ ~BeginEnabled(e, key[e])
        /\ Done(e)
        /\ UNCHANGED <<rowVars, begins, faults>>
  /\ UNCHANGED githubVars

(* The endpoint starts where execute() gets to after begin().              *)
Post(e) ==
  /\ at[e] = "free"
  /\ \E k \in Keys : key' = [key EXCEPT ![e] = k]
  /\ at' = [at EXCEPT ![e] = "check_branch"]
  /\ UNCHANGED <<durable, remote, rowVars, githubVars, begins, faults>>

(* deliver: the branch must not exist yet; blobs, tree and commit are      *)
(* invisible until the branch is created, which GitHub refuses if it       *)
(* exists by then; then the pull request.  Errors end the call.            *)
CheckBranch(e) ==
  /\ at[e] = "check_branch"
  /\ IF branch[HeadOf(key[e])] = NULL THEN Goto(e, "create_branch") ELSE Done(e)
  /\ UNCHANGED <<rowVars, githubVars, begins, faults>>

CreateBranchOrReuse(e) ==
  /\ at[e] = "create_branch"
  /\ branch' = [branch EXCEPT ![HeadOf(key[e])] = IF @ = NULL THEN e ELSE @]
  /\ Continue(e, "open_pull")
  /\ UNCHANGED <<rowVars, pulls, begins>>
CreateBranch(e) ==
  /\ at[e] = "create_branch"
  /\ LET h == HeadOf(key[e])
     IN  \/ /\ branch[h] = NULL
            /\ branch' = [branch EXCEPT ![h] = e]
            /\ Continue(e, "open_pull")
         \/ branch[h] # NULL /\ Done(e) /\ UNCHANGED <<branch, faults>>
  /\ UNCHANGED <<rowVars, pulls, begins>>

(* The head of a pull request, and the open ones of a key: those from its  *)
(* head into its base.  Each repository numbers its own.                   *)
From(p) == <<p.job, p.repo>>
OpenPullsIntoAny(k) == {p \in pulls : p.open /\ From(p) = HeadOf(k)}
OpenPulls(k) ==
  {p \in pulls : p.open /\ From(p) = HeadOf(k) /\ p.base = BaseOf(k)}
PullsIn(r) == {p \in pulls : p.repo = r}

(* The guard is GitHub's refusal of a second pull request; CreateBranch    *)
(* lets only one thread get here, so it never bites.                       *)
OpenPull(e) ==
  /\ at[e] = "open_pull"
  /\ LET k == key[e]
         n == Cardinality(PullsIn(RepoOf(k))) + 1
     IN  /\ OpenPulls(k) = {}
         /\ pulls' = pulls \cup {[number |-> n, job |-> JobOf(k),
                                  repo |-> RepoOf(k), base |-> BaseOf(k),
                                  open |-> TRUE]}
         /\ \/ /\ durable[e]
               /\ at' = [at EXCEPT ![e] = "record"]
               /\ remote' = [remote EXCEPT ![e] = [number |-> n, commit |-> e]]
               /\ UNCHANGED <<key, durable, faults>>
            \/ ~durable[e] /\ Done(e) /\ UNCHANGED faults
            \/ durable[e] /\ Done(e) /\ Fault
  /\ UNCHANGED <<rowVars, branch, begins>>

(* _reconcile: an in_progress row is compared with GitHub; without an open *)
(* pull request the outcome stays ambiguous and nothing is retried.        *)
Reconcile(e) ==
  /\ at[e] = "reconcile"
  /\ \/ \E p \in OpenPulls(key[e]) :
          /\ remote' = [remote EXCEPT ![e] =
                          [number |-> p.number, commit |-> branch[From(p)]]]
          /\ at' = [at EXCEPT ![e] = "record"]
          /\ UNCHANGED <<key, durable>>
     \/ OpenPulls(key[e]) = {} /\ Done(e)
  /\ UNCHANGED <<rowVars, githubVars, begins, faults>>

Record(e) ==
  /\ at[e] = "record"
  /\ \/ RecordRow(e, key[e], remote[e])
     \/ ~RecordEnabled(e, key[e]) /\ UNCHANGED rowVars
  /\ Done(e)
  /\ UNCHANGED <<githubVars, begins, faults>>

(* Somebody closes or merges a pull request.                               *)
ClosePull ==
  /\ \E p \in pulls :
       p.open /\ pulls' = (pulls \ {p}) \cup {[p EXCEPT !.open = FALSE]}
  /\ UNCHANGED <<rowVars, branch, threadVars, begins, faults>>

Tick ==
  /\ lease' = [k \in Keys |-> IF lease[k] = NULL THEN NULL
                              ELSE IF lease[k] >= 0 THEN lease[k] - 1 ELSE -1]
  /\ UNCHANGED <<status, owner, result, githubVars, threadVars, begins, faults>>

ThreadStep(e) ==
  \/ Execute(e) \/ Begin(e) \/ CheckBranch(e) \/ CreateBranch(e)
  \/ OpenPull(e) \/ Reconcile(e) \/ Record(e)

Next ==
  \/ \E e \in Threads : ThreadStep(e) \/ Post(e) \/ CallFails(e)
  \/ ClosePull
  \/ Tick

Spec == Init /\ [][Next]_vars

(* Calls take no time worth counting next to the lease, execute() is       *)
(* called again for each delivery that is not settled, and nobody closes   *)
(* the pull requests.                                                      *)
Timely == \A e \in Threads : at[e] = "free"
LiveNext ==
  \/ \E e \in Threads : ThreadStep(e) \/ CallFails(e)
  \/ Timely /\ Tick
LiveSpec ==
  /\ Init /\ [][LiveNext]_vars
  /\ \A e \in Threads : WF_vars(at[e] # "free" /\ ThreadStep(e))
  /\ WF_vars(Timely /\ Tick)
  /\ \A e \in Threads, k \in Keys : SF_vars(ExecuteFor(e, k))

-----------------------------------------------------------------------------
Calls == {"free", "begin", "check_branch", "create_branch", "open_pull",
          "reconcile", "record"}
Results == [number : Nat, commit : Threads]
Pulls == [number : Nat, job : Jobs, repo : Repositories, base : Bases,
          open : BOOLEAN]

RowTypeOK ==
  /\ status \in [Keys -> {"absent", "pending", "in_progress", "succeeded"}]
  /\ owner \in [Keys -> Owners \cup {NULL}]
  /\ lease \in [Keys -> Int \cup {NULL}]
  /\ result \in [Keys -> Results \cup {NULL}]
GitHubTypeOK ==
  /\ branch \in [Heads -> Threads \cup {NULL}]
  /\ pulls \in SUBSET Pulls
ThreadTypeOK ==
  /\ at \in [Threads -> Calls]
  /\ key \in [Threads -> Keys \cup {NULL}]
  /\ durable \in [Threads -> BOOLEAN]
  /\ remote \in [Threads -> Results \cup {NULL}]

(* Every column, GitHub and every thread hold values of their types.       *)
TypeOK ==
  /\ RowTypeOK
  /\ GitHubTypeOK
  /\ ThreadTypeOK
  /\ begins \in [Keys -> Nat]
  /\ faults \in 0 .. MaxFaults

(* The executor goes to GitHub to create at most once per delivery key,    *)
(* whatever is lost, however often execute() is retried and whoever takes  *)
(* the row over (docs/delivery-idempotency.md, "prevents a second durable  *)
(* attempt from being recorded for the same delivery identity").           *)
BegunOnce == \A k \in Keys : begins[k] <= 1

(* No job ever gets two pull requests in one repository, not even into two *)
(* bases or after the first was closed, by any mix of executors, endpoint  *)
(* calls and retries, as long as its branch is left there.  A job that is  *)
(* delivered to two repositories gets one in each.                         *)
OnePullPerJob ==
  \A p, q \in pulls : p.job = q.job /\ p.repo = q.repo => p = q

(* What the table calls succeeded exists: the recorded number is that of a *)
(* pull request of this job in this repository and into this base, and the *)
(* recorded commit is the one its branch points to.                        *)
RecordedPullExists ==
  \A k \in Keys :
    status[k] = "succeeded" =>
      /\ \E p \in pulls : /\ p.number = result[k].number
                          /\ From(p) = HeadOf(k) /\ p.base = BaseOf(k)
      /\ result[k].commit = branch[HeadOf(k)]

(* A settled delivery keeps its result, its owner and its status: neither  *)
(* a late result of a displaced owner nor a takeover touches it.           *)
SettledIsFinal ==
  [][\A k \in Keys :
       status[k] = "succeeded" =>
         /\ status'[k] = "succeeded" /\ result'[k] = result[k]
         /\ owner'[k] = owner[k] /\ lease'[k] = NULL]_vars

(* A pull request that was opened for a delivery in progress is recorded   *)
(* in the end, although the answer, the record or the process was lost.    *)
OpenedIsRecorded ==
  \A k \in Keys :
    (status[k] = "in_progress" /\ OpenPulls(k) # {}) ~> status[k] = "succeeded"
=============================================================================
