# Formal specification of Sentinel

TLA+ specifications of the stateful core of Sentinel, TLC configurations that
check them on small instances, and TLAPS proofs of the results that matter most
for every value of the constants. `PROJECT.json` maps each definition to the
lines it models and lists the runs, mutants, findings, hazards and theorems.

    tlc -workers 2 -config MCJobQueue.cfg MCJobQueue     # one run
    tlapm JobQueueProofs.tla                             # one module of proofs

## 1. The system

Sentinel turns a breaking change of a vendor API into a remediation job. The job
is created through the HTTP API, may be held for approval, is leased from a
PostgreSQL table by a worker process, taken through four stages (remediate,
verify and the transitions between them), completed as a dry run, and, on a
separate path, delivered as a GitHub pull request.

| Component (`src/src/sentinel/`) | State | Operations | Correct if |
|---|---|---|---|
| Job queue: `job_queue.py`, migration 003 | the rows of `remediation_jobs`: status, payload, tenant, worker, lease, availability, attempts | enqueue, claim, renew_lease, release_approval, checkpoint, complete, fail | a row has one owner at a time; a lapsed lease is never revived; finished and held rows are left alone |
| Worker and heartbeat: `remediation_worker.py` | locals of `run_once`; one heartbeat thread per stage | run_once, `_run_stage`, `_LeaseHeartbeat` | a stale run writes nothing; progress survives crashes; nothing unverified is durable; jobs finish |
| Runtime: `remediation_worker_runtime.py`, `worker_health.py`, `worker_observability.py`, `worker_service.py` | stop event, health flags under a lock, backoff, counters | run, request_stop, health marks, signal handlers | it stops when told to, promptly; nothing is claimed after the stop but what had begun; the counters agree |
| Job endpoints: `api.py`, `approval_gate.py`, `orchestrator.py`, `audit.py`, `audit_storage.py` | none of their own; each request makes a sequence of queue and audit calls | create, approve, claim, complete, fail, events | a held job runs only after one release; a row is never without its audit records; the trail is never ahead of the table |
| Ingestion and analysis: `api.py`, `diff.py`, `matcher.py`, `blast_radius.py`, `repository.py` | none; the client carries events, snapshots and reports from one request to the next | ingest a change, take a snapshot, report the blast radius, create a job | up to Python's `==` the diff misses and invents nothing; lines that call a changed endpoint are found; pure additions wait for approval |
| Tools and verification: `remediation_orchestrator.py`, `tool_*.py`, `patch_tool.py`, `repository_tools.py`, `verification*.py`, `sandbox.py` | the working copy; results of one verification | compile a plan, read, search, patch, verify | patches compose and are not repeated; verified means every command passed on what is there now |
| Migrations: `migrate.py`, `migrations/*.sql` | `schema_migrations` and the tables | migrate | each file once, whole or not at all, whoever runs at once |
| Delivery: `delivery_idempotency.py`, `delivery_execution.py`, `delivery_reconciliation.py`, `github_delivery.py`, `github_reconciliation.py`, migration 004 | the rows of `remediation_delivery_attempts`; branches and pull requests at GitHub | acquire, begin, record, deliver, reconcile | one pull request per job and repository whatever is lost; what is recorded exists; what was opened is recorded in the end |
| Sandbox lifecycle, singletons, GitHub App token, dry-run delivery | lifecycle state; pools | see PROJECT.json | not modelled, section 6 |

How they interact. Request threads and worker processes share nothing but the
PostgreSQL tables, every call is a transaction of its own, and no transaction
spans a queue call and an audit call. A worker is two threads, `run_once` and the
heartbeat of the current stage, which share only the stop event and the stored
error. The main thread of a worker also runs its signal handlers. Executors and
the delivery endpoint share the delivery table and GitHub, and the endpoint
(`api.py`, `github_delivery`) does not use the table. Every API container runs
`sentinel.migrate` before it serves, so several, of different builds, may
migrate one database at once. The stages' handlers are injected; what they call
(the tools, `verify_remediation_job`) works on one working copy that attempts
share or get anew.

What is hard: a worker that lost its lease and does not know; a renewal still
under way when its stage is over; crashes and lost answers between any two calls;
approval racing claims; a stop request racing the loop, or interrupting it
inside a lock; a pull request that was created although the caller saw an error;
migrations that race each other; and a plan retried on a working copy that an
earlier attempt left half patched. Section 3 says
which property is aimed at which; `PROJECT.json` lists them line by line.

## 2. Modules

    LeasedJobs          what the queue promises: exclusive grants that lapse
      ^ implemented by
    JobQueue            every SQL statement of job_queue.py, one action each
      ^ EXTENDS         ^ EXTENDS
    RemediationWorker   JobApi          Delivery        WorkerRuntime
    OpenApiDiff         diff.py as operators
      ^ EXTENDS
    ChangeIngestion     RemediationStages               Migrations
    MC*                 symmetry sets and constant values for TLC
    *Proofs             the theorems about the module they are named after;
                        those of RemediationWorker and JobApi build on
                        JobQueueProofs

**JobQueue.** One variable per column of `remediation_jobs`. `lease` is
`lease_until - CURRENT_TIMESTAMP` in ticks: NULL without a lease, 0 at the very
expiry, -1 once it has passed (the code has `lease_until >= CURRENT_TIMESTAMP`
for the owner and `<` for a claim, so 0 still belongs to the owner).
`available` is treated the same way. `Claimable`, `Candidate` and `Claim` are the
conditions, the `ORDER BY` and the `UPDATE` of `claim`; `Owned` is the condition
that every owner statement repeats. A statement that matches no row
changes nothing and raises; the `...Enabled` operators let callers tell. In
`QueueSpec` anybody may call anything with any payload.

**RemediationWorker.** `pc[w]` is the next call of `run_once`, one action per
call to the queue or the audit sink (`EmitStageStarted`, `CheckpointStage`,
`CompleteJob`, ...). `hb[w]` and `hb_left[w]` are the heartbeat thread of the
stage; `ExitHeartbeat` is `__exit__`, whose `join` has a timeout, so a renewal
that is still under way can end up in `detached` and take effect later.
`CallFails` and the lost-answer alternatives lead where the `except` clauses of
`run_once` lead; `Crash` forgets the worker's locals. Payloads carry the
workflow status and `work`: which run produced the patch and which patch the
verification results are about, which is all the properties tell apart. The
injected handlers are external: they may raise, return the job with new work, or
return another job or tenant.

**JobApi.** A request is a thread; `at[r]` is the next call. Audit records are
pairs of job and event. `held` and `releases` are history variables. A call that
takes effect and whose answer is lost is the call followed by `CallFails`; a
claim whose answer is lost after its event is an alternative of `ClaimRecord`.
`AppendEvent` is the endpoint for events of the callers' own; `CallerEvents`
must not contain the types that the other endpoints write, which the code does
not enforce: a caller that posts `job_completed` makes the trail say so. A
complete or fail request hands back the job and the worker id that a claim was
answered with; the endpoints take both, and the payload, from any request, and what
arbitrary callers can do to the table is `QueueSpec`.

**Delivery.** `status`, `owner`, `lease` and `result` are the columns of
`remediation_delivery_attempts`, `branch` and `pulls` are GitHub. A delivery key
is a job, a repository and a base branch, of which the caller chooses the last two.
The head of a delivery is the branch named after the job in that repository, whatever
the base, as in the code, and each repository numbers its own pull requests. Nobody
deletes the branch of a job: it is the only trace of an earlier delivery that
`deliver()` looks at. A thread of `Threads` runs `execute()` (`durable`) or the endpoint
(`Post`). `OwnerOf` need not be injective: two processes may be configured with
the same owner. `ClosePull` is a person who closes or merges.

**WorkerRuntime.** `frames` is the stack of the main thread: `SignalArrives`
pushes a handler between any two steps of the frame below it. A method that takes
a lock is two steps, `Acquire` and the rest; the locks are `threading.Lock` and
the inner lock of `threading.Event`, neither of which can be taken twice by a
thread. What `run_once` does is reduced to none, completed, failed or raised. `streak` is
history: the errors of `run_once` since it last returned.
`SelfBlocked` is a handler that waits for a lock of a frame below it.

**OpenApiDiff and ChangeIngestion.** A document is a tree of objects, lists and
scalars; keys and paths are sequences of the segments between slashes, so that
the path of a change is a concatenation, as in the code, and an endpoint key with
slashes is several segments. A token of the classification (`/required`, `/schema`,
...) is found wherever a segment begins with it, which is what a substring test on the
joined path comes to (`BeginsWith`; `Longer` has the segments that begin with a token
without being it). `Plain` maps a value to the one that stands for all that Python
takes for equal to it, `true` and `1` for instance, and two values differ if these do
(`Alike`). `Lowered` has the keys that `.lower()` changes. `WalkTree` is `_walk` as a
set; its order does not matter to any caller. It and the walks over paths and files are
recursive functions. `Values` is any set of documents with all that is inside them
and `Depth` how deeply each is nested. `Nodes`, `Differing`, `Topmost`, `Extends`,
`Keeps`, `WellFormed` and `Operation` say what the documents themselves contain and
use none of the modelled code. A
file is a path, an extension class (`js`; `upper`, supported only after
lower-casing; `other`), whether it imports the vendor, and lines with the paths
they quote and what the regular expressions find in them. A segment of a path a client
sends may contain backslashes: `Pieces` has what it falls into once they have become
slashes, which is after the check for a slash in front, so that a path can come out
absolute. `include_globs` is the set of paths it matches. The variables are what the
client holds between requests.

**RemediationStages.** Texts are sequences of characters, because what
`str.count` and `str.replace` do to overlapping and repeated texts is the point.
`Remediate` takes any plan and either this working copy or a fresh checkout;
`ReadForPatch`, `Truncate` and `WriteBack` are the steps of `apply_patch`. Between
them a process can die (`Crash`), the file cannot be opened (`CannotOpen`), or the
write fails after the file was emptied (`WriteFails`); a write that does not get to its
end leaves a beginning of the text, possibly nothing. The executor turns a failed write
into a `ToolExecutionError`, which ends the attempt. `ToolFails` ends the attempt in the
middle of a plan;
`NoResult` and `Result` are one command of `verify_remediation_job`; `Requeue` and
`Crash` are what `RemediationWorker` does with a failed and with an interrupted
job, and `SandboxRaises` is an error of the sandbox that the workflow does not catch,
which the worker requeues to the first stage. `log`, which says of each write in which
attempt it was and whether it got to its end, `start` and `ran` are history. A text is
what `read_text` gives: a line ending is one character, and a file is cut between
characters.

**Migrations.** One action per statement of `migrate()`. `created` is what an open
transaction made and others cannot see; two transactions that create the same
table or row meet as PostgreSQL makes them meet (`Wait`, `Creates`, `Refuses`):
the second waits for the first to end and then fails or goes on. `IF NOT EXISTS`
helps only against what is visible when the statement starts. `Listing` gives
each process the files of its build in the order `iterdir()` happens to have.

## 3. Runs

States are distinct states found; times are for two workers.

| Run | Bounds | Shows |
|---|---|---|
| `queue` | 2 jobs, tenants, workers; 2 attempts; retry delay 0 or 1 | Owners, leases and worker ids stay consistent (`OwnershipConsistent`); a running row changes owner only by a claim after its lease passed, and no renewal revives a lease (`OwnerChangesOnlyByClaim`); finished rows never change (`CompletedIsFinal`); held rows wait for their tenant's approval (`HeldUntilApproved`); the table implements `LeasedJobs`. |
| `worker_safety` | 2 workers, 1 job, 2 tenants, 3 attempts, 2 failures, a clock that runs at any time; 3.2 million states, 2.5 min | A running row is written, and its lease lengthened, only by the worker it belongs to, in the run of the latest claim, while the lease holds (`WritesFenced`); durable progress goes one stage at a time (`ProgressKept`); no row is verified with results of another patch (`VerifiedPatch`); the audit trail is never behind the table (`AuditCoversTable`); a row keeps the payload of its job and tenant whatever handlers return (`PayloadIdentity`). |
| `worker_live` | default lease 300 s in ticks of 30 s, heartbeat up to 30 s late, 2 failures | No healthy worker's lease lapses during a stage (`LeaseKeptDuringStage`); every job is finished (`JobsFinish`). |
| `api` | 3 requests, 1 job, 2 workers, 3 attempts, 2 failing calls; 75 thousand states | One release, before any claim (`ReleasedOnceBeforeClaimed`); no row without its snapshot and event (`RowsAreAudited`); no event that the table does not bear out, and no gap without a fault (`TrailMatchesRows`). |
| `delivery` | 3 threads of which 2 share an owner, 1 job, 1 repository, 2 bases, 1 failure, endpoint calls and closed pull requests; 671 thousand states, 0.5 min | `BegunOnce`, `OnePullPerJob`, `RecordedPullExists`, `SettledIsFinal`. |
| `delivery_live` | the same threads, 2 repositories, 1 base, 2 failures; 32 thousand states | `OpenedIsRecorded`. |
| `runtime` | 1 signal, 1 caller, 1 probe, 3 runs, backoff 1 to 3; 103 thousand states, 1 min | The backoff is that of the errors since the last success (`BackoffOfStreak`); `OneLateRunAtMost`, `CountersAgree`, `ExitedIsNotAccepting`; a stop ends `run()` unless the handler waits for its own thread (`StopsUnlessSelfBlocked`). |
| `migrations` | 3 processes, an old build with 1 file and two new ones with 4; 2 failures; 12 thousand states | `AppliedOnce`, `WholeBuilds`, `ReturnedMeansMigrated`, `NoCircularWait`, `EventuallyMigrated`. |
| `ingestion` | 1 vendor, 4 repositories, all globs or some, both kinds of patterns; 113 thousand states, 2.5 min | `DiffCoversExactly`, `CallSitesFound`, `ReportIgnoresFileOrder`, `SnapshotStaysInside`, `HeldIfPureExtension`. |
| `stages` | 2 files, 3 checkouts, 9 changes, plans of up to 2, 2 commands, 3 attempts, 2 crashes or failed writes; 1.9 million states, 1 min | `PatchesCompose`, `WholePlanVerified`, `RetryDoesNotRepeat`, `VerifiedMeansPassed`. |

Why the bounds are enough to be of interest: two workers are an owner and a
usurper, three attempts let a job be claimed, lost, reclaimed and requeued, and
two failures let the failure path itself fail. One job suffices where statements
touch one row; `queue` has two for the order of claims. In `delivery`, three
threads with two owners give a displaced owner, a usurper and a second process under the same owner string at
once, and two bases are two rows with one branch. In `migrations`, a circular wait
needs a database that is migrated already and two new files, hence an old build with
one file and new builds with four, listed in different orders. The documents of
`ingestion` have an endpoint with a segment named `Options` and one with
`deprecated-plans`, operations that differ in each thing the classification looks at,
a list whose `true` becomes a `1`, whole path items that come and go, keys that are nested
differently and make the same path, and no paths at all; the repositories have three
names of one file, one of them with a backslash, a file at the root, an upper-case
extension, a path that leaves the root and one that comes out absolute. The changes of
`stages` match once, several times or overlapping, put the old text back, delete, leave
the root, or are not allowed; three attempts allow for a crash or failure inside a
write, a retry on what it left, and a fresh checkout.
`MaxAttempts`, `MaxFaults` and `MaxRuns` are bounds of the model; the code
bounds none of them.

Deadlock is checked in all runs but `runtime` and `signal_stop`, whose process
ends (or blocks itself: see the findings), and `stages`, where a verified job and
one without attempts left stop.

Instances beside the runs: `api` also holds with two jobs, two requests, two
attempts and one failure (5.2 million states), `runtime` with two signals
whose handlers nest and one run (76 thousand states), and `delivery` with two
repositories and one base (4.2 million states).

A renewal that outlives `join(timeout)` in `__exit__` (`remediation_worker.py:57`)
can lengthen the lease after its stage was left, which
`docs/worker-lease-heartbeat.md:7` rules out; `worker_safety` has that behaviour
and shows that it does not break the fencing.

### Disagreements with the documentation

Two runs are expected to fail, each on what a document or docstring says:

* `approval_record`: a held job can be claimed before, or without, its approval
  in the audit trail. `approve_job` releases the row first and records second
  (`api.py:214`); `docs/approval-gate-usage.md:3` asks for the opposite order.
* `signal_stop`: a signal that interrupts `run()` inside a health method makes
  the handler wait for a lock its own thread holds (`worker_service.py:53`,
  `worker_health.py:38`): the worker neither stops nor goes on.

### Limits the models show

Behaviour that the properties leave out on purpose, with the place in the code:

* `remediation_worker.py:62`: each stage's heartbeat waits a whole interval
  before it renews, and a checkpoint does not renew, so up to three stages can
  use the same lease one after the other. `WorkerLeaseKept` proves that this is
  harmless if `3 * (interval + lag)` is at most the lease. The interval is a
  third of the lease, and at most 30 s: from 3 to 90 s the lease leaves no room
  for any lag at all, and a lease of 1 or 2 s is shorter than three intervals. Where the
  condition fails TLC finds a healthy worker that loses its job
  (`LeaseSeconds = 90, TickThirds = 45, HeartbeatLag = 1`, or `LeaseSeconds =
  150, TickThirds = 90, HeartbeatLag = 1`), so the condition is not too strong.
  The run `worker_live` has the default lease.
* `remediation_worker_runtime.py:104`: a stop between the first look at the event
  and `mark_ready` is followed by `accepting_work = True` until the loop ends;
  `ExitedIsNotAccepting` is what remains true.
* `delivery_execution.py:151`: a delivery that died after `begin()` without a
  pull request stays in progress for ever; `OpenedIsRecorded` claims an outcome
  only for an open pull request.
* `github_delivery.py:154`: the only trace of an earlier delivery that `deliver()` looks
  at is the branch. If somebody deletes it after the pull request was closed or merged, a
  delivery under another base, or through the endpoint, opens a second one;
  `OnePullPerJob` is for branches that stay.
* `diff.py:28`: documents are compared with Python's `!=`, which takes `true` for `1` and
  `1` for `1.0`. A change of `exclusiveMaximum` from `true` to `1` is in no report, and
  alone it is answered with 204 and "No API changes detected" (`api.py:128`).
  `DiffCoversExactly` says what the diff does, up to that comparison. JSON has no NaN,
  which differs from itself.
* `diff.py:61`: a change inside an operation whose value has a key named like a
  method in any case (a property `options`) is attributed to its whole path and not to
  its endpoint, against the intention of the docstring (`Misattributed`).
* `diff.py:92` and `diff.py:98`: the tokens are looked for as substrings of the path. An
  addition that sets anything below a key such as `deprecated-plans` to `true` is taken
  for a deprecation and queued without approval, although `orchestrator.py:45` says that
  new features "cannot enter an autonomous remediation workflow". `HeldIfPureExtension`
  excludes the additions of a `true` below a key that begins with `deprecated`; without
  that exception TLC finds the queued job.
* `diff.py:98`: parameter lists are compared as a whole, at a path that ends in
  `/parameters`, which the token `/parameters/` does not match: such a change is
  never breaking. `HeldIfPureExtension` speaks of additions and removals only.
* `blast_radius.py:35`: the default patterns need a slash, so files at the root
  of a repository are not scanned.
* `repository.py:33`: the path is checked for a slash in front before its backslashes
  become slashes (line 35). A path with a backslash in front is accepted, and the path
  in the snapshot is absolute, although the function is there to "reject paths that
  could escape a repository snapshot root" (line 32). `SnapshotStaysInside` speaks of the
  other paths, and says that none of their files is lost to one of these. Paths with a
  NUL in them are not modelled.
* `patch_tool.py:50`: `str.count` counts occurrences that do not overlap, so `aa`
  matches `aaa` once and the patch is applied although it has two places; and a
  patch whose new text contains characters of the old one, or is empty, may match
  again on a retry. `RetryDoesNotRepeat` excludes these.
* `patch_tool.py:55`: a process that dies inside the write, or a write that fails there
  (a character that cannot be encoded, a full disk), leaves the file empty or cut short.
  The attempt ends, but nothing restores the file: a retry on the same working copy
  starts from what is left, and its own patches are all that `WholePlanVerified` and
  `PatchesCompose` speak of. Whether the commands of the verification notice is up to
  them.
* `remediation_worker.py:148`: the worker hands the verification handler a job with the
  status `verified`, and `verification_workflow.py:22` wants `verification-pending`. The
  handlers are injected and no code in the repository connects the two; `RemediationStages`
  assumes an adapter between them.
* `delivery_runtime.py:23`: the pool is made without `dict_row`, so
  `DeliveryAttempt(**dict(row))` (`delivery_idempotency.py:128`) cannot work on its
  rows. `Delivery` models the store over a pool that gives rows as mappings, as its tests do.

## 4. Fairness

* `RemediationWorker!LiveSpec`: weak fairness of each worker's and heartbeat's
  next step (threads are scheduled, calls return or fail, handlers return), of
  detached renewals and of time. `Timely` adds that calls take no time worth
  counting beside a tick, that a due renewal is on its way within
  `HeartbeatLag` ticks, and that an idle worker polls at least once a tick (the
  default poll interval is 1 s, a tick 30 s). No fairness on failures, crashes or
  submissions. Failures are finite in number: `fail()` sets no limit, so a job
  that fails for ever is retried for ever.
* `Delivery!LiveSpec`: what was begun goes on (weak), `execute()` is called again
  and again for each delivery (strong, an assumption about the caller: nothing in the
  repository retries), time passes only between calls, and nobody closes pull requests.
* `WorkerRuntime!LiveSpec`: weak fairness of steps, strong fairness of taking a
  lock that is free infinitely often (contended locks are granted eventually by
  CPython), and none at all of time-outs: `StopsUnlessSelfBlocked` holds although
  no poll interval or backoff ever runs out.
* `Migrations!LiveSpec`: a running call goes on, and a container whose command
  failed is started again (`migrate && uvicorn` in the compose file, restarted by
  its operator; the repository's README calls the command safe to repeat). No
  fairness on failures, nor on starting a process that is done.

## 5. Proofs

**JobQueueProofs**, for any finite set of jobs, any workers, tenants and
payloads, leases of at least one tick and any `MaxAttempts` (the named
assumptions of `JobQueue`). The inductive invariant is
`QueueInv == QueueTypeOK /\ OwnershipConsistent`: that a row is running exactly
when it has a worker and a lease is needed to see that a claim of an expired row
finds it running and that `_update_owned` clears all three. On top of it:
`OwnerChangesOnlyByClaim`, `CompletedIsFinal` and `HeldUntilApproved` as action
properties, and the refinement `QueueImplementsLeasedJobs`: each statement is a
grant, a renewal, a return, a lapse or a stutter of `LeasedJobs`.

**DeliveryProofs**, for any threads, owners (shared or not), jobs, repositories, bases
and number of failures. `BegunOnce`, `OnePullPerJob` and `RecordedPullExists` are
not inductive. `DeliveryInv` adds
that a thread past `free` has a key (`KeysInv`); that `begins` is 1 exactly for
rows that are in progress or settled, and a settled row has no lease, so that
no takeover touches it (`RowsInv`); that a
thread about to open a pull request is the one its head was created by,
and that the head has none yet (`BranchesInv`); and that a result in a thread's
hands or in the table is a pull request of that key (`RemotesInv`,
`ResultsInv`). The heart of the argument is that the branch name depends on the
job alone and GitHub creates a branch once in each repository, so the thread that created it is the
only one ever to reach the pull request call. That GitHub refuses an existing branch,
and that nobody deletes one, are the assumptions about GitHub. Neither the table nor its leases are needed for
one pull request per job, which is why the endpoint that bypasses the table does
no harm.

**JobApiProofs**, for any number of request threads, jobs, workers and failing
calls. Every action of `JobApi` that touches the table is one statement of the
queue (`ApiImplementsQueue`), so `QueueInv`, the action properties and the
refinement carry over. `ApiInv` relates the table to the requests under way: a
create request has its job to itself and has recorded its snapshot and event
before it inserts (`CreatesAreFresh`); how often a job was released and claimed
follows from the status of its row (`HistoryOfRows`); a request about to record
an event has already changed the row (`RecordsFollowRows`). With these
`ReleasedOnceBeforeClaimed`, `RowsAreAudited` and `TrailMatchesRows` are
inductive.

**RemediationWorkerProofs**, for any workers, jobs, tenants, lease and retry
times and any number of failures, with no assumption on time. `WorkerInv` says
what each worker knows (`WorkerOK`): the claimed job has a row and its tenant
(`KnowsJob`); the job, the handler's result and the recorded events at each call
(`KnowsStage`); and, the heart of it, as long as the row is in the worker's name,
the claim is the latest one and the payload is what this worker last wrote
(`KnowsRow`). A statement of another worker cannot touch a row in this one's name
except by a claim that takes it over (`StatementKeepsTable`, `OthersKept`), so
what a worker knows survives every interleaving. `WritesFenced` names the writer of
each step: `WriterSteps` finds the worker whose call wrote a row, `LeaseExtender` the one
whose renewal, attached or late, lengthened a lease, and `KnowsRow` says that its run is
that of the latest claim. `Sound` is the part of
`VerifiedPatch` that goes through the stages. It gives `VerifiedPatch`,
`PayloadIdentity`, `AuditCoversTable`, `WritesFenced`, `ProgressKept` and the
refinements of `QueueSpec` and `LeasedJobs`.

`WorkerLeaseKept` is about `TimelySpec` (section 4) and has one hypothesis,
`3 * (HeartbeatInterval + HeartbeatLag) <= LeaseTicks`. `LeaseInv` bounds what is
left of the lease from below: each of the three stages that take time uses at
most one interval and one lag before it ends or renews, the stage before
verification uses none, and a renewal restores the whole lease.

**WorkerRuntimeProofs**, for any number of signals, callers, probes and runs and
any backoff. `RuntimeInv` says at which calls each actor can be (`PlacesOK`),
what the counters are between the calls that update them (`CountersOK`), that a
run is late only if the stop event is set and that the loop looks at it
before each run (`LateOK`), and where the worker may be accepting (`AcceptingOK`).
Steps of handlers and other threads leave run()'s variables alone (`Aside`).

**MigrationsProofs**, for any number of processes and failures, and any builds
whose files are the numbers from 1 on, the longest of them containing the others
(migrations are added and never removed). `MigrationsInv` says what an open
transaction has created (`TransactionOK`), that no object is created twice
(`CreatedOnce`) and that the files behind a process are recorded where it can see
them (`BehindIsRecorded`). `NoCircularWait` needs no more than that: a process
waits only for an object that comes later, in the order of the statements, than
all it has created, so in any set of processes one that has come furthest waits
for none of the others. This uses the well-foundedness of the natural numbers.

**RemediationStagesProofs**, for any files, texts, plans, commands, attempts and
crashes; the only assumption on the commands is that there is one.
`VerificationInv` says that the results so far are those of the
commands before the next one, all passed, on the working copy as it is.
`CompositionInv` says that what `apply_patch` holds in its hands is what the log
made of the file (`ContentOK`) and that a file is as the log made it unless a write is
under way (`FileOK`): a write that was cut short is in the log with the text it left,
so that later patches compose with that (`WrittenComposes`, `WrittenTexts`). `WholeInv`
counts: the writes of the current attempt are those of the steps of the plan behind it,
all of them whole, since a failed one ends the attempt.

`StagesRetryDoesNotRepeat` and `StagesTypeCorrect` need to know what `str.count`
and `str.replace` do to any text. `Count` is a recursive function; that its
equation has a solution (`TallyHasSolution`) and what a count of 1 says about the
places of a text (`CountSays`) is proved by induction from the end of the text.
The induction is over a set of numbers (`Induction`), which the provers can
instantiate, and not over a predicate. `NothingLeftToMatch` then shows that no
occurrence can lie in, across or beside what was put in, and `TextInv` that every
patch in the log matched the text it was applied to. That the texts of plans and
checkouts are sequences is part of `StagesAssumption`.

**ChangeIngestionProofs**, for any documents, vendors and repositories. The
assumptions are that an object is its keys with their values, which are nested less
deeply, and that values which Python takes for equal are both objects, both lists or
both scalars (`ValuesAssumption`); that the names of methods and the empty segment are
in lower case (`LoweredAssumption`) and `Longer` is about the tokens
(`LongerAssumption`); that ingested documents are objects, the paths of a
repository distinct, and that a segment with backslashes falls into at least two
(`IngestionAssumption`); and that the sequence `PathOrder`, which
stands for the order of strings, has every path in it (`PathOrderAssumption`).

`Recursion` says that an equation whose right-hand side looks only at what ranks
lower has a solution; with depth as the rank it gives the equations of `WalkTree` and
`Nodes` (`WalkOf`, `NodesOf`), and `WalksAlong` those of the walks along a sequence.
What these functions compute is proved by induction over sets of numbers.

* `IngestionDiffCoversExactly`: what is reported of two objects is put together from
  what is reported of their keys (`ReportedFrom`), and so are the topmost places
  where they differ (`ExpectedFrom`); `WalkIsExact` is the induction over depth.
* `IngestionHeldIfPureExtension`: an extension has no removal and no replacement
  (`ExtensionOnlyAdds`). Without a removal every place remains unless an object above it
  was replaced by something else (`NothingRemovedRemains`), and if no replacement breaks
  the contract, then outside the contract or by null (`NothingBrokenKeeps`).
* `IngestionCallSitesFound`: a change inside an operation has a path that begins with
  its endpoint and its method, so that the first method in it, which may be a segment
  of the endpoint, ends an affected endpoint that occurs in the whole one
  (`EndpointShape`, `PartOf`, `ChangedIsAttributed`). That the documents are
  `WellFormed` is part of the property: the service does not validate them.
* `IngestionSnapshotStaysInside`: after each segment of a path, `normpath` holds the
  names that nothing undid so far, or the path has left the root (`Walked`, one lemma
  per kind of segment, put together in `StepsWalked`); a path that starts at the root
  stays there (`FirstStays`, `StepsFromRoot`), so the absolute ones collide with no other
  (`ValidPathIsInside`). After each file, the snapshot holds the last file so far of
  each path that the globs take (`Stored`, `StoresStored`).
* `IngestionReportIgnoresFileOrder`: path and line tell any two call sites apart, so
  their ranks are a strict order (`SitesAreOrdered`), and the position of a call site
  is the number of those before it, however the files are permuted (`HeightKept`).

The inductive invariants are small: an event is the diff of two documents the service
was given (`EventsInv`), the files are the given ones or their snapshot (`FilesInv`),
and a report is about such files and an event the client has (`ReportInv`).

The assumptions are the named ones of the modules. Beside bounds and types they
say that NULL is no worker, number, payload or status (`NullAssumption`,
`PayloadAssumption`, `StageAssumption`), that the main thread is none of the
others (`ActorsAssumption`), and what is quoted above. Each was checked by TLC on
the runs, and each inductive invariant was checked by TLC on a small instance
before it was proved.

Only model-checked are liveness (`JobsFinish`, `OpenedIsRecorded`,
`StopsUnlessSelfBlocked`, `EventuallyMigrated`), which rests on fairness, and
`BackoffOfStreak`, which speaks of powers of two, on which the provers know nothing.
Every other invariant and action property of the passing runs is proved.

The `TypeOK` of `RemediationWorker`, `JobApi`, `Delivery`, `WorkerRuntime`, `Migrations`
and `RemediationStages` is proved (`WorkerTypeCorrect`, `ApiTypeCorrect`,
`DeliveryTypeCorrect`, `RuntimeTypeCorrect`, `MigrationsTypeCorrect`,
`StagesTypeCorrect`) and is not a property of a run.

## 6. Not modelled, and the plan

* Sandbox lifecycle, policy, manifests and isolated workers (`sandbox_*.py`,
  `worker.py`): no code creates or drives them and no backend exists, so there is
  no sequence of calls to be faithful to.
* `delivery.py`, `github_app.py`, the webhook and health endpoints,
  `remediation.py`: functions of their arguments without state or order.
* `llm_provider.py`, `llm_schema.py`: one HTTP request and the shape of its answer;
  a failing or refused answer is a plan that does not compile.
* `*_runtime.py` singletons: created under a lock once; `reset_*` closes a pool
  that others may hold and is called by tests only.
* `repository.py`'s languages, package managers and test commands, and the audit
  listings: read-only, and no other part uses them.
* Regular expressions over file contents, size limits and argument and response
  validation everywhere: they can only end a call early, which the failing calls
  cover.
* `attempts` has no limit in the code; `docs/mvp.md:18` speaks of a retry budget.

What is left to prove: `RecordedPullExists` and `OnePullPerJob` as a refinement of
an abstract delivery.
