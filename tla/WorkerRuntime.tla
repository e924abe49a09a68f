---------------------------- MODULE WorkerRuntime ----------------------------
(***************************************************************************)
(* The long-lived worker process: the loop around run_once                 *)
(* (sentinel/remediation_worker_runtime.py), the health state that         *)
(* readiness probes read (worker_health.py), the counters                  *)
(* (worker_observability.py) and the signal handlers that stop it          *)
(* (worker_service.py).                                                    *)
(*                                                                         *)
(* A signal handler is run by the main thread, between any two of its      *)
(* steps: it is a frame on top of the frame it interrupted, which goes on  *)
(* only when the handler has returned.  Other threads may request the stop *)
(* or read the health as well.  A method that takes a lock is two steps,   *)
(* taking the lock and the rest; the locks are threading.Lock, which the   *)
(* thread that holds one cannot take again.  WorkerMetrics has a lock that *)
(* no signal handler takes, and its methods are single steps.              *)
(***************************************************************************)
EXTENDS Naturals, Sequences

CONSTANTS
  Signals,         \* the SIGTERMs and SIGINTs that may arrive
  Callers,         \* other threads that call request_stop
  Probes,          \* other threads that call WorkerHealth.snapshot
  InitialBackoff,  \* error_backoff_seconds
  MaxBackoff,      \* max_error_backoff_seconds
  MaxRuns,         \* calls of run_once that find a job or fail; others do not
  Main,            \* the frame of run()
  NULL

ASSUME BackoffAssumption ==
  /\ InitialBackoff \in Nat \ {0} /\ MaxBackoff \in Nat
  /\ InitialBackoff <= MaxBackoff
  /\ MaxRuns \in Nat

Stoppers == Signals \cup Callers
Actors == {Main} \cup Stoppers \cup Probes
ASSUME ActorsAssumption == Main \notin Stoppers \cup Probes /\ NULL \notin Actors

VARIABLES
  pc,         \* what each actor is about to do
  frames,     \* the frames of the main thread, the running one last
  lock,       \* who holds the lock of the health state and of the stop event
  stop,       \* the flag of the stop event
  ready, accepting, errors,  \* WorkerHealth
  result,     \* what run_once last returned
  backoff,
  stats,      \* run()'s own counters
  metrics,    \* WorkerMetrics
  runs,       \* how many of the MaxRuns are used up
  late,       \* history: calls of run_once made although stop was set
  streak      \* history: errors of run_once since it last returned

healthVars == <<ready, accepting, errors>>
loopVars == <<result, backoff, stats, metrics, runs, late, streak>>
vars == <<pc, frames, lock, stop, healthVars, loopVars>>

Counters == {"completed", "failed", "errors"}

Init ==
  /\ pc = [a \in Actors |-> IF a = Main THEN "run" ELSE "idle"]
  /\ frames = <<Main>>
  /\ lock = [l \in {"health", "event"} |-> NULL]
  /\ stop = FALSE
  /\ ready = FALSE /\ accepting = FALSE /\ errors = 0
  /\ result = "none"
  /\ backoff = InitialBackoff
  /\ stats = [c \in Counters |-> 0]
  /\ metrics = [c \in Counters \cup {"in_progress"} |-> 0]
  /\ runs = 0
  /\ late = 0
  /\ streak = 0

-----------------------------------------------------------------------------
(* A suspended frame of the main thread does not run.                      *)
Runs(a) == a \in {Main} \cup Signals => a = frames[Len(frames)]

At(a, l) == Runs(a) /\ pc[a] = l
Goto(a, l) == pc' = [pc EXCEPT ![a] = l]

LockOf(l) == IF l \in {"set", "wait", "rewait"} THEN "event" ELSE "health"
Locking == {"mark_ready", "mark_error", "mark_activity", "mark_stopping",
            "snapshot", "set", "wait", "rewait"}

Acquire(a) ==
  /\ Runs(a) /\ pc[a] \in Locking
  /\ lock[LockOf(pc[a])] = NULL
  /\ lock' = [lock EXCEPT ![LockOf(pc[a])] = a]
  /\ UNCHANGED <<pc, frames, stop, healthVars, loopVars>>

(* The rest of a method that runs under a lock ends with its release.      *)
Holding(a, l) ==
  /\ At(a, l)
  /\ lock[LockOf(l)] = a
  /\ lock' = [lock EXCEPT ![LockOf(l)] = NULL]

-----------------------------------------------------------------------------
(* WorkerHealth *)

MarkReady ==
  /\ Holding(Main, "mark_ready")
  /\ ready' = TRUE /\ accepting' = TRUE
  /\ Goto(Main, "loop")
  /\ UNCHANGED <<frames, stop, errors, loopVars>>

MarkRuntimeError ==
  /\ Holding(Main, "mark_error")
  /\ errors' = errors + 1
  /\ Goto(Main, "wait")
  /\ UNCHANGED <<frames, stop, ready, accepting, loopVars>>

(* The time of the last activity is left out.                              *)
MarkActivity ==
  /\ Holding(Main, "mark_activity")
  /\ Goto(Main, "count")
  /\ UNCHANGED <<frames, stop, healthVars, loopVars>>

MarkStopping(a) ==
  /\ Holding(a, "mark_stopping")
  /\ accepting' = FALSE
  /\ Goto(a, IF a = Main THEN "exited" ELSE "set")
  /\ UNCHANGED <<frames, stop, ready, errors, loopVars>>

Snapshot(a) ==
  /\ Holding(a, "snapshot")
  /\ Goto(a, "done")
  /\ UNCHANGED <<frames, stop, healthVars, loopVars>>

-----------------------------------------------------------------------------
(* request_stop, from another thread or in a signal handler *)

RequestStop(a) ==
  /\ a \in Callers /\ pc[a] = "idle"
  /\ Goto(a, "mark_stopping")
  /\ UNCHANGED <<frames, lock, stop, healthVars, loopVars>>

SignalArrives(a) ==
  /\ a \in Signals /\ pc[a] = "idle"
  /\ pc[Main] # "exited"
  /\ frames' = Append(frames, a)
  /\ Goto(a, "mark_stopping")
  /\ UNCHANGED <<lock, stop, healthVars, loopVars>>

Probe(a) ==
  /\ a \in Probes /\ pc[a] = "idle"
  /\ Goto(a, "snapshot")
  /\ UNCHANGED <<frames, lock, stop, healthVars, loopVars>>

(* The event is set, and the frame that was interrupted goes on.           *)
SetStopNever(a) ==
  /\ Holding(a, "set")
  /\ frames' = IF a \in Signals THEN SubSeq(frames, 1, Len(frames) - 1)
               ELSE frames
  /\ Goto(a, "done")
  /\ UNCHANGED <<stop, healthVars, loopVars>>
SetStop(a) ==
  /\ Holding(a, "set")
  /\ stop' = TRUE
  /\ frames' = IF a \in Signals THEN SubSeq(frames, 1, Len(frames) - 1)
               ELSE frames
  /\ Goto(a, "done")
  /\ UNCHANGED <<healthVars, loopVars>>

-----------------------------------------------------------------------------
(* run *)

Enter ==
  /\ At(Main, "run")
  /\ Goto(Main, IF stop THEN "exited" ELSE "mark_ready")
  /\ UNCHANGED <<frames, lock, stop, healthVars, loopVars>>

LoopIgnoringStop ==
  /\ At(Main, "loop")
  /\ Goto(Main, "run_once")
  /\ UNCHANGED <<frames, lock, stop, healthVars, loopVars>>
LoopWithoutFinally ==
  /\ At(Main, "loop")
  /\ Goto(Main, IF stop THEN "exited" ELSE "run_once")
  /\ UNCHANGED <<frames, lock, stop, healthVars, loopVars>>
Loop ==
  /\ At(Main, "loop")
  /\ Goto(Main, IF stop THEN "mark_stopping" ELSE "run_once")
  /\ UNCHANGED <<frames, lock, stop, healthVars, loopVars>>

RunOnce ==
  /\ At(Main, "run_once")
  /\ late' = IF stop THEN late + 1 ELSE late
  /\ Goto(Main, "running")
  /\ UNCHANGED <<frames, lock, stop, healthVars, result, backoff, stats,
                 metrics, runs, streak>>

Count(c, f) == [c EXCEPT ![f] = @ + 1]

(* run_once found no job.                                                  *)
ReturnsNone ==
  /\ At(Main, "running")
  /\ result' = "none"
  /\ backoff' = InitialBackoff
  /\ streak' = 0
  /\ Goto(Main, "wait")
  /\ UNCHANGED <<frames, lock, stop, healthVars, stats, metrics, runs, late>>

(* It completed a job or failed one; only now does job_started count it.   *)
ReturnsJobKeepingBackoff ==
  /\ At(Main, "running") /\ runs < MaxRuns
  /\ runs' = runs + 1
  /\ result' \in {"completed", "failed"}
  /\ streak' = 0
  /\ metrics' = Count(metrics, "in_progress")
  /\ Goto(Main, "mark_activity")
  /\ UNCHANGED <<frames, lock, stop, healthVars, backoff, stats, late>>
ReturnsJob ==
  /\ At(Main, "running") /\ runs < MaxRuns
  /\ runs' = runs + 1
  /\ result' \in {"completed", "failed"}
  /\ backoff' = InitialBackoff
  /\ streak' = 0
  /\ metrics' = Count(metrics, "in_progress")
  /\ Goto(Main, "mark_activity")
  /\ UNCHANGED <<frames, lock, stop, healthVars, stats, late>>

CountJob ==
  /\ At(Main, "count")
  /\ stats' = Count(stats, result)
  /\ metrics' = [Count(metrics, result) EXCEPT
                   !["in_progress"] = IF @ > 0 THEN @ - 1 ELSE 0]
  /\ Goto(Main, "loop")
  /\ UNCHANGED <<frames, lock, stop, healthVars, result, backoff, runs, late,
                 streak>>

(* It raised RemediationWorkerError.                                       *)
RaisesUncounted ==
  /\ At(Main, "running") /\ runs < MaxRuns
  /\ runs' = runs + 1
  /\ result' = "errors"
  /\ stats' = Count(stats, "errors")
  /\ streak' = streak + 1
  /\ Goto(Main, "mark_error")
  /\ UNCHANGED <<frames, lock, stop, healthVars, backoff, metrics, late>>
Raises ==
  /\ At(Main, "running") /\ runs < MaxRuns
  /\ runs' = runs + 1
  /\ result' = "errors"
  /\ stats' = Count(stats, "errors")
  /\ streak' = streak + 1
  /\ metrics' = Count(metrics, "errors")
  /\ Goto(Main, "mark_error")
  /\ UNCHANGED <<frames, lock, stop, healthVars, backoff, late>>

(* It raised anything else, as for a claimed row whose payload does not    *)
(* validate; that leaves run() through its finally.                        *)
RaisesOther ==
  /\ At(Main, "running") /\ runs < MaxRuns
  /\ runs' = runs + 1
  /\ Goto(Main, "mark_stopping")
  /\ UNCHANGED <<frames, lock, stop, healthVars, result, backoff, stats,
                 metrics, late, streak>>

(* Event.wait: the flag is looked at under the lock, which is given up for *)
(* the sleep and taken again after it.                                     *)
WaitBegins ==
  /\ Holding(Main, "wait")
  /\ Goto(Main, IF stop THEN "waited" ELSE "asleep")
  /\ UNCHANGED <<frames, stop, healthVars, loopVars>>
Wakes ==
  /\ At(Main, "asleep") /\ stop
  /\ Goto(Main, "rewait")
  /\ UNCHANGED <<frames, lock, stop, healthVars, loopVars>>
TimesOut ==
  /\ At(Main, "asleep") /\ ~stop
  /\ Goto(Main, "rewait")
  /\ UNCHANGED <<frames, lock, stop, healthVars, loopVars>>
WaitEnds ==
  /\ Holding(Main, "rewait")
  /\ Goto(Main, "waited")
  /\ UNCHANGED <<frames, stop, healthVars, loopVars>>

(* After an error the next backoff is twice as long, up to the maximum.    *)
Doubled(b) == IF 2 * b < MaxBackoff THEN 2 * b ELSE MaxBackoff
Waited ==
  /\ At(Main, "waited")
  /\ backoff' = IF result = "errors" THEN Doubled(backoff) ELSE backoff
  /\ Goto(Main, "loop")
  /\ UNCHANGED <<frames, lock, stop, healthVars, result, stats, metrics, runs,
                 late, streak>>

-----------------------------------------------------------------------------
(* The steps that a running actor goes on with by itself.                  *)
MainStep ==
  \/ Enter \/ Loop \/ RunOnce \/ ReturnsNone \/ ReturnsJob \/ CountJob
  \/ Raises \/ RaisesOther \/ WaitBegins \/ Wakes \/ WaitEnds \/ Waited
  \/ MarkReady \/ MarkRuntimeError \/ MarkActivity
Step(a) ==
  \/ Acquire(a) \/ MarkStopping(a) \/ SetStop(a) \/ Snapshot(a)
  \/ a = Main /\ MainStep

Next ==
  \/ \E a \in Actors : Step(a)
  \/ TimesOut
  \/ \E a \in Actors : RequestStop(a) \/ SignalArrives(a) \/ Probe(a)

Spec == Init /\ [][Next]_vars

(* Threads run, run_once returns, and a thread that waits for a lock gets  *)
(* it if the lock is free again and again; nothing is assumed of timeouts. *)
LiveSpec ==
  /\ Spec
  /\ \A a \in Actors : WF_vars(Step(a)) /\ SF_vars(Acquire(a))

-----------------------------------------------------------------------------
Labels == Locking \cup {"run", "loop", "run_once", "running", "count",
                        "asleep", "waited", "exited", "idle", "done"}

(* Every variable holds a value of its type; the backoff stays between the *)
(* two configured values.                                                  *)
TypeOK ==
  /\ pc \in [Actors -> Labels]
  /\ \A i \in 1 .. Len(frames) : frames[i] \in {Main} \cup Signals
  /\ \A l \in {"health", "event"} : lock[l] \in Actors \cup {NULL}
  /\ stop \in BOOLEAN /\ ready \in BOOLEAN /\ accepting \in BOOLEAN
  /\ result \in {"none", "completed", "failed", "errors"}
  /\ backoff \in InitialBackoff .. MaxBackoff
  /\ errors \in 0 .. MaxRuns /\ runs \in 0 .. MaxRuns /\ late \in Nat
  /\ streak \in Nat

(* Once the stop event is set, the worker claims at most one more job: the *)
(* call of run_once whose loop condition was already evaluated.            *)
OneLateRunAtMost == late <= 1

(* The wait after the n-th error in a row is the initial backoff doubled   *)
(* n - 1 times, at most the maximum: the first error after any call that   *)
(* returned, with or without a job, starts over.                           *)
BackoffOfStreak ==
  pc[Main] \in {"wait", "asleep"} /\ result = "errors" =>
    LET delay == InitialBackoff * 2 ^ (streak - 1)
    IN  backoff = IF delay < MaxBackoff THEN delay ELSE MaxBackoff

(* The three places that count what happened agree whenever the loop comes *)
(* round, and no job is left out of any of them.                           *)
CountersAgree ==
  pc[Main] = "loop" =>
    /\ \A c \in Counters : metrics[c] = stats[c]
    /\ metrics["in_progress"] = 0
    /\ errors = stats["errors"]
    /\ stats["completed"] + stats["failed"] + stats["errors"] = runs

(* Whoever requests a stop, and whatever run() is doing, the process ends; *)
(* it does not depend on a poll interval or backoff running out            *)
(* (docs/worker-runtime.md, "an idle worker does not need to wait for the  *)
(* full polling interval before exiting").                                 *)
StopsWhenRequested ==
  \A a \in Stoppers : pc[a] # "idle" ~> pc[Main] = "exited"

(* A signal handler that waits for a lock which a frame below it holds.    *)
SelfBlocked(a) ==
  /\ a \in Signals /\ pc[a] \in Locking
  /\ \E i \in 1 .. Len(frames) - 1 :
       frames[i] # a /\ lock[LockOf(pc[a])] = frames[i]

(* That is the only way for a stop to be lost: whatever threads, handlers  *)
(* and probes do, a requested stop ends run(), without a poll interval or  *)
(* backoff running out, unless a handler is stuck on its own thread.       *)
StopsUnlessSelfBlocked ==
  \A a \in Stoppers :
    pc[a] # "idle" ~> (pc[Main] = "exited" \/ \E s \in Signals : SelfBlocked(s))

(* A stop requested between the first look at the stop event and           *)
(* mark_ready is overwritten in the health state; but run() never leaves   *)
(* the worker accepting work when it ends, by return or by exception.      *)
ExitedIsNotAccepting == pc[Main] = "exited" => ~accepting
=============================================================================
