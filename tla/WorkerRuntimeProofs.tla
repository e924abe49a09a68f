------------------------ MODULE WorkerRuntimeProofs ------------------------
(***************************************************************************)
(* Proofs about the worker process, for any number of signals, threads     *)
(* that request a stop and probes, any backoff and any number of runs.     *)
(***************************************************************************)
EXTENDS WorkerRuntime, TLAPS

CounterTypes ==
  /\ stats \in [Counters -> Nat]
  /\ metrics \in [Counters \cup {"in_progress"} -> Nat]

SystemTypes ==
  /\ lock \in [{"health", "event"} -> Actors \cup {NULL}]
  /\ frames \in Seq({Main} \cup Signals)

(* Only run() is at the calls of run(), and only the others are at theirs. *)
PlacesOK ==
  /\ pc[Main] \in Labels \ {"idle", "set", "snapshot", "done"}
  /\ \A a \in Stoppers \cup Probes :
       pc[a] \in {"idle", "mark_stopping", "set", "snapshot", "done"}

(* A run was late because stop was set, and the loop looks at stop before  *)
(* each run.                                                               *)
LateOK ==
  /\ late \in {0, 1}
  /\ late = 1 => stop
  /\ pc[Main] = "run_once" => late = 0

(* The counters where run() is between them, and everywhere else until it  *)
(* is about to end.                                                        *)
Sum == stats["completed"] + stats["failed"] + stats["errors"]
Ending == {"mark_stopping", "exited"}
CountersOK ==
  /\ errors <= runs
  /\ pc[Main] \notin Ending =>
       /\ \A c \in Counters : metrics[c] = stats[c]
       /\ IF pc[Main] \in {"mark_activity", "count"}
          THEN /\ result \in {"completed", "failed"}
               /\ metrics["in_progress"] = 1 /\ Sum + 1 = runs
          ELSE metrics["in_progress"] = 0 /\ Sum = runs
       /\ IF pc[Main] = "mark_error" THEN errors + 1 = stats["errors"]
          ELSE errors = stats["errors"]

(* The worker accepts work only between mark_ready and mark_stopping.      *)
AcceptingOK == pc[Main] \in {"run", "mark_ready", "exited"} => ~accepting

(* The inductive invariant.                                                *)
RuntimeInv ==
  /\ TypeOK /\ CounterTypes /\ SystemTypes
  /\ PlacesOK /\ LateOK /\ CountersOK /\ AcceptingOK

-----------------------------------------------------------------------------
(* What has just been started satisfies the invariant.                     *)
LEMMA RuntimeInitInv == Init => RuntimeInv
  <1> SUFFICES ASSUME Init PROVE RuntimeInv
    OBVIOUS
  <1> USE ActorsAssumption, BackoffAssumption DEF Init
  <1>1. pc \in [Actors -> Labels] /\ pc[Main] = "run"
    BY DEF Actors, Labels
  <1>2. frames = <<Main>> /\ frames \in Seq({Main} \cup Signals)
    OBVIOUS
  <1>3. SystemTypes /\ CounterTypes
    BY <1>2 DEF SystemTypes, CounterTypes
  <1>4. TypeOK
    <2>1. \A i \in 1 .. Len(frames) : frames[i] \in {Main} \cup Signals
      BY <1>2
    <2>2. /\ backoff \in InitialBackoff .. MaxBackoff
          /\ errors \in 0 .. MaxRuns /\ runs \in 0 .. MaxRuns /\ late \in Nat
          /\ streak \in Nat
      OBVIOUS
    <2>3. \A l \in {"health", "event"} : lock[l] \in Actors \cup {NULL}
      OBVIOUS
    <2>4. QED
      BY <1>1, <2>1, <2>2, <2>3 DEF TypeOK
  <1>5. PlacesOK
    BY <1>1 DEF PlacesOK, Labels, Actors, Stoppers
  <1>6. LateOK /\ AcceptingOK
    BY <1>1 DEF LateOK, AcceptingOK
  <1>7. CountersOK
    BY <1>1 DEF CountersOK, Counters, Sum
  <1>8. QED
    BY <1>3, <1>4, <1>5, <1>6, <1>7 DEF RuntimeInv

(* A step of run() itself, with the label it goes to.                      *)
MainLabels == Labels \ {"idle", "set", "snapshot", "done"}

LEMMA MainGoes ==
  ASSUME RuntimeInv, NEW l \in MainLabels, Goto(Main, l)
  PROVE  pc' \in [Actors -> Labels] /\ PlacesOK' /\ pc'[Main] = l
  <1>1. pc \in [Actors -> Labels] /\ Main \in Actors /\ Main \notin Stoppers \cup Probes
    BY ActorsAssumption DEF RuntimeInv, TypeOK, Actors
  <1>2. pc' \in [Actors -> Labels] /\ pc'[Main] = l
    BY <1>1 DEF Goto, MainLabels
  <1>3. \A a \in Stoppers \cup Probes : pc'[a] = pc[a]
    BY <1>1 DEF Goto, Actors
  <1>4. PlacesOK'
    BY <1>2, <1>3 DEF RuntimeInv, PlacesOK, MainLabels
  <1>5. QED
    BY <1>2, <1>4

(* A step of a handler, of another thread or for a lock: run() stays where *)
(* it is, its variables do not change, and the worker is not made ready.   *)
Aside ==
  /\ pc' \in [Actors -> Labels] /\ PlacesOK' /\ pc'[Main] = pc[Main]
  /\ stop' \in BOOLEAN /\ (stop => stop')
  /\ accepting' \in {accepting, FALSE}
  /\ UNCHANGED <<ready, errors, loopVars>>

LEMMA OtherGoes ==
  ASSUME RuntimeInv, NEW a \in Stoppers \cup Probes,
         NEW l \in {"mark_stopping", "set", "snapshot", "done"}, Goto(a, l)
  PROVE  pc' \in [Actors -> Labels] /\ PlacesOK' /\ pc'[Main] = pc[Main]
  <1>1. pc \in [Actors -> Labels] /\ a \in Actors /\ Main \in Actors /\ a # Main
    BY ActorsAssumption DEF RuntimeInv, TypeOK, Actors
  <1>2. l \in Labels
    BY DEF Labels, Locking
  <1>3. pc' \in [Actors -> Labels] /\ pc'[Main] = pc[Main] /\ pc'[a] = l
    BY <1>1, <1>2 DEF Goto
  <1>4. \A b \in (Stoppers \cup Probes) \ {a} : pc'[b] = pc[b]
    BY <1>1 DEF Goto, Actors
  <1>5. PlacesOK'
    BY <1>3, <1>4 DEF RuntimeInv, PlacesOK
  <1>6. QED
    BY <1>3, <1>5

LEMMA AsideSteps ==
  ASSUME RuntimeInv, NEW a \in Actors,
         \/ Acquire(a) \/ (a # Main /\ MarkStopping(a)) \/ SetStop(a) \/ Snapshot(a)
         \/ RequestStop(a) \/ SignalArrives(a) \/ Probe(a)
  PROVE  Aside
  <1>1. stop \in BOOLEAN /\ pc \in [Actors -> Labels] /\ PlacesOK
    BY DEF RuntimeInv, TypeOK
  <1>2. CASE Acquire(a)
    BY <1>1, <1>2 DEF Acquire, Aside, PlacesOK, healthVars
  <1>3. a # Main => a \in Stoppers \cup Probes
    BY DEF Actors
  <1>4. pc[Main] \notin {"set", "snapshot"}
    BY <1>1 DEF PlacesOK
  <1>5. CASE a # Main /\ MarkStopping(a)
    <2>1. Goto(a, "set")
      BY <1>5 DEF MarkStopping
    <2>2. QED
      BY <1>1, <1>3, <1>5, <2>1, OtherGoes DEF MarkStopping, Aside
  <1>6. CASE SetStop(a)
    <2>1. a # Main /\ Goto(a, "done")
      BY <1>4, <1>6 DEF SetStop, Holding, At
    <2>2. stop' = TRUE /\ UNCHANGED <<healthVars, loopVars>>
      BY <1>6 DEF SetStop
    <2>3. QED
      BY <1>3, <2>1, <2>2, OtherGoes DEF Aside, healthVars
  <1>7. CASE Snapshot(a)
    <2>1. a # Main /\ Goto(a, "done") /\ UNCHANGED <<stop, healthVars, loopVars>>
      BY <1>4, <1>7 DEF Snapshot, Holding, At
    <2>2. QED
      BY <1>1, <1>3, <2>1, OtherGoes DEF Aside, healthVars
  <1>8. CASE RequestStop(a) \/ SignalArrives(a) \/ Probe(a)
    <2>1. a \in Stoppers \cup Probes
      BY <1>8 DEF RequestStop, SignalArrives, Probe, Stoppers
    <2>2. Goto(a, "mark_stopping") \/ Goto(a, "snapshot")
      BY <1>8 DEF RequestStop, SignalArrives, Probe
    <2>3. UNCHANGED <<stop, healthVars, loopVars>>
      BY <1>8 DEF RequestStop, SignalArrives, Probe
    <2>4. QED
      BY <1>1, <2>1, <2>2, <2>3, OtherGoes DEF Aside, healthVars
  <1>9. QED
    BY <1>2, <1>5, <1>6, <1>7, <1>8

(* The locks and the frames.                                               *)
LEMMA SystemStep ==
  ASSUME RuntimeInv, [Next]_vars
  PROVE  SystemTypes'
  <1>1. /\ lock \in [{"health", "event"} -> Actors \cup {NULL}]
        /\ frames \in Seq({Main} \cup Signals) /\ Main \in Actors
    BY DEF RuntimeInv, SystemTypes, Actors
  <1>2. \A l : LockOf(l) \in {"health", "event"}
    BY DEF LockOf
  <1>3. ASSUME NEW a, NEW l, Holding(a, l)
        PROVE  lock' \in [{"health", "event"} -> Actors \cup {NULL}]
    BY <1>1, <1>2, <1>3 DEF Holding
  <1>4. ASSUME NEW a \in Actors, Acquire(a)
        PROVE  SystemTypes'
    BY <1>1, <1>2, <1>4 DEF Acquire, SystemTypes
  <1>5. ASSUME NEW a \in Actors, SignalArrives(a)
        PROVE  SystemTypes'
    <2>1. Append(frames, a) \in Seq({Main} \cup Signals)
      BY <1>1, <1>5 DEF SignalArrives
    <2>2. QED
      BY <1>1, <1>5, <2>1 DEF SignalArrives, SystemTypes
  <1>6. ASSUME NEW a \in Actors, SetStop(a)
        PROVE  SystemTypes'
    <2>1. SubSeq(frames, 1, Len(frames) - 1) \in Seq({Main} \cup Signals)
      BY <1>1
    <2>2. QED
      BY <1>1, <1>3, <1>6, <2>1 DEF SetStop, SystemTypes
  <1>7. ASSUME NEW a \in Actors, \/ MarkStopping(a) \/ Snapshot(a)
                                 \/ RequestStop(a) \/ Probe(a)
        PROVE  SystemTypes'
    BY <1>1, <1>3, <1>7 DEF MarkStopping, Snapshot, RequestStop, Probe, SystemTypes
  <1>8. ASSUME \/ MarkReady \/ MarkRuntimeError \/ MarkActivity \/ WaitBegins
               \/ WaitEnds
        PROVE  SystemTypes'
    BY <1>1, <1>3, <1>8
       DEF MarkReady, MarkRuntimeError, MarkActivity, WaitBegins, WaitEnds, SystemTypes
  <1>9. ASSUME \/ Enter \/ Loop \/ RunOnce \/ ReturnsNone \/ ReturnsJob \/ CountJob
               \/ Raises \/ RaisesOther \/ Wakes \/ TimesOut \/ Waited
               \/ UNCHANGED vars
        PROVE  SystemTypes'
    BY <1>1, <1>9
       DEF Enter, Loop, RunOnce, ReturnsNone, ReturnsJob, CountJob, Raises,
           RaisesOther, Wakes, TimesOut, Waited, vars, SystemTypes
  <1>10. QED
    BY <1>4, <1>5, <1>6, <1>7, <1>8, <1>9 DEF Next, Step, MainStep

(* What a step of run() has to be shown to keep, and what it may rely on.  *)
FlagTypes == stop \in BOOLEAN /\ ready \in BOOLEAN /\ accepting \in BOOLEAN
LoopTypes ==
  /\ streak \in Nat
  /\ result \in {"none", "completed", "failed", "errors"}
  /\ backoff \in InitialBackoff .. MaxBackoff
  /\ errors \in Nat /\ runs \in 0 .. MaxRuns
  /\ CounterTypes
Good ==
  /\ pc \in [Actors -> Labels] /\ PlacesOK
  /\ FlagTypes /\ LoopTypes
  /\ LateOK /\ CountersOK /\ AcceptingOK

LEMMA InvIsGood == RuntimeInv => Good
  <1> SUFFICES ASSUME RuntimeInv PROVE Good
    OBVIOUS
  <1>1. TypeOK /\ CounterTypes /\ PlacesOK /\ LateOK /\ CountersOK /\ AcceptingOK
    BY DEF RuntimeInv
  <1>2. FlagTypes
    BY <1>1 DEF TypeOK, FlagTypes
  <1>3. LoopTypes
    BY <1>1, BackoffAssumption DEF TypeOK, LoopTypes
  <1>4. QED
    BY <1>1, <1>2, <1>3 DEF Good, TypeOK

LEMMA GoodIsInv == Good /\ SystemTypes => RuntimeInv
  <1> SUFFICES ASSUME Good, SystemTypes PROVE RuntimeInv
    OBVIOUS
  <1>1. errors \in 0 .. MaxRuns /\ runs \in 0 .. MaxRuns /\ late \in Nat
    BY BackoffAssumption DEF Good, LoopTypes, CountersOK, LateOK
  <1>2. /\ \A i \in 1 .. Len(frames) : frames[i] \in {Main} \cup Signals
        /\ \A l \in {"health", "event"} : lock[l] \in Actors \cup {NULL}
    BY DEF SystemTypes
  <1>3. TypeOK
    BY <1>1, <1>2 DEF Good, FlagTypes, LoopTypes, TypeOK
  <1>4. QED
    BY <1>3 DEF Good, LoopTypes, RuntimeInv

LEMMA AsideKeeps ==
  ASSUME RuntimeInv, Aside
  PROVE  Good'
  <1>1. Good
    BY InvIsGood
  <1>2. /\ pc' \in [Actors -> Labels] /\ PlacesOK' /\ pc'[Main] = pc[Main]
        /\ stop' \in BOOLEAN /\ (stop => stop') /\ accepting' \in {accepting, FALSE}
        /\ UNCHANGED <<ready, errors, result, backoff, stats, metrics, runs, late, streak>>
    BY DEF Aside, loopVars
  <1>3. FlagTypes' /\ LoopTypes'
    BY <1>1, <1>2 DEF Good, FlagTypes, LoopTypes, CounterTypes
  <1>4. LateOK'
    BY <1>1, <1>2 DEF Good, LateOK
  <1>5. CountersOK'
    BY <1>1, <1>2 DEF Good, CountersOK, Sum
  <1>6. AcceptingOK'
    BY <1>1, <1>2 DEF Good, AcceptingOK
  <1>7. QED
    BY <1>2, <1>3, <1>4, <1>5, <1>6 DEF Good

(* Steps of run() that only go on to another label, or set the flags.      *)
Moves(from, to) ==
  \/ from = "run" /\ to \in {"mark_ready", "exited"}
  \/ from = "mark_ready" /\ to = "loop"
  \/ from = "loop" /\ (to = "mark_stopping" \/ (to = "run_once" /\ ~stop))
  \/ from = "mark_activity" /\ to = "count"
  \/ from = "mark_stopping" /\ to = "exited"
  \/ from \in {"wait", "asleep", "rewait"} /\ to \in {"asleep", "rewait", "waited"}

LEMMA ControlKeeps ==
  ASSUME RuntimeInv,
         \/ MarkReady \/ MarkActivity \/ MarkStopping(Main) \/ Enter \/ Loop
         \/ WaitBegins \/ Wakes \/ TimesOut \/ WaitEnds
  PROVE  Good'
  <1>1. Good
    BY InvIsGood
  <1> DEFINE q == pc[Main]
  <1>2. PICK l \in MainLabels : Goto(Main, l) /\ Moves(q, l)
    <2>1. {"mark_ready", "exited", "loop", "mark_stopping", "run_once", "count",
           "asleep", "rewait", "waited"} \subseteq MainLabels
      BY DEF MainLabels, Labels, Locking
    <2>2. CASE Enter \/ MarkReady \/ MarkActivity \/ MarkStopping(Main)
      BY <2>1, <2>2 DEF Enter, MarkReady, MarkActivity, MarkStopping, Holding, At, Moves
    <2>3. CASE Loop
      BY <2>1, <2>3 DEF Loop, At, Moves
    <2>4. CASE WaitBegins \/ Wakes \/ TimesOut \/ WaitEnds
      BY <2>1, <2>4 DEF WaitBegins, Wakes, TimesOut, WaitEnds, Holding, At, Moves
    <2>5. QED
      BY <2>2, <2>3, <2>4
  <1>3. /\ UNCHANGED <<stop, errors, result, backoff, stats, metrics, runs, late, streak>>
        /\ ready' \in {ready, TRUE}
        /\ accepting' \in {accepting, TRUE, FALSE}
        /\ q \in {"run", "loop"} => accepting' = accepting
        /\ q = "mark_stopping" => accepting' = FALSE
    BY DEF MarkReady, MarkActivity, MarkStopping, Enter, Loop, WaitBegins, Wakes,
           TimesOut, WaitEnds, Holding, At, healthVars, loopVars
  <1>4. pc' \in [Actors -> Labels] /\ PlacesOK' /\ pc'[Main] = l
    BY <1>2, MainGoes
  <1>5. FlagTypes' /\ LoopTypes'
    BY <1>1, <1>3 DEF Good, FlagTypes, LoopTypes, CounterTypes
  <1>6. LateOK'
    BY <1>1, <1>2, <1>3, <1>4 DEF Good, LateOK, FlagTypes, Moves
  <1>7. CountersOK'
    BY <1>1, <1>2, <1>3, <1>4 DEF Good, CountersOK, Sum, Ending, Moves
  <1>8. AcceptingOK'
    BY <1>1, <1>2, <1>3, <1>4 DEF Good, AcceptingOK, Moves
  <1>9. QED
    BY <1>4, <1>5, <1>6, <1>7, <1>8 DEF Good

(* Steps of run() that count, back off, or call run_once.                  *)
LEMMA CountKeeps ==
  ASSUME NEW c \in [Counters \cup {"in_progress"} -> Nat],
         NEW f \in Counters \cup {"in_progress"}
  PROVE  /\ Count(c, f) \in [Counters \cup {"in_progress"} -> Nat]
         /\ Count(c, f)[f] = c[f] + 1
         /\ \A g \in (Counters \cup {"in_progress"}) \ {f} : Count(c, f)[g] = c[g]
  BY DEF Count

LEMMA StatsCount ==
  ASSUME NEW c \in [Counters -> Nat], NEW f \in Counters
  PROVE  /\ Count(c, f) \in [Counters -> Nat]
         /\ Count(c, f)[f] = c[f] + 1
         /\ \A g \in Counters \ {f} : Count(c, f)[g] = c[g]
  BY DEF Count

LEMMA RunOnceKeeps ==
  ASSUME RuntimeInv, RunOnce
  PROVE  Good'
  <1>1. Good /\ pc[Main] = "run_once"
    BY InvIsGood DEF RunOnce, At
  <1>2. /\ late' = IF stop THEN late + 1 ELSE late
        /\ UNCHANGED <<stop, healthVars, result, backoff, stats, metrics, runs, streak>>
    BY DEF RunOnce
  <1>3. pc' \in [Actors -> Labels] /\ PlacesOK' /\ pc'[Main] = "running"
    BY MainGoes DEF RunOnce, MainLabels, Labels, Locking
  <1>4. FlagTypes' /\ LoopTypes'
    BY <1>1, <1>2 DEF Good, FlagTypes, LoopTypes, CounterTypes, healthVars
  <1>5. LateOK'
    BY <1>1, <1>2, <1>3 DEF Good, LateOK, FlagTypes
  <1>6. CountersOK'
    BY <1>1, <1>2, <1>3 DEF Good, CountersOK, Sum, Ending, healthVars
  <1>7. AcceptingOK'
    BY <1>3 DEF AcceptingOK
  <1>8. QED
    BY <1>3, <1>4, <1>5, <1>6, <1>7 DEF Good

LEMMA QuietKeeps ==
  ASSUME RuntimeInv, ReturnsNone \/ Waited
  PROVE  Good'
  <1>1. Good /\ pc[Main] \in {"running", "waited"}
    BY InvIsGood DEF ReturnsNone, Waited, At
  <1>2. /\ UNCHANGED <<stop, healthVars, stats, metrics, runs, late>>
        /\ result' \in {result, "none"} /\ streak' \in {streak, 0}
    BY DEF ReturnsNone, Waited
  <1>3. backoff' \in InitialBackoff .. MaxBackoff
    <2>1. backoff' \in {InitialBackoff, backoff, Doubled(backoff)}
      BY DEF ReturnsNone, Waited
    <2>2. Doubled(backoff) \in InitialBackoff .. MaxBackoff
      BY <1>1, BackoffAssumption DEF Doubled, Good, LoopTypes
    <2>3. QED
      BY <1>1, <2>1, <2>2, BackoffAssumption DEF Good, LoopTypes
  <1>4. PICK l \in {"wait", "loop"} : Goto(Main, l)
    BY DEF ReturnsNone, Waited
  <1>5. pc' \in [Actors -> Labels] /\ PlacesOK' /\ pc'[Main] = l
    BY <1>4, MainGoes DEF MainLabels, Labels, Locking
  <1>6. FlagTypes' /\ LoopTypes'
    BY <1>1, <1>2, <1>3 DEF Good, FlagTypes, LoopTypes, CounterTypes, healthVars
  <1>7. LateOK' /\ AcceptingOK'
    BY <1>1, <1>2, <1>5 DEF Good, LateOK, AcceptingOK
  <1>8. CountersOK'
    BY <1>1, <1>2, <1>5 DEF Good, CountersOK, Sum, Ending, healthVars
  <1>9. QED
    BY <1>5, <1>6, <1>7, <1>8 DEF Good

LEMMA ReturnsJobKeeps ==
  ASSUME RuntimeInv, ReturnsJob
  PROVE  Good'
  <1>1. Good /\ pc[Main] = "running"
    BY InvIsGood DEF ReturnsJob, At
  <1>2. /\ runs < MaxRuns /\ runs' = runs + 1
        /\ result' \in {"completed", "failed"} /\ backoff' = InitialBackoff
        /\ streak' = 0
        /\ metrics' = Count(metrics, "in_progress")
        /\ UNCHANGED <<stop, healthVars, stats, late>>
    BY DEF ReturnsJob
  <1>3. pc' \in [Actors -> Labels] /\ PlacesOK' /\ pc'[Main] = "mark_activity"
    BY MainGoes DEF ReturnsJob, MainLabels, Labels, Locking
  <1>4. /\ metrics' \in [Counters \cup {"in_progress"} -> Nat]
        /\ metrics'["in_progress"] = metrics["in_progress"] + 1
        /\ \A c \in Counters : metrics'[c] = metrics[c]
    BY <1>1, <1>2, CountKeeps DEF Good, LoopTypes, CounterTypes, Counters
  <1>5. FlagTypes'
    BY <1>1, <1>2 DEF Good, FlagTypes, healthVars
  <1>6. LoopTypes'
    BY <1>1, <1>2, <1>4, BackoffAssumption DEF Good, LoopTypes, CounterTypes, healthVars
  <1>7. LateOK' /\ AcceptingOK'
    BY <1>1, <1>2, <1>3 DEF Good, LateOK, AcceptingOK
  <1>8. CountersOK'
    <2>1. /\ \A c \in Counters : metrics[c] = stats[c]
          /\ metrics["in_progress"] = 0 /\ Sum = runs /\ errors = stats["errors"]
          /\ errors <= runs /\ errors \in Nat /\ runs \in Nat
      BY <1>1, BackoffAssumption DEF Good, CountersOK, Ending, LoopTypes
    <2>2. Sum' = Sum /\ errors' = errors
      BY <1>2 DEF Sum, healthVars
    <2>3. QED
      BY <1>2, <1>3, <1>4, <2>1, <2>2 DEF CountersOK, healthVars
  <1>9. QED
    BY <1>3, <1>5, <1>6, <1>7, <1>8 DEF Good

LEMMA CountJobKeeps ==
  ASSUME RuntimeInv, CountJob
  PROVE  Good'
  <1>1. Good /\ pc[Main] = "count"
    BY InvIsGood DEF CountJob, At
  <1>2. /\ stats' = Count(stats, result)
        /\ metrics' = [Count(metrics, result) EXCEPT
                         !["in_progress"] = IF @ > 0 THEN @ - 1 ELSE 0]
        /\ UNCHANGED <<stop, healthVars, result, backoff, runs, late, streak>>
    BY DEF CountJob
  <1>3. pc' \in [Actors -> Labels] /\ PlacesOK' /\ pc'[Main] = "loop"
    BY MainGoes DEF CountJob, MainLabels, Labels, Locking
  <1>4. /\ \A c \in Counters : metrics[c] = stats[c]
        /\ result \in {"completed", "failed"} /\ metrics["in_progress"] = 1
        /\ Sum + 1 = runs /\ errors = stats["errors"]
        /\ errors <= runs /\ errors \in Nat /\ runs \in Nat
        /\ stats \in [Counters -> Nat]
        /\ metrics \in [Counters \cup {"in_progress"} -> Nat]
    BY <1>1, BackoffAssumption DEF Good, CountersOK, Ending, LoopTypes, CounterTypes
  <1>5. /\ stats' \in [Counters -> Nat] /\ stats'[result] = stats[result] + 1
        /\ \A c \in Counters \ {result} : stats'[c] = stats[c]
    <2>1. result \in Counters
      BY <1>4 DEF Counters
    <2>2. QED
      BY <1>2, <1>4, <2>1, StatsCount
  <1>6. /\ Count(metrics, result) \in [Counters \cup {"in_progress"} -> Nat]
        /\ Count(metrics, result)[result] = metrics[result] + 1
        /\ \A c \in (Counters \cup {"in_progress"}) \ {result} :
             Count(metrics, result)[c] = metrics[c]
    BY <1>4, CountKeeps DEF Counters
  <1>7. /\ metrics' \in [Counters \cup {"in_progress"} -> Nat]
        /\ metrics'["in_progress"] = 0
        /\ \A c \in Counters : metrics'[c] = Count(metrics, result)[c]
    BY <1>2, <1>4, <1>6 DEF Counters
  <1>8. FlagTypes'
    BY <1>1, <1>2 DEF Good, FlagTypes, healthVars
  <1>9. LoopTypes'
    BY <1>1, <1>2, <1>5, <1>7 DEF Good, LoopTypes, CounterTypes, healthVars
  <1>10. LateOK' /\ AcceptingOK'
    BY <1>1, <1>2, <1>3 DEF Good, LateOK, AcceptingOK
  <1>11. CountersOK'
    <2>1. \A c \in Counters : metrics'[c] = stats'[c]
      BY <1>4, <1>5, <1>6, <1>7 DEF Counters
    <2>2. Sum' = Sum + 1
      BY <1>4, <1>5 DEF Sum, Counters
    <2>3. errors' = errors /\ errors' = stats'["errors"] /\ runs' = runs
      BY <1>2, <1>4, <1>5 DEF healthVars, Counters
    <2>4. QED
      BY <1>3, <1>4, <1>7, <2>1, <2>2, <2>3 DEF CountersOK
  <1>12. QED
    BY <1>3, <1>8, <1>9, <1>10, <1>11 DEF Good

LEMMA RaisesKeeps ==
  ASSUME RuntimeInv, Raises
  PROVE  Good'
  <1>1. Good /\ pc[Main] = "running"
    BY InvIsGood DEF Raises, At
  <1>2. /\ runs < MaxRuns /\ runs' = runs + 1 /\ result' = "errors"
        /\ stats' = Count(stats, "errors") /\ metrics' = Count(metrics, "errors")
        /\ streak' = streak + 1
        /\ UNCHANGED <<stop, healthVars, backoff, late>>
    BY DEF Raises
  <1>3. pc' \in [Actors -> Labels] /\ PlacesOK' /\ pc'[Main] = "mark_error"
    BY MainGoes DEF Raises, MainLabels, Labels, Locking
  <1>4. /\ \A c \in Counters : metrics[c] = stats[c]
        /\ metrics["in_progress"] = 0
        /\ Sum = runs /\ errors = stats["errors"]
        /\ errors <= runs /\ errors \in Nat /\ runs \in Nat
        /\ stats \in [Counters -> Nat]
        /\ metrics \in [Counters \cup {"in_progress"} -> Nat]
    BY <1>1, BackoffAssumption DEF Good, CountersOK, Ending, LoopTypes, CounterTypes
  <1>5. /\ stats' \in [Counters -> Nat] /\ stats'["errors"] = stats["errors"] + 1
        /\ \A c \in Counters \ {"errors"} : stats'[c] = stats[c]
    <2>1. "errors" \in Counters
      BY DEF Counters
    <2>2. QED
      BY <1>2, <1>4, <2>1, StatsCount
  <1>6. /\ metrics' \in [Counters \cup {"in_progress"} -> Nat]
        /\ metrics'["errors"] = metrics["errors"] + 1
        /\ \A c \in (Counters \cup {"in_progress"}) \ {"errors"} : metrics'[c] = metrics[c]
    <2>1. "errors" \in Counters \cup {"in_progress"}
      BY DEF Counters
    <2>2. QED
      BY <1>2, <1>4, <2>1, CountKeeps
  <1>7. FlagTypes'
    BY <1>1, <1>2 DEF Good, FlagTypes, healthVars
  <1>8. LoopTypes'
    BY <1>1, <1>2, <1>5, <1>6, BackoffAssumption DEF Good, LoopTypes, CounterTypes, healthVars
  <1>9. LateOK' /\ AcceptingOK'
    BY <1>1, <1>2, <1>3 DEF Good, LateOK, AcceptingOK
  <1>10. CountersOK'
    <2>1. \A c \in Counters : metrics'[c] = stats'[c]
      BY <1>4, <1>5, <1>6 DEF Counters
    <2>2. Sum' = Sum + 1
      BY <1>4, <1>5 DEF Sum, Counters
    <2>3. errors' = errors /\ metrics'["in_progress"] = 0
      BY <1>2, <1>4, <1>6 DEF healthVars, Counters
    <2>4. QED
      BY <1>2, <1>3, <1>4, <1>5, <2>1, <2>2, <2>3 DEF CountersOK
  <1>11. QED
    BY <1>3, <1>7, <1>8, <1>9, <1>10 DEF Good

LEMMA RaisesOtherKeeps ==
  ASSUME RuntimeInv, RaisesOther
  PROVE  Good'
  <1>1. Good /\ pc[Main] = "running"
    BY InvIsGood DEF RaisesOther, At
  <1>2. /\ runs < MaxRuns /\ runs' = runs + 1
        /\ UNCHANGED <<stop, healthVars, result, backoff, stats, metrics, late, streak>>
    BY DEF RaisesOther
  <1>3. pc' \in [Actors -> Labels] /\ PlacesOK' /\ pc'[Main] = "mark_stopping"
    BY MainGoes DEF RaisesOther, MainLabels, Labels, Locking
  <1>4. FlagTypes'
    BY <1>1, <1>2 DEF Good, FlagTypes, healthVars
  <1>5. LoopTypes' /\ CountersOK'
    BY <1>1, <1>2, <1>3, BackoffAssumption
       DEF Good, LoopTypes, CounterTypes, CountersOK, Ending, healthVars
  <1>6. LateOK' /\ AcceptingOK'
    BY <1>1, <1>2, <1>3 DEF Good, LateOK, AcceptingOK
  <1>7. QED
    BY <1>3, <1>4, <1>5, <1>6 DEF Good

LEMMA MarkRuntimeErrorKeeps ==
  ASSUME RuntimeInv, MarkRuntimeError
  PROVE  Good'
  <1>1. Good /\ pc[Main] = "mark_error"
    BY InvIsGood DEF MarkRuntimeError, Holding, At
  <1>2. errors' = errors + 1 /\ UNCHANGED <<stop, ready, accepting, loopVars>>
    BY DEF MarkRuntimeError
  <1>3. pc' \in [Actors -> Labels] /\ PlacesOK' /\ pc'[Main] = "wait"
    BY MainGoes DEF MarkRuntimeError, MainLabels, Labels, Locking
  <1>4. FlagTypes'
    BY <1>1, <1>2 DEF Good, FlagTypes
  <1>5. LoopTypes'
    BY <1>1, <1>2 DEF Good, LoopTypes, CounterTypes, loopVars
  <1>6. LateOK' /\ AcceptingOK'
    BY <1>1, <1>2, <1>3 DEF Good, LateOK, AcceptingOK, loopVars
  <1>7. CountersOK'
    <2>1. errors' <= runs
      BY <1>1, <1>2, BackoffAssumption
         DEF Good, CountersOK, Ending, Sum, LoopTypes, CounterTypes, Counters
    <2>2. QED
      BY <1>1, <1>2, <1>3, <2>1 DEF Good, CountersOK, Ending, Sum, loopVars
  <1>8. QED
    BY <1>3, <1>4, <1>5, <1>6, <1>7 DEF Good

-----------------------------------------------------------------------------
(* Every step of run(), of a handler and of another thread preserves the   *)
(* invariant.                                                              *)
LEMMA RuntimeStepInv == RuntimeInv /\ [Next]_vars => RuntimeInv'
  <1> SUFFICES ASSUME RuntimeInv, [Next]_vars
               PROVE  RuntimeInv'
    OBVIOUS
  <1>1. UNCHANGED vars => Aside
    <2>1. UNCHANGED vars =>
            /\ UNCHANGED <<pc, stop, ready, accepting, errors, loopVars>>
      BY DEF vars, healthVars
    <2>2. Good
      BY InvIsGood
    <2>3. QED
      BY <2>1, <2>2 DEF Aside, Good, PlacesOK, FlagTypes
  <1>2. ASSUME NEW a \in Actors,
               \/ Acquire(a) \/ (a # Main /\ MarkStopping(a)) \/ SetStop(a)
               \/ Snapshot(a) \/ RequestStop(a) \/ SignalArrives(a) \/ Probe(a)
        PROVE  Good'
    BY <1>2, AsideSteps, AsideKeeps
  <1>3. ASSUME MarkStopping(Main) \/ MainStep \/ TimesOut
        PROVE  Good'
    BY <1>3, ControlKeeps, RunOnceKeeps, QuietKeeps, ReturnsJobKeeps, CountJobKeeps,
       RaisesKeeps, RaisesOtherKeeps, MarkRuntimeErrorKeeps DEF MainStep
  <1>4. Good'
    BY <1>1, <1>2, <1>3, AsideKeeps DEF Next, Step
  <1>5. (Good /\ SystemTypes => RuntimeInv)'
    BY GoodIsInv, PTL
  <1>6. QED
    BY <1>4, <1>5, SystemStep

(* The process keeps its variables well typed, and the backoff between the *)
(* two configured values.                                                  *)
THEOREM RuntimeTypeCorrect == Spec => []TypeOK
  BY RuntimeInitInv, RuntimeStepInv, PTL DEF Spec, RuntimeInv

(* Once the stop event is set, run_once is called at most once more.       *)
THEOREM RuntimeOneLateRunAtMost == Spec => []OneLateRunAtMost
  <1>1. RuntimeInv => OneLateRunAtMost
    BY DEF RuntimeInv, LateOK, OneLateRunAtMost
  <1>2. QED
    BY <1>1, RuntimeInitInv, RuntimeStepInv, PTL DEF Spec

(* The three places that count agree whenever the loop comes round.        *)
THEOREM RuntimeCountersAgree == Spec => []CountersAgree
  <1>1. RuntimeInv => CountersAgree
    BY DEF RuntimeInv, CountersOK, CountersAgree, Sum, Ending
  <1>2. QED
    BY <1>1, RuntimeInitInv, RuntimeStepInv, PTL DEF Spec

(* run() never leaves the worker accepting work when it ends.              *)
THEOREM RuntimeExitedIsNotAccepting == Spec => []ExitedIsNotAccepting
  <1>1. RuntimeInv => ExitedIsNotAccepting
    BY DEF RuntimeInv, AcceptingOK, ExitedIsNotAccepting
  <1>2. QED
    BY <1>1, RuntimeInitInv, RuntimeStepInv, PTL DEF Spec
=============================================================================
