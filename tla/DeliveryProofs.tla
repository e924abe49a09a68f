--------------------------- MODULE DeliveryProofs ---------------------------
(***************************************************************************)
(* The safety of delivery for any number of jobs, repositories, bases,     *)
(* threads, owners and failing calls.  The runs' invariants are not        *)
(* inductive by themselves: that a job gets one pull request in a          *)
(* repository rests on which thread created the job's branch there, and    *)
(* that a recorded pull request exists rests on what a thread about to     *)
(* record it holds in its local variables.                                 *)
(***************************************************************************)
EXTENDS Delivery, FiniteSetTheorems, TLAPS

Started(k) == status[k] \in {"in_progress", "succeeded"}

(* begin() was executed once for a started row and never for another, and  *)
(* a settled row has no lease.                                             *)
RowsInv ==
  \A k \in Keys :
    /\ Started(k) => begins[k] = 1
    /\ ~Started(k) => begins[k] = 0
    /\ status[k] = "succeeded" => lease[k] = NULL

(* A thread that is about to open a pull request is the one that created   *)
(* its head, and no pull request comes from that head yet.                 *)
BranchesInv ==
  /\ \A e \in Threads :
       at[e] = "open_pull" => branch[HeadOf(key[e])] = e
  /\ \A e \in Threads :
       at[e] = "open_pull" => \A p \in pulls : From(p) # HeadOf(key[e])
  /\ \A p \in pulls : branch[From(p)] # NULL

(* A pull request with this number, for this key, and the commit of the    *)
(* key's head.                                                             *)
IsResultFor(r, k) ==
  /\ \E p \in pulls : /\ p.number = r.number
                       /\ From(p) = HeadOf(k) /\ p.base = BaseOf(k)
  /\ r.commit = branch[HeadOf(k)]

RemotesInv ==
  \A e \in Threads : at[e] = "record" => /\ remote[e] \in Results
                                         /\ IsResultFor(remote[e], key[e])

KeysInv == \A e \in Threads : at[e] # "free" => key[e] \in Keys

ResultsInv ==
  \A k \in Keys : status[k] = "succeeded" => IsResultFor(result[k], k)

DeliveryInv ==
  /\ TypeOK
  /\ IsFiniteSet(pulls)
  /\ KeysInv
  /\ RowsInv
  /\ BranchesInv
  /\ OnePullPerJob
  /\ RemotesInv
  /\ ResultsInv

(* A delivery key names a job, a repository and a base, and so a head.     *)
LEMMA KeyParts ==
  ASSUME NEW k \in Keys
  PROVE  /\ JobOf(k) \in Jobs /\ RepoOf(k) \in Repositories
         /\ BaseOf(k) \in Bases /\ HeadOf(k) \in Heads
         /\ HeadOf(k) = <<JobOf(k), RepoOf(k)>>
BY DEF Keys, JobOf, RepoOf, BaseOf, Heads, HeadOf

(* A pull request comes from a head.                                       *)
LEMMA PullParts ==
  ASSUME NEW p \in Pulls
  PROVE  From(p) \in Heads /\ From(p) = <<p.job, p.repo>>
BY DEF Pulls, Heads, From

(* The number of a new pull request is a number.                           *)
LEMMA PullsInFinite ==
  ASSUME NEW r, IsFiniteSet(pulls)
  PROVE  Cardinality(PullsIn(r)) \in Nat
<1>1. PullsIn(r) \subseteq pulls
  BY DEF PullsIn
<1> QED
  BY <1>1, FS_Subset, FS_CardinalityType

(* What a thread or a row knows to be its result stays its result: a       *)
(* branch is never moved and a pull request never disappears.              *)
LEMMA ResultKept ==
  ASSUME NEW r, NEW k \in Keys, IsResultFor(r, k), BranchesInv,
         \A h \in Heads : branch[h] # NULL => branch'[h] = branch[h],
         \A p \in pulls : \E q \in pulls' : /\ q.number = p.number
                                           /\ From(q) = From(p)
                                           /\ q.base = p.base
  PROVE  IsResultFor(r, k)'
BY KeyParts DEF IsResultFor, BranchesInv

(* The invariant holds before the first delivery.                          *)
LEMMA DeliveryInitInv == Init => DeliveryInv
<1> SUFFICES ASSUME Init PROVE DeliveryInv
  OBVIOUS
<1> USE DEF Init
<1>1. TypeOK
  BY DeliveryAssumption DEF TypeOK, RowTypeOK, GitHubTypeOK, ThreadTypeOK, Calls
<1>2. IsFiniteSet(pulls)
  BY FS_EmptySet
<1>3. KeysInv /\ RowsInv /\ BranchesInv
  BY DEF KeysInv, RowsInv, Started, BranchesInv
<1>4. OnePullPerJob /\ RemotesInv /\ ResultsInv
  BY DEF OnePullPerJob, RemotesInv, ResultsInv
<1> QED
  BY <1>1, <1>2, <1>3, <1>4 DEF DeliveryInv

(* Every call of every thread, every failure, GitHub's users and the clock *)
(* preserve it.                                                            *)
LEMMA DeliveryStepInv == DeliveryInv /\ [Next]_vars => DeliveryInv'
<1> SUFFICES ASSUME DeliveryInv, [Next]_vars PROVE DeliveryInv'
  OBVIOUS
<1> USE DeliveryAssumption
    DEF DeliveryInv, TypeOK, RowTypeOK, GitHubTypeOK, ThreadTypeOK, rowVars,
        githubVars, threadVars
<1>1. ASSUME NEW e \in Threads, Execute(e) PROVE DeliveryInv'
  <2> USE <1>1 DEF Execute, ExecuteFor, Done, Fault, AcquireRow, Acquires, TakesOver,
                   AfterAcquire
  <2>1. RowTypeOK'
    OBVIOUS
  <2>2. GitHubTypeOK' /\ IsFiniteSet(pulls')
    OBVIOUS
  <2>3. ThreadTypeOK'
    <3>1. PICK k \in Keys :
            /\ AcquireRow(e, k)
            /\ \/ /\ AfterAcquire(e, k) # "free"
                  /\ at' = [at EXCEPT ![e] = AfterAcquire(e, k)]
                  /\ key' = [key EXCEPT ![e] = k]
                  /\ durable' = [durable EXCEPT ![e] = TRUE]
                  /\ UNCHANGED remote
               \/ Done(e)
      OBVIOUS
    <3>2. status'[k] \in {"pending", "in_progress", "succeeded"}
      BY <3>1
    <3>3. AfterAcquire(e, k) \in Calls /\ "free" \in Calls
      BY <3>2 DEF Calls
    <3>4. CASE Done(e)
      BY <3>3, <3>4
    <3>5. CASE ~Done(e)
      <4>1. durable' \in [Threads -> BOOLEAN]
        BY <3>1, <3>5
      <4>2. at' \in [Threads -> Calls]
        BY <3>1, <3>3, <3>5
      <4>3. key' \in [Threads -> Keys \cup {NULL}] /\ remote' = remote
        BY <3>1, <3>5
      <4> QED
        BY <4>1, <4>2, <4>3
    <3> QED
      BY <3>4, <3>5
  <2>4. begins' \in [Keys -> Nat] /\ faults' \in 0 .. MaxFaults
    OBVIOUS
  <2>5. KeysInv' /\ RowsInv'
    BY DEF KeysInv, RowsInv, Started
  <2>6. BranchesInv' /\ OnePullPerJob'
    BY DEF BranchesInv, OnePullPerJob
  <2>7. RemotesInv' /\ ResultsInv'
    BY DEF KeysInv, RemotesInv, ResultsInv, IsResultFor
  <2> QED
    BY <2>1, <2>2, <2>3, <2>4, <2>5, <2>6, <2>7
<1>2. ASSUME NEW e \in Threads, Begin(e) PROVE DeliveryInv'
  <2> USE <1>2 DEF Begin, BeginRow, BeginEnabled, Continue, Goto, Done, Fault,
                   LeaseHolds
  <2>1. RowTypeOK'
    OBVIOUS
  <2>2. GitHubTypeOK' /\ IsFiniteSet(pulls')
    OBVIOUS
  <2>3. ThreadTypeOK'
    <3>1. at' \in [Threads -> Calls]
      BY DEF Calls
    <3>2. key' \in [Threads -> Keys \cup {NULL}]
      OBVIOUS
    <3>3. durable' \in [Threads -> BOOLEAN]
      OBVIOUS
    <3>4. remote' \in [Threads -> Results \cup {NULL}]
      OBVIOUS
    <3> QED
      BY <3>1, <3>2, <3>3, <3>4
  <2>4. begins' \in [Keys -> Nat] /\ faults' \in 0 .. MaxFaults
    OBVIOUS
  <2>5. KeysInv' /\ RowsInv'
    BY DEF KeysInv, RowsInv, Started
  <2>6. BranchesInv' /\ OnePullPerJob'
    BY DEF BranchesInv, OnePullPerJob
  <2>7. RemotesInv' /\ ResultsInv'
    BY DEF KeysInv, RemotesInv, ResultsInv, IsResultFor
  <2> QED
    BY <2>1, <2>2, <2>3, <2>4, <2>5, <2>6, <2>7
<1>3. ASSUME NEW e \in Threads, CheckBranch(e) PROVE DeliveryInv'
  <2> USE <1>3 DEF CheckBranch, Goto, Done
  <2>1. TypeOK' /\ IsFiniteSet(pulls')
    <3>1. UNCHANGED <<status, owner, lease, result, branch, pulls, begins, faults>>
      OBVIOUS
    <3>2. at' \in [Threads -> Calls]
      BY DEF Calls
    <3>3. key' \in [Threads -> Keys \cup {NULL}]
      OBVIOUS
    <3>4. durable' \in [Threads -> BOOLEAN]
      OBVIOUS
    <3>5. remote' \in [Threads -> Results \cup {NULL}]
      OBVIOUS
    <3> QED
      BY <3>1, <3>2, <3>3, <3>4, <3>5
  <2>2. KeysInv' /\ RowsInv' /\ BranchesInv' /\ OnePullPerJob'
    BY DEF KeysInv, RowsInv, Started, BranchesInv, OnePullPerJob
  <2>3. RemotesInv' /\ ResultsInv'
    BY DEF RemotesInv, ResultsInv, IsResultFor
  <2> QED
    BY <2>1, <2>2, <2>3
<1>4. ASSUME NEW e \in Threads, CreateBranch(e) PROVE DeliveryInv'
  <2> USE <1>4 DEF CreateBranch, Continue, Goto, Done, Fault
  <2>1. RowTypeOK'
    OBVIOUS
  <2>2. GitHubTypeOK' /\ IsFiniteSet(pulls')
    BY KeyParts DEF KeysInv
  <2>3. ThreadTypeOK'
    BY DEF Calls
  <2>4. begins' \in [Keys -> Nat] /\ faults' \in 0 .. MaxFaults
    OBVIOUS
  <2>5. KeysInv' /\ RowsInv'
    BY DEF KeysInv, RowsInv, Started
  <2>6. BranchesInv'
    <3> DEFINE h == HeadOf(key[e])
    <3>1. h \in Heads
      BY KeyParts DEF KeysInv
    <3>2. CASE branch[h] # NULL
      BY <3>2 DEF BranchesInv
    <3>3. CASE branch[h] = NULL
      <4>1. branch' = [branch EXCEPT ![h] = e] /\ pulls' = pulls
        BY <3>3
      <4>2. \A f \in Threads \ {e} : at'[f] = at[f] /\ key'[f] = key[f]
        BY <3>3
      <4>3. at'[e] = "open_pull" => key'[e] = key[e]
        BY <3>3
      <4>4. \A p \in pulls : From(p) # h
        BY <3>3 DEF BranchesInv
      <4>5. \A f \in Threads \ {e} : at[f] = "open_pull" => HeadOf(key[f]) # h
        BY <3>3 DEF BranchesInv
      <4>6. \A f \in Threads : at'[f] = "open_pull" => branch'[HeadOf(key'[f])] = f
        BY <3>1, <4>1, <4>2, <4>3, <4>5, KeyParts DEF KeysInv, BranchesInv
      <4>7. \A f \in Threads : at'[f] = "open_pull" =>
                                 \A p \in pulls' : From(p) # HeadOf(key'[f])
        BY <4>1, <4>2, <4>3, <4>4 DEF BranchesInv
      <4>8. \A p \in pulls' : branch'[From(p)] # NULL
        BY <3>1, <4>1, <4>4, PullParts DEF BranchesInv
      <4> QED
        BY <4>6, <4>7, <4>8 DEF BranchesInv
    <3> QED
      BY <3>2, <3>3
  <2>7. OnePullPerJob'
    BY DEF OnePullPerJob
  <2>8. RemotesInv' /\ ResultsInv'
    <3>1. \A h \in Heads : branch[h] # NULL => branch'[h] = branch[h]
      BY KeyParts DEF KeysInv
    <3>2. pulls' = pulls /\ status' = status /\ result' = result
      OBVIOUS
    <3>3. \A f \in Threads : at'[f] = "record" =>
            at[f] = "record" /\ key'[f] = key[f] /\ remote'[f] = remote[f]
      OBVIOUS
    <3>4. RemotesInv'
      BY <3>1, <3>2, <3>3, ResultKept DEF RemotesInv, KeysInv, IsResultFor
    <3>5. ResultsInv'
      BY <3>1, <3>2, ResultKept DEF ResultsInv
    <3> QED
      BY <3>4, <3>5
  <2> QED
    BY <2>1, <2>2, <2>3, <2>4, <2>5, <2>6, <2>7, <2>8
<1>5. ASSUME NEW e \in Threads, OpenPull(e) PROVE DeliveryInv'
  <2> USE <1>5 DEF OpenPull, Done, Fault
  <2>1. RowTypeOK'
    OBVIOUS
  <2>2. GitHubTypeOK' /\ IsFiniteSet(pulls')
    <3>1. PICK p : /\ pulls' = pulls \cup {p}
                   /\ p = [number |-> Cardinality(PullsIn(RepoOf(key[e]))) + 1,
                            job |-> JobOf(key[e]), repo |-> RepoOf(key[e]),
                            base |-> BaseOf(key[e]), open |-> TRUE]
      OBVIOUS
    <3>2. Cardinality(PullsIn(RepoOf(key[e]))) \in Nat
      BY PullsInFinite
    <3>3. IsFiniteSet(pulls')
      <4> HIDE <1>5 DEF OpenPull, Done, Fault
      <4>1. IsFiniteSet(pulls \cup {p})
        BY FS_AddElement
      <4> QED
        BY <3>1, <4>1
    <3>4. p \in Pulls
      BY <3>1, <3>2, KeyParts DEF KeysInv, Pulls
    <3> QED
      BY <3>1, <3>3, <3>4
  <2>3. ThreadTypeOK'
    <3>1. Cardinality(PullsIn(RepoOf(key[e]))) + 1 \in Nat
      BY PullsInFinite
    <3>2. [number |-> Cardinality(PullsIn(RepoOf(key[e]))) + 1, commit |-> e]
            \in Results
      BY <3>1 DEF Results
    <3>3. "free" \in Calls /\ "record" \in Calls
      BY DEF Calls
    <3>4. CASE Done(e)
      BY <3>3, <3>4
    <3>5. CASE ~Done(e)
      BY <3>2, <3>3, <3>5
    <3> QED
      BY <3>4, <3>5
  <2>4. begins' \in [Keys -> Nat] /\ faults' \in 0 .. MaxFaults
    OBVIOUS
  <2>5. KeysInv' /\ RowsInv'
    BY DEF KeysInv, RowsInv, Started
  <2>6. BranchesInv'
    <3>1. PICK p : /\ pulls' = pulls \cup {p} /\ branch' = branch
                   /\ p = [number |-> Cardinality(PullsIn(RepoOf(key[e]))) + 1,
                            job |-> JobOf(key[e]), repo |-> RepoOf(key[e]),
                            base |-> BaseOf(key[e]), open |-> TRUE]
      OBVIOUS
    <3>2. From(p) = HeadOf(key[e]) /\ branch[HeadOf(key[e])] = e
      BY <3>1, KeyParts DEF KeysInv, BranchesInv, From
    <3>3. \A q \in pulls' : branch'[From(q)] # NULL
      BY <3>1, <3>2 DEF BranchesInv
    <3>4. ASSUME NEW f \in Threads, at'[f] = "open_pull"
          PROVE  /\ f # e /\ at[f] = "open_pull" /\ key'[f] = key[f]
                 /\ HeadOf(key[f]) # From(p)
      BY <3>2, <3>4 DEF BranchesInv
    <3> QED
      BY <3>1, <3>3, <3>4 DEF BranchesInv
  <2>7. OnePullPerJob'
    <3>1. PICK p : /\ pulls' = pulls \cup {p}
                   /\ p = [number |-> Cardinality(PullsIn(RepoOf(key[e]))) + 1,
                            job |-> JobOf(key[e]), repo |-> RepoOf(key[e]),
                            base |-> BaseOf(key[e]), open |-> TRUE]
      OBVIOUS
    <3>2. From(p) = HeadOf(key[e])
      BY <3>1, KeyParts DEF KeysInv, From
    <3>3. \A q \in pulls : ~(q.job = p.job /\ q.repo = p.repo)
      BY <3>1, <3>2 DEF BranchesInv, From
    <3> QED
      BY <3>1, <3>3 DEF OnePullPerJob
  <2>8. RemotesInv'
    <3> DEFINE k == key[e]
               n == Cardinality(PullsIn(RepoOf(k))) + 1
               p == [number |-> n, job |-> JobOf(k), repo |-> RepoOf(k),
                     base |-> BaseOf(k), open |-> TRUE]
    <3>1. pulls' = pulls \cup {p} /\ branch' = branch
      OBVIOUS
    <3>2. \A f \in Threads \ {e} :
            at'[f] = at[f] /\ key'[f] = key[f] /\ remote'[f] = remote[f]
      OBVIOUS
    <3>3. at'[e] = "record" =>
            key'[e] = k /\ remote'[e] = [number |-> n, commit |-> e]
      OBVIOUS
    <3>4. branch[HeadOf(k)] = e
      BY DEF BranchesInv
    <3>5. ASSUME NEW f \in Threads \ {e}, at'[f] = "record"
          PROVE  remote'[f] \in Results /\ IsResultFor(remote[f], key[f])'
      BY <3>1, <3>2, <3>5, ResultKept DEF RemotesInv, KeysInv, IsResultFor
    <3>6. ASSUME at'[e] = "record"
          PROVE  remote'[e] \in Results /\ IsResultFor(remote[e], key[e])'
      <4>1. /\ p \in pulls' /\ p.number = n
            /\ From(p) = HeadOf(k) /\ p.base = BaseOf(k)
        BY <3>1, KeyParts DEF KeysInv, From
      <4>2. remote'[e] \in Results
        BY <3>3, <3>6, PullsInFinite DEF Results
      <4>3. remote'[e].number = n /\ remote'[e].commit = branch'[HeadOf(key'[e])]
        BY <3>1, <3>3, <3>4, <3>6
      <4>4. \E q \in pulls' : /\ q.number = remote'[e].number
                             /\ From(q) = HeadOf(key'[e])
                             /\ q.base = BaseOf(key'[e])
        BY <3>3, <3>6, <4>1, <4>3
      <4> QED
        BY <4>2, <4>3, <4>4 DEF IsResultFor
    <3> QED
      BY <3>5, <3>6 DEF RemotesInv
  <2>9. ResultsInv'
    BY DEF ResultsInv, IsResultFor
  <2> QED
    BY <2>1, <2>2, <2>3, <2>4, <2>5, <2>6, <2>7, <2>8, <2>9
<1>6. ASSUME NEW e \in Threads, Reconcile(e) PROVE DeliveryInv'
  <2> USE <1>6 DEF Reconcile, Done
  <2>1. RowTypeOK'
    OBVIOUS
  <2>2. GitHubTypeOK' /\ IsFiniteSet(pulls')
    OBVIOUS
  <2>3. ThreadTypeOK'
    <3>1. CASE OpenPulls(key[e]) = {}
      BY <3>1 DEF Calls
    <3>2. CASE OpenPulls(key[e]) # {}
      <4>1. PICK p \in OpenPulls(key[e]) :
              /\ remote' = [remote EXCEPT ![e] =
                              [number |-> p.number, commit |-> branch[From(p)]]]
              /\ at' = [at EXCEPT ![e] = "record"]
              /\ UNCHANGED <<key, durable>>
        BY <3>2
      <4>2. p \in pulls /\ From(p) = HeadOf(key[e]) /\ p.base = BaseOf(key[e])
        BY DEF OpenPulls
      <4>3. p.number \in Nat /\ branch[From(p)] \in Threads
        BY <4>2, PullParts DEF Pulls, BranchesInv
      <4>4. [number |-> p.number, commit |-> branch[From(p)]] \in Results
        BY <4>3 DEF Results
      <4> QED
        BY <4>1, <4>4 DEF Calls
    <3> QED
      BY <3>1, <3>2
  <2>4. begins' \in [Keys -> Nat] /\ faults' \in 0 .. MaxFaults
    OBVIOUS
  <2>5. KeysInv' /\ RowsInv'
    BY DEF KeysInv, RowsInv, Started
  <2>6. BranchesInv' /\ OnePullPerJob' /\ ResultsInv'
    BY DEF BranchesInv, OnePullPerJob, ResultsInv, IsResultFor
  <2>7. RemotesInv'
    <3>1. CASE OpenPulls(key[e]) = {}
      BY <3>1 DEF RemotesInv, IsResultFor
    <3>2. CASE OpenPulls(key[e]) # {}
      <4>1. PICK p \in OpenPulls(key[e]) :
              /\ remote' = [remote EXCEPT ![e] =
                              [number |-> p.number, commit |-> branch[From(p)]]]
              /\ at' = [at EXCEPT ![e] = "record"]
              /\ UNCHANGED <<key, durable>>
        BY <3>2
      <4>2. p \in pulls /\ From(p) = HeadOf(key[e]) /\ p.base = BaseOf(key[e])
        BY DEF OpenPulls
      <4>3. p.number \in Nat /\ branch[From(p)] \in Threads
        BY <4>2, PullParts DEF Pulls, BranchesInv
      <4>4. [number |-> p.number, commit |-> branch[From(p)]] \in Results
        BY <4>3 DEF Results
      <4> QED
        BY <4>1, <4>2, <4>4 DEF RemotesInv, IsResultFor
    <3> QED
      BY <3>1, <3>2
  <2> QED
    BY <2>1, <2>2, <2>3, <2>4, <2>5, <2>6, <2>7
<1>7. ASSUME NEW e \in Threads, Record(e) PROVE DeliveryInv'
  <2> USE <1>7 DEF Record, RecordRow, RecordEnabled, Done, LeaseHolds
  <2>1. RowTypeOK'
    BY DEF Results
  <2>2. GitHubTypeOK' /\ IsFiniteSet(pulls')
    OBVIOUS
  <2>3. ThreadTypeOK'
    BY DEF Calls
  <2>4. begins' \in [Keys -> Nat] /\ faults' \in 0 .. MaxFaults
    OBVIOUS
  <2>5. KeysInv' /\ RowsInv'
    BY DEF KeysInv, RowsInv, Started
  <2>6. BranchesInv' /\ OnePullPerJob'
    BY DEF BranchesInv, OnePullPerJob
  <2>7. RemotesInv' /\ ResultsInv'
    BY DEF KeysInv, RemotesInv, ResultsInv, IsResultFor
  <2> QED
    BY <2>1, <2>2, <2>3, <2>4, <2>5, <2>6, <2>7
<1>8. ASSUME NEW e \in Threads, Post(e) PROVE DeliveryInv'
  <2> USE <1>8 DEF Post
  <2>1. TypeOK' /\ IsFiniteSet(pulls')
    BY DEF Calls
  <2>2. KeysInv' /\ RowsInv' /\ BranchesInv' /\ OnePullPerJob'
    BY DEF KeysInv, RowsInv, Started, BranchesInv, OnePullPerJob
  <2>3. RemotesInv' /\ ResultsInv'
    BY DEF RemotesInv, ResultsInv, IsResultFor
  <2> QED
    BY <2>1, <2>2, <2>3
<1>9. ASSUME NEW e \in Threads, CallFails(e) PROVE DeliveryInv'
  <2> USE <1>9 DEF CallFails, Done, Fault
  <2>1. TypeOK' /\ IsFiniteSet(pulls')
    BY DEF Calls
  <2>2. KeysInv' /\ RowsInv' /\ BranchesInv' /\ OnePullPerJob'
    BY DEF KeysInv, RowsInv, Started, BranchesInv, OnePullPerJob
  <2>3. RemotesInv' /\ ResultsInv'
    BY DEF RemotesInv, ResultsInv, IsResultFor
  <2> QED
    BY <2>1, <2>2, <2>3
<1>10. ASSUME ClosePull PROVE DeliveryInv'
  <2>1. PICK p \in pulls :
          pulls' = (pulls \ {p}) \cup {[p EXCEPT !.open = FALSE]}
    BY <1>10 DEF ClosePull
  <2> DEFINE c == [p EXCEPT !.open = FALSE]
  <2>2. /\ c \in Pulls /\ c.number = p.number
        /\ c.job = p.job /\ c.repo = p.repo /\ c.base = p.base
        /\ From(c) = From(p)
    BY DEF Pulls, From
  <2>3. IsFiniteSet(pulls')
    BY <2>1, FS_AddElement, FS_RemoveElement
  <2>4. TypeOK' /\ KeysInv' /\ RowsInv'
    BY <1>10, <2>1, <2>2
       DEF ClosePull, KeysInv, RowsInv, Started
  <2>5. \A q \in pulls' : \E o \in pulls : From(q) = From(o)
    BY <2>1, <2>2
  <2>6. BranchesInv' /\ OnePullPerJob'
    <3>1. BranchesInv'
      BY <1>10, <2>5 DEF ClosePull, BranchesInv
    <3>2. ASSUME NEW q \in pulls', NEW o \in pulls', q.job = o.job, q.repo = o.repo
          PROVE  q = o
      BY <2>1, <2>2, <3>2 DEF OnePullPerJob
    <3> QED
      BY <3>1, <3>2 DEF OnePullPerJob
  <2>7. \A o \in pulls : \E q \in pulls' : /\ q.number = o.number
                                          /\ From(q) = From(o)
                                          /\ q.base = o.base
    BY <2>1, <2>2
  <2>8. branch' = branch
    BY <1>10 DEF ClosePull
  <2>9. RemotesInv'
    BY <1>10, <2>7, <2>8, ResultKept
       DEF ClosePull, RemotesInv, KeysInv, IsResultFor
  <2>10. ResultsInv'
    BY <1>10, <2>7, <2>8, ResultKept
       DEF ClosePull, ResultsInv, IsResultFor
  <2> QED
    BY <2>3, <2>4, <2>6, <2>9, <2>10
<1>11. CASE Tick
  BY <1>11
     DEF Tick, KeysInv, RowsInv, Started, BranchesInv, OnePullPerJob,
         RemotesInv, ResultsInv, IsResultFor
<1>12. CASE UNCHANGED vars
  BY <1>12
     DEF vars, KeysInv, RowsInv, Started, BranchesInv,
         OnePullPerJob, RemotesInv, ResultsInv, IsResultFor
<1> QED
  BY <1>1, <1>2, <1>3, <1>4, <1>5, <1>6, <1>7, <1>8, <1>9, <1>10, <1>11, <1>12
     DEF Next, ThreadStep

(* A settled row is left alone by every step.                              *)
LEMMA SettledStep ==
  ASSUME DeliveryInv, [Next]_vars, NEW k \in Keys, status[k] = "succeeded"
  PROVE  /\ status'[k] = "succeeded" /\ result'[k] = result[k]
         /\ owner'[k] = owner[k] /\ lease'[k] = NULL
<1> USE DEF DeliveryInv, TypeOK, RowTypeOK
<1>1. lease[k] = NULL
  BY DEF RowsInv
<1>2. ASSUME NEW e \in Threads, Execute(e)
      PROVE  /\ status'[k] = "succeeded" /\ result'[k] = result[k]
             /\ owner'[k] = owner[k] /\ lease'[k] = NULL
  BY <1>1, <1>2 DEF Execute, ExecuteFor, AcquireRow, Acquires, TakesOver
<1>3. ASSUME NEW e \in Threads, Begin(e)
      PROVE  /\ status'[k] = "succeeded" /\ result'[k] = result[k]
             /\ owner'[k] = owner[k] /\ lease'[k] = NULL
  BY <1>1, <1>3 DEF Begin, BeginRow, BeginEnabled, rowVars
<1>4. ASSUME NEW e \in Threads, Record(e)
      PROVE  /\ status'[k] = "succeeded" /\ result'[k] = result[k]
             /\ owner'[k] = owner[k] /\ lease'[k] = NULL
  BY <1>1, <1>4 DEF Record, RecordRow, RecordEnabled, rowVars
<1>5. CASE Tick
  BY <1>1, <1>5 DEF Tick
<1>6. CASE UNCHANGED rowVars
  BY <1>1, <1>6 DEF rowVars
<1> QED
  BY <1>2, <1>3, <1>4, <1>5, <1>6
     DEF Next, ThreadStep, CheckBranch, CreateBranch, OpenPull, Reconcile,
         Post, CallFails, ClosePull, vars

-----------------------------------------------------------------------------
(* The inductive invariant holds in every reachable state, for any mix of  *)
(* execute() and endpoint calls.                                           *)
THEOREM DeliveryInvariant == Spec => []DeliveryInv
BY DeliveryInitInv, DeliveryStepInv, PTL DEF Spec

(* Rows, GitHub and the locals of execute(), deliver() and the endpoint    *)
(* always have their types.                                                *)
THEOREM DeliveryTypeCorrect == Spec => []TypeOK
<1>1. DeliveryInv => TypeOK
  BY DEF DeliveryInv
<1> QED
  BY <1>1, DeliveryInvariant, PTL

(* begin() succeeds at most once per delivery key, so the executor starts  *)
(* creating at GitHub at most once, for any number of retries and owners.  *)
THEOREM DeliveryBegunOnce == Spec => []BegunOnce
<1>1. DeliveryInv => BegunOnce
  BY DEF DeliveryInv, RowsInv, BegunOnce
<1> QED
  BY <1>1, DeliveryInvariant, PTL

(* deliver() opens at most one pull request per job in each repository,    *)
(* although the endpoint bypasses the table: creating the branch, which    *)
(* nobody deletes, is what decides.                                        *)
THEOREM DeliveryOnePullPerJob == Spec => []OnePullPerJob
<1>1. DeliveryInv => OnePullPerJob
  BY DEF DeliveryInv
<1> QED
  BY <1>1, DeliveryInvariant, PTL

(* What _record_success stores, from deliver() or from find_delivery(), is *)
(* a pull request of that job in that repository and into that base, at    *)
(* the branch's commit.                                                    *)
THEOREM DeliveryRecordedPullExists == Spec => []RecordedPullExists
<1>1. DeliveryInv => RecordedPullExists
  BY DEF DeliveryInv, ResultsInv, IsResultFor, RecordedPullExists
<1> QED
  BY <1>1, DeliveryInvariant, PTL

(* No acquire, begin or late record changes a succeeded row.               *)
THEOREM DeliverySettledIsFinal == Spec => SettledIsFinal
<1>1. DeliveryInv /\ [Next]_vars =>
        [\A k \in Keys :
           status[k] = "succeeded" =>
             /\ status'[k] = "succeeded" /\ result'[k] = result[k]
             /\ owner'[k] = owner[k] /\ lease'[k] = NULL]_vars
  BY SettledStep
<1> QED
  BY <1>1, DeliveryInvariant, PTL DEF Spec, SettledIsFinal
=============================================================================
