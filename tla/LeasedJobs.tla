----------------------------- MODULE LeasedJobs -----------------------------
(***************************************************************************)
(* What the queue promises to its callers, without a table, a payload or a *)
(* clock: jobs are held or ready, a ready job is granted to one worker at  *)
(* a time, a grant lapses at some time the worker does not choose, and     *)
(* only the worker whose grant has not lapsed returns or finishes the job. *)
(* docs/lease-fencing.md states it as "No valid lease -> no checkpoint ->  *)
(* no completion".                                                         *)
(***************************************************************************)
CONSTANTS Jobs, Workers, NoOwner

VARIABLES
  phase,  \* where each job is
  owner,  \* the worker each job is granted to, or NoOwner
  live    \* the jobs whose grant still holds

vars == <<phase, owner, live>>

Init ==
  /\ phase = [j \in Jobs |-> "absent"]
  /\ owner = [j \in Jobs |-> NoOwner]
  /\ live = {}

(* A job arrives, ready for a worker or held for a human decision.         *)
Submit(j) ==
  /\ phase[j] = "absent"
  /\ \E p \in {"ready", "held"} : phase' = [phase EXCEPT ![j] = p]
  /\ UNCHANGED <<owner, live>>

Approve(j) ==
  /\ phase[j] = "held"
  /\ phase' = [phase EXCEPT ![j] = "ready"]
  /\ UNCHANGED <<owner, live>>

Grant(j, w) ==
  /\ phase[j] = "ready" \/ (phase[j] = "owned" /\ j \notin live)
  /\ phase' = [phase EXCEPT ![j] = "owned"]
  /\ owner' = [owner EXCEPT ![j] = w]
  /\ live' = live \cup {j}

(* The holder of a live grant hands the job back, or finishes it.          *)
Settle(j, p) ==
  /\ phase[j] = "owned" /\ j \in live
  /\ phase' = [phase EXCEPT ![j] = p]
  /\ owner' = [owner EXCEPT ![j] = NoOwner]
  /\ live' = live \ {j}

(* Time passes: any of the live grants may lapse, none comes back.         *)
Lapse ==
  /\ live' \in SUBSET live
  /\ UNCHANGED <<phase, owner>>

Next ==
  \/ \E j \in Jobs : Submit(j) \/ Approve(j)
  \/ \E j \in Jobs, w \in Workers : Grant(j, w)
  \/ \E j \in Jobs, p \in {"ready", "done"} : Settle(j, p)
  \/ Lapse

Spec == Init /\ [][Next]_vars
=============================================================================
