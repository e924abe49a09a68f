------------------------- MODULE MCRemediationWorker -------------------------
(* RemediationWorker with its payloads given as a finite set.              *)
EXTENDS RemediationWorker, TLC

MCWork == [patch : 0 .. MaxAttempts, verification : 0 .. MaxAttempts]

(* Jobs, workers and tenants are interchangeable.                          *)
WorkerSymmetry == Permutations(Jobs) \cup Permutations(Workers)
                    \cup Permutations(Tenants)
=============================================================================
