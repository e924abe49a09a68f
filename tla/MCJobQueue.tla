----------------------------- MODULE MCJobQueue -----------------------------
(* JobQueue under callers that may call any operation with any argument.   *)
EXTENDS JobQueue, TLC

QueueSymmetry == Permutations(Jobs) \cup Permutations(Workers)
                   \cup Permutations(Tenants)
=============================================================================
