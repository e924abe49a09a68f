------------------------------ MODULE MCJobApi ------------------------------
(* The job endpoints with interchangeable requests, jobs and workers.      *)
EXTENDS JobApi, TLC

ApiSymmetry == Permutations(Requests) \cup Permutations(Jobs)
                 \cup Permutations(Workers)
=============================================================================
