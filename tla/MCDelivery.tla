----------------------------- MODULE MCDelivery -----------------------------
(* Three callers, two of them in processes that share an owner string.     *)
EXTENDS Delivery, TLC

CONSTANTS e1, e2, e3, o1, o2

MCOwnerOf == (e1 :> o1) @@ (e2 :> o1) @@ (e3 :> o2)

(* The two that share an owner string are interchangeable, and so are      *)
(* bases and repositories.                                                 *)
DeliverySymmetry ==
  Permutations(Bases) \cup Permutations(Repositories) \cup Permutations({e1, e2})
=============================================================================
