------------------------------ MODULE MCIPAlloc ------------------------------
(* IPAlloc on a network of a few addresses, one of them multicast. *)
EXTENDS IPAlloc

OneMulticast == {2}
AllFaults == {"torn", "failed"}
=============================================================================
