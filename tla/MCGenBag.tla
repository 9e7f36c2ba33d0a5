------------------------------ MODULE MCGenBag ------------------------------
(* Bags of at most four of two page states. *)
EXTENDS GenBag
=============================================================================
