------------------------------ MODULE MCApprovals ------------------------------
(* Approvals on small instances; the cfg files give the bounds. *)
EXTENDS Approvals, TLC

CONSTANTS r1, r2, routine
================================================================================
