----------------------------- MODULE MCCpuTrial -----------------------------
(* One pilot of two attempts on a fixture whose Pod may go at any time:       *)
(* three requests of which two may be in flight, so that one may be dropped, *)
(* and two CPU levels, one of them above the goal.                           *)
EXTENDS CpuTrial
=============================================================================
