--------------------------- MODULE MCResourceCheck ---------------------------
(* Two snapshots, and two events of the product and the metrics server: its   *)
(* Pod is replaced and read once, or is read twice, or the probe's is, low,   *)
(* high or without a container.  The first Pod may be gone in every case.     *)
EXTENDS ResourceCheck
=============================================================================
