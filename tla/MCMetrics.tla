------------------------------- MODULE MCMetrics -------------------------------
(* Two workers, more sites and upstreams than the tables have room for. *)
EXTENDS Metrics
===============================================================================
