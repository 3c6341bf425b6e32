-------------------------------- MODULE MCServe --------------------------------
(* Two clients; a delay of two ticks that one poll fits into. *)
EXTENDS Serve
===============================================================================
