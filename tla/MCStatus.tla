-------------------------------- MODULE MCStatus --------------------------------
(* One who polls, and a CA that opens and ends while the clock runs. *)
EXTENDS Status

MCRoot == [notBefore |-> 1, notAfter |-> 3]
MCIntermediate == [notBefore |-> 1, notAfter |-> 3]

===============================================================================
