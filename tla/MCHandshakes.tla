----------------------------- MODULE MCHandshakes -----------------------------
(* Two connections at an issuer with a cache of two; "odd" passes the gate *)
(* and not the issuer, as a name that the CA's constraints exclude does.   *)
EXTENDS Handshakes

MCRoot == [notBefore |-> 0, notAfter |-> 2]
MCIntermediate == [notBefore |-> 0, notAfter |-> 2]

===============================================================================
