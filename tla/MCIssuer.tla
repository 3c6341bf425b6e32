------------------------------- MODULE MCIssuer -------------------------------
(* A small issuer for TLC: four names, one of them not allowed, a cache of *)
(* two, and a CA whose end the clock passes.                               *)
EXTENDS Issuer

MCRoot == [notBefore |-> 0, notAfter |-> 10]
MCIntermediate == [notBefore |-> 1, notAfter |-> 10]

===============================================================================
