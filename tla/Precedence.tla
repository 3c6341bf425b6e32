------------------------------ MODULE Precedence ------------------------------
(***************************************************************************)
(* What layered configuration promises: of every key, the value in force   *)
(* is that of the highest source which sets it.  Loading either takes      *)
(* place at once, or not at all.                                           *)
(***************************************************************************)
EXTENDS Naturals, Sequences

CONSTANTS
    Key,      (* the keys of the configuration *)
    Absent    (* the value of a key in a source that does not set it *)

VARIABLES
    sources,  \* the sources, lowest first: sequence of functions on Key
    config    \* the configuration in force, or NotYet

NotYet == [k \in Key |-> Absent]

Setters(k) == {i \in DOMAIN sources : sources[i][k] # Absent}

Highest(k) == CHOOSE i \in Setters(k) : \A j \in Setters(k) : j <= i

Init == /\ \A k \in Key : Setters(k) # {}
        /\ config = NotYet

Load == /\ config = NotYet
        /\ config' = [k \in Key |-> sources[Highest(k)][k]]
        /\ UNCHANGED sources

Spec == Init /\ [][Load]_<<sources, config>>

===============================================================================
