------------------------------ MODULE LeafService ------------------------------
(***************************************************************************)
(* What the issuer promises to a TLS handshake, without a cache: whatever  *)
(* leaf it returns is for the name asked, is valid on the clock that was   *)
(* read, ends no later than the CA, and has a third of its life left       *)
(* unless the CA's own end cut it short.  An error is returned only for a  *)
(* name that is not allowed, for a CA that is not valid, or when the       *)
(* system's randomness fails.                                              *)
(***************************************************************************)
EXTENDS Leaves

VARIABLES
    clock,   \* the wall clock
    high,    \* the furthest the wall clock has been
    answer   \* what the last step returned

vars == <<clock, high, answer>>

Init == /\ clock \in 0..MaxClock
        /\ ReadyAt(clock)
        /\ high = clock
        /\ answer = Silent

\* The clock moves, forwards or back, without anyone being answered.
ClockMoves ==
    /\ clock' \in 0..MaxClock
    /\ high' = IF clock' > high THEN clock' ELSE high
    /\ high' - clock' <= MaxSkew
    /\ answer' = Silent

Promised(now) ==
    {a \in Answer :
        /\ a.outcome \in {"cached", "issued"}
        /\ a.host \in Allowed
        /\ a.leaf.host = a.host
        /\ ValidAt(a.leaf, now)
        /\ a.leaf.notAfter <= Intermediate.notAfter
        /\ a.leaf.notAfter <= Root.notAfter
        /\ \/ ~NeedsRenewal(a.leaf, now)
           \/ a.leaf.notAfter = Intermediate.notAfter}

Serve == /\ ReadyAt(clock)
         /\ answer' \in Promised(clock)
         /\ UNCHANGED <<clock, high>>

Decline ==
    /\ \E h \in SNI :
          \/ /\ h \notin Allowed
             /\ answer' = Returns(h, "refused", NoLeaf)
          \/ /\ h \in Allowed
             /\ ~ReadyAt(clock)
             /\ answer' = Returns(h, "not ready", NoLeaf)
          \/ /\ h \in Allowed
             /\ ReadyAt(clock)
             /\ answer' = Returns(h, "failed", NoLeaf)
    /\ UNCHANGED <<clock, high>>

Next == ClockMoves \/ Serve \/ Decline

Spec == Init /\ [][Next]_vars

===============================================================================
