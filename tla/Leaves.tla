-------------------------------- MODULE Leaves --------------------------------
(***************************************************************************)
(* Validity windows of the certificates that the sink handles: the root    *)
(* and intermediate CA certificates loaded at startup, and the leaf        *)
(* certificates that package pki issues for intercepted host names         *)
(* (src/internal/pki/pki.go).  A certificate is reduced to what package    *)
(* pki decides by: the host it names and the two ends of its window.       *)
(*                                                                         *)
(* Time is counted in ticks of the clock that the issuer reads.  X.509     *)
(* encodes whole seconds, so a certificate that leaves                     *)
(* x509.CreateCertificate starts and ends on a multiple of Second.         *)
(***************************************************************************)
EXTENDS Integers

CONSTANTS
    SNI,           (* the server names a ClientHello may carry               *)
    Allowed,       (* those that normalizeHost accepts and i.allows grants   *)
    Root,          (* the root certificate's window                          *)
    Intermediate,  (* the intermediate certificate's window                  *)
    LeafValidity,  (* i.leafValidity, seven days unless a caller sets it     *)
    Backdate,      (* how far a leaf's window opens before its issue, 5 min  *)
    Second,        (* ticks of the issuer's clock in one second              *)
    MaxClock,      (* bound of the model: the last tick of the clock         *)
    MaxSkew        (* how far the clock may fall behind its own maximum      *)

Window == [notBefore : Int, notAfter : Int]

\* A certificate keeps whole seconds: x509.CreateCertificate drops the rest.
WholeSeconds(t) == t - (t % Second)

(***************************************************************************)
(* What Load has checked before an Issuer exists: the CA windows are what  *)
(* a certificate can hold, and the intermediate does not outlive the root. *)
(***************************************************************************)
ASSUME CertificatesLoaded ==
    /\ Second \in Nat \ {0}
    /\ Root \in Window
    /\ Intermediate \in Window
    /\ WholeSeconds(Root.notAfter) = Root.notAfter
    /\ WholeSeconds(Intermediate.notAfter) = Intermediate.notAfter
    /\ Intermediate.notAfter <= Root.notAfter

\* normalizeHost refuses the empty name before anything else looks at it.
ASSUME NamesAllowed ==
    /\ Allowed \subseteq SNI
    /\ "" \notin Allowed

(***************************************************************************)
(* The durations package pki uses: five minutes of backdating, which is    *)
(* long against a second and short against the validity of a leaf.         *)
(***************************************************************************)
ASSUME LeafDurations ==
    /\ Backdate \in Nat \ {0, 1}
    /\ LeafValidity \in Nat
    /\ 2 * LeafValidity >= Backdate + 4 * Second

(***************************************************************************)
(* The environment: a wall clock that may be set back, by no more than     *)
(* the backdating absorbs.                                                 *)
(***************************************************************************)
ASSUME ClockSteps ==
    /\ MaxClock \in Nat
    /\ MaxSkew \in Nat
    /\ MaxSkew <= Backdate

-------------------------------------------------------------------------------

\* Leaf certificates; NoLeaf is the nil *tls.Certificate.
Leaf == [host : Allowed, notBefore : Int, notAfter : Int]
NoLeaf == [host |-> "", notBefore |-> 0, notAfter |-> 0]

Lifetime(leaf) == leaf.notAfter - leaf.notBefore

\* validAt: the window is closed on the left and open on the right.
ValidAt(window, now) == /\ now >= window.notBefore
                        /\ now < window.notAfter

\* readyAt: both CA certificates are valid.
ReadyAt(now) == ValidAt(Root, now) /\ ValidAt(Intermediate, now)

\* needsRenewal: less than a third of the leaf's lifetime is left.
NeedsRenewal(leaf, now) == leaf.notAfter - now < Lifetime(leaf) \div 3

Earlier(s, t) == IF s < t THEN s ELSE t

(***************************************************************************)
(* The end of a leaf issued now: its validity, cut to the intermediate's   *)
(* end and then to the root's.                                             *)
(***************************************************************************)
IssuedUntil(now) ==
    Earlier(Earlier(now + LeafValidity, Intermediate.notAfter), Root.notAfter)

\* A possible bug: the leaf's window opens only now.
LeafFromNow(host, now) ==
    [host      |-> host,
     notBefore |-> WholeSeconds(now),
     notAfter  |-> WholeSeconds(IssuedUntil(now))]

\* The certificate that issue builds from its template.
IssuedLeaf(host, now) ==
    [host      |-> host,
     notBefore |-> WholeSeconds(now - Backdate),
     notAfter  |-> WholeSeconds(IssuedUntil(now))]

-------------------------------------------------------------------------------

(***************************************************************************)
(* What GetCertificate returns, as its caller sees it: an error or a leaf, *)
(* never both.  "silent" stands for a step that returned nothing.          *)
(***************************************************************************)
Outcome == {"refused", "not ready", "failed", "cached", "issued"}
Answer ==
    {a \in [host : SNI, outcome : Outcome, leaf : Leaf \union {NoLeaf}] :
        a.leaf \in Leaf <=> a.outcome \in {"cached", "issued"}}
Silent == [host |-> "", outcome |-> "silent", leaf |-> NoLeaf]

Returns(host, result, leaf) ==
    [host |-> host, outcome |-> result, leaf |-> leaf]

===============================================================================
