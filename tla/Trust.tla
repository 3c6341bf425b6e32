--------------------------------- MODULE Trust ---------------------------------
(***************************************************************************)
(* The life of a CA: `sink pki init` makes a root and an intermediate      *)
(* (Init of src/internal/pki/pki.go), the operator makes further           *)
(* certificates by hand and mounts files, the sink starts with what is     *)
(* mounted (FilterHosts and Load) or refuses to, a device enrolls over the *)
(* pages of src/internal/enroll and then verifies the certificates it is   *)
(* handed, over restarts and rotations.                                    *)
(*                                                                         *)
(* A certificate is what Load or a device asks of it: its key, its         *)
(* signer's key, its name constraints, its window, and three of its        *)
(* extensions: whether it is a CA (ca), whether there may be a CA below it *)
(* (below: its path length), and whether its leaves may be for servers     *)
(* (servers: extended key usages, policies).  A key stands for a key pair  *)
(* with a subject name: the same pair under another name is another key.   *)
(*                                                                         *)
(* How the four files get to the disk is module PkiInit, the cache of      *)
(* leaves Issuer: here the sink hands out any leaf it has issued since its *)
(* start that need not be renewed.  The sink's clock runs forwards; a      *)
(* device's clock is off by at most Slow or Fast.                          *)
(***************************************************************************)
EXTENDS Names, Integers, FiniteSets

CONSTANTS
    InitLists,         (* -hosts of `sink pki init`: sets of names *)
    RootLife,          (* RootValidity, ten years by default *)
    IntermediateLife,  (* IntermediateValidity, three years by default *)
    Rotations,         (* what else may be signed: [permitted, excluded, ca, *)
                       (* below, servers, from, until], the last two from now *)
    Configurations,    (* hosts of the validated configuration *)
    ServerNames,       (* exact names that clients ask for *)
    LeafValidity, Backdate, Second,      (* as in Leaves *)
    MaxClock,          (* bound: the last tick *)
    MaxMade,           (* bound: the last tick for further certificates *)
    MaxInits,          (* bound: how often `sink pki init` is run *)
    MaxRotations,      (* bound: certificates made by hand *)
    MaxIssued,         (* bound: certificates altogether *)
    MaxEnrolled,       (* bound: certificates that the device has installed *)
    Slow, Fast         (* how far a device's clock is behind and ahead *)

(***************************************************************************)
(* The durations of Leaves.  A device's clock is off by no more than the   *)
(* backdating of a leaf and the third of its life that renewal leaves.     *)
(***************************************************************************)
ASSUME Durations ==
    /\ Second \in Nat \ {0} /\ Backdate \in Nat \ {0, 1} /\ LeafValidity \in Nat
    /\ 2 * LeafValidity >= Backdate + 4 * Second
    /\ Slow \in 0..Backdate
    /\ Fast \in 0..(LeafValidity - Second) \div 3

\* Constraints that cover every name: domainMatches takes them for names that
\* nothing matches, a device reads them as RFC 5280 says.
Everything == {<<NoLabel>>, <<NoLabel, NoLabel>>}

\* Name constraints that x509.ParseCertificate does not refuse.
Constraint == {d \in Name : d \in Everything \/ Last(d) # NoLabel}

ASSUME KindsOfInputs ==
    /\ InitLists \subseteq SUBSET Name /\ Configurations \subseteq SUBSET Name
    /\ ServerNames \subseteq Name
    /\ \A like \in Rotations :
          /\ DOMAIN like = {"permitted", "excluded", "ca", "below", "servers",
                            "from", "until"}
          /\ \A d \in like.permitted \union like.excluded : d \in Constraint
          /\ like.ca \in BOOLEAN /\ like.below \in BOOLEAN /\ like.servers \in BOOLEAN
          /\ like.from \in Int /\ like.until \in Int
    /\ RootLife \in Nat \ {0} /\ IntermediateLife \in Nat \ {0}
    /\ MaxClock \in Nat

VARIABLES
    clock,      \* the time
    inits,      \* the certificates of each `sink pki init`, with its hosts
    rotated,    \* the certificates made by hand
    sink,       \* the running process's issuer, or Down
    trusted,    \* what the device has installed
    start,      \* history: what the last step started or tried to, or None
    shake       \* history: what came of the handshake of the last step, or None

files == <<inits, rotated>>
trustVars == <<clock, files, sink, trusted, start, shake>>

Down == [hosts |-> {}]
None == [of |-> "none"]

\* Neither a start nor a handshake.
Quiet == start' = None /\ shake' = None

\* The windows and leaves of the running issuer.
Pki == INSTANCE Leaves WITH
         Root <- sink.root, Intermediate <- sink.intermediate,
         SNI <- ServerNames, Allowed <- ServerNames, MaxSkew <- 0

ValidAt(cert, now) == now >= cert.notBefore /\ now < cert.notAfter
WholeSeconds(t) == t - (t % Second)
Earlier(s, t) == IF s < t THEN s ELSE t

\* All CA certificates there are, with their keys.
Issued == {i.root : i \in inits} \union {i.intermediate : i \in inits} \union rotated
Keys == {c.key : c \in Issued}

TrustInit ==
    /\ clock = 0
    /\ inits = {} /\ rotated = {}
    /\ sink = Down
    /\ trusted = {}
    /\ start = None /\ shake = None

Tick == /\ clock < MaxClock
        /\ clock' = clock + 1
        /\ Quiet
        /\ UNCHANGED <<files, sink, trusted>>

-------------------------------------------------------------------------------
(* The operator. *)

NewKey == Cardinality(Issued) + 1

\* normalizeHosts: exact names, and at least one of them.
ExactHosts(list) == {ExactHost(h) : h \in list}

\* A CA certificate of Init: MaxPathLen is 1 for the root, 0 for the intermediate.
InitCert(key, signer, hosts, below, until) ==
    [key |-> key, signer |-> signer, permitted |-> hosts, excluded |-> {},
     ca |-> TRUE, below |-> below, servers |-> TRUE,
     notBefore |-> WholeSeconds(clock), notAfter |-> WholeSeconds(until)]

NewRoot(hosts) == InitCert(NewKey, NewKey, hosts, TRUE, clock + RootLife)

\* The intermediate ends with the root at the latest.
IntermediateUntil(root) == Earlier(clock + IntermediateLife, root.notAfter)

\* A possible bug: one key for both.
SameKey(root, hosts) ==
    InitCert(root.key, root.key, hosts, FALSE, IntermediateUntil(root))

\* A possible bug: the intermediate lives as long as was asked.
NewIntermediateOutlives(root, hosts) ==
    InitCert(NewKey + 1, root.key, hosts, FALSE, clock + IntermediateLife)

NewIntermediate(root, hosts) ==
    InitCert(NewKey + 1, root.key, hosts, FALSE, IntermediateUntil(root))

\* `sink pki init` in a directory of its own.
PkiInit(list) ==
    LET hosts == ExactHosts(list)
        root == NewRoot(hosts)
    IN  /\ clock <= MaxMade \/ Issued = {}
        /\ Cardinality(inits) < MaxInits /\ Cardinality(Issued) + 2 <= MaxIssued
        /\ list # {} /\ Invalid \notin hosts
        /\ inits' = inits \union
              {[root |-> root, intermediate |-> NewIntermediate(root, hosts),
                hosts |-> hosts]}
        /\ Quiet
        /\ UNCHANGED <<clock, rotated, sink, trusted>>

\* "Use the offline root to issue a replacement intermediate" (the site's page
\* pki-and-enrollment), by hand: with a new key or one that exists, signed with
\* any key that exists or with its own, and otherwise as Rotations says.
Rotate(key, signer, like) ==
    /\ clock <= MaxMade \/ Issued = {}
    /\ Cardinality(rotated) < MaxRotations /\ Cardinality(Issued) + 1 <= MaxIssued
    /\ rotated' = rotated \union
          {[key |-> key, signer |-> signer,
            permitted |-> like.permitted, excluded |-> like.excluded,
            ca |-> like.ca, below |-> like.below, servers |-> like.servers,
            notBefore |-> WholeSeconds(clock + like.from),
            notAfter |-> WholeSeconds(clock + like.until)]}
    /\ Quiet
    /\ UNCHANGED <<clock, inits, sink, trusted>>

-------------------------------------------------------------------------------
(* serve, up to the issuer. *)

\* FilterHosts: what both certificates permit.
Effective(pem, patterns) ==
    {p \in patterns : /\ PatternAllowedByCertificate(pem.root, p)
                      /\ PatternAllowedByCertificate(pem.intermediate, p)}

\* intermediate.Verify with the root slot's certificate as the only root: that
\* certificate itself passes, and so does what it has signed, unless name and key
\* are its own.  Extended key usages are not asked for (ExtKeyUsageAny), nor is
\* there a leaf below to count the path length from.
VerifiesAgainst(cert, root) ==
    cert = root \/ (cert.signer = root.key /\ cert.key # root.key)

\* A possible bug: the intermediate is not held against the root.
LoadsUnchained(pem, hosts) ==
    /\ hosts # {}
    /\ pem.key = pem.intermediate.key
    /\ pem.root.ca /\ pem.intermediate.ca
    /\ pem.intermediate.notAfter <= pem.root.notAfter
    /\ ValidAt(pem.root, clock) /\ ValidAt(pem.intermediate, clock)
    /\ Effective(pem, hosts) = hosts

\* Load.
Loads(pem, hosts) ==
    /\ hosts # {}
    /\ pem.key = pem.intermediate.key
    /\ pem.root.ca /\ pem.intermediate.ca
    /\ pem.intermediate.notAfter <= pem.root.notAfter
    /\ ValidAt(pem.root, clock) /\ ValidAt(pem.intermediate, clock)
    /\ VerifiesAgainst(pem.intermediate, pem.root)
    /\ Effective(pem, hosts) = hosts

\* material reads what the operator has put there: any certificate in either
\* slot, any key in the third.
Mounted == [root : Issued, intermediate : Issued, key : Keys]

\* The three files of one `sink pki init`, each where it belongs.
FilesOf(i) == [root |-> i.root, intermediate |-> i.intermediate,
               key |-> i.intermediate.key]

\* The process serves what is left of its hosts, or ends.
Start(pem, configured) ==
    LET patterns == {NormalizePattern(h) : h \in configured}
        kept == Effective(pem, patterns)
        up == Invalid \notin patterns /\ kept # {} /\ Loads(pem, kept)
    IN  /\ sink = Down
        /\ start' = [of |-> {i \in inits : FilesOf(i) = pem}, hosts |-> patterns]
        /\ sink' = IF up
                   THEN [root |-> pem.root, intermediate |-> pem.intermediate,
                         hosts |-> kept, since |-> clock]
                   ELSE Down
        /\ shake' = None
        /\ UNCHANGED <<clock, files, trusted>>

\* The process ends; its cache and its leaves' keys end with it.
Stop == /\ sink # Down
        /\ sink' = Down
        /\ Quiet
        /\ UNCHANGED <<clock, files, trusted>>

-------------------------------------------------------------------------------
(* The device. *)

\* enroll.Handler: the user reads /install, downloads /ca.crt, /ca.pem or
\* /ca-chain.pem and installs what is in the root slot.  A sink that is started
\* anew with another one in between shows in the fingerprint the user compares.
Enroll ==
    /\ sink # Down
    /\ Cardinality(trusted) < MaxEnrolled
    /\ trusted' = trusted \union {sink.root}
    /\ Quiet
    /\ UNCHANGED <<clock, files, sink>>

InWindow(cert, time) == time >= cert.notBefore /\ time <= cert.notAfter

\* Name constraints as a device reads them.
Admits(cert, host) ==
    /\ cert.permitted # {} =>
          \E d \in cert.permitted : d \in Everything \/ DomainMatches(d, host)
    /\ \A d \in cert.excluded : d \notin Everything /\ ~DomainMatches(d, host)

\* What the strictest TLS client asks of a leaf that comes with the intermediate:
\* a chain to an installed root that is self-signed, or is the intermediate, and
\* that lets the leaf be what it is, as the intermediate does.
Accepts(host, leaf, time) ==
    \E anchor \in trusted :
        /\ anchor.signer = anchor.key
        /\ \/ anchor = sink.intermediate
           \/ /\ sink.intermediate.signer = anchor.key
              /\ sink.intermediate.key # anchor.key /\ anchor.below
        /\ \A c \in {anchor, sink.intermediate} :
              c.ca /\ c.servers /\ InWindow(c, time) /\ Admits(c, host)
        /\ InWindow(leaf, time)

\* Issuer.allows.
IssuerAllows(host) ==
    /\ HostAllowedByCertificate(sink.root, host)
    /\ HostAllowedByCertificate(sink.intermediate, host)
    /\ \E p \in sink.hosts : Matches(p, host)

\* The leaves that GetCertificate may hand out now: issued when the issuer
\* was ready, and not due for renewal unless issued just now.
LeavesOf(host) ==
    {leaf \in {Pki!IssuedLeaf(host, t) : t \in {t \in sink.since..clock : Pki!ReadyAt(t)}} :
        leaf = Pki!IssuedLeaf(host, clock) \/ ~Pki!NeedsRenewal(leaf, clock)}

Handshake(host, leaf, time) ==
    /\ sink # Down
    /\ IssuerAllows(host) /\ Pki!ReadyAt(clock)
    /\ leaf \in LeavesOf(host)
    /\ shake' = [inWindow |-> InWindow(sink.root, time)
                              /\ InWindow(sink.intermediate, time),
                 accepted |-> Accepts(host, leaf, time)]
    /\ start' = None
    /\ UNCHANGED <<clock, files, sink, trusted>>

TrustNext ==
    \/ Tick
    \/ \E list \in InitLists : PkiInit(list)
    \/ \E key \in Keys \union {NewKey}, like \in Rotations :
          \E signer \in Keys \union {key} : Rotate(key, signer, like)
    \/ \E pem \in Mounted, hosts \in Configurations : Start(pem, hosts)
    \/ Stop
    \/ Enroll
    \/ sink # Down /\ \E host \in ServerNames : \E leaf \in LeavesOf(host) :
          \E time \in (clock - Slow)..(clock + Fast) : Handshake(host, leaf, time)

TrustSpec == TrustInit /\ [][TrustNext]_trustVars

-------------------------------------------------------------------------------
(* Properties. *)

\* All certificates are signed with a key that exists, and Init gives the
\* intermediate one of its own, so that root.key can stay offline.
TrustTypeOK ==
    /\ clock \in 0..MaxClock
    /\ \A c \in Issued :
          /\ DOMAIN c = {"key", "signer", "permitted", "excluded", "ca", "below",
                         "servers", "notBefore", "notAfter"}
          /\ c.signer \in Keys
    /\ \A i \in inits : i.intermediate.key # i.root.key
    /\ trusted \subseteq Issued
    /\ sink # Down =>
          /\ sink.root \in Issued /\ sink.intermediate \in Issued
          /\ sink.hosts # {} /\ Invalid \notin sink.hosts
          /\ sink.since \in 0..clock

(***************************************************************************)
(* What Load does not look at: that the root slot's certificate is a root, *)
(* which intermediate.crt in both slots is not; that it lets there be a CA *)
(* below it; that both let their leaves be for servers; and that neither   *)
(* excludes every name.                                                    *)
(***************************************************************************)
LoadLooksPast(root, intermediate) ==
    \/ root.signer # root.key
    \/ ~root.below /\ intermediate # root
    \/ \E c \in {root, intermediate} : ~c.servers \/ c.excluded \intersect Everything # {}

(***************************************************************************)
(* A device that has installed the root that the sink serves under accepts *)
(* every certificate it is handed while it takes both CAs for valid,       *)
(* whatever was rotated, mounted or restarted since, and however slow or   *)
(* fast its clock is within what backdating and renewal absorb: except     *)
(* with a certificate that is wrong in one of the ways that Load looks     *)
(* past, and never for a chain, a constraint, a key or a leaf's window.    *)
(***************************************************************************)
EnrolledDeviceAccepts ==
    shake # None /\ sink.root \in trusted /\ shake.inWindow =>
        shake.accepted \/ LoadLooksPast(sink.root, sink.intermediate)

(***************************************************************************)
(* README.md's first steps: the files of one `sink pki init` start a sink, *)
(* at any time of the intermediate's life, and it leaves out none of the   *)
(* hosts that the CA was made for, the names and wildcards below included. *)
(***************************************************************************)
Covered(pattern, list) ==
    \E h \in list : Sample(pattern) = h \/ Below(Sample(pattern), h)

InitServesItsHosts ==
    start # None =>
        \A i \in start.of :
            /\ start.hosts # {}
            /\ \A p \in start.hosts : p # Invalid /\ Covered(p, i.hosts)
            /\ ValidAt(i.intermediate, clock)
            => sink.hosts = start.hosts

===============================================================================
