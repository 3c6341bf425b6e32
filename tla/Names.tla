--------------------------------- MODULE Names ---------------------------------
(***************************************************************************)
(* Host names and what three packages make of them: the normalisations of  *)
(* src/internal/profile and src/internal/pki, the wildcard patterns, and   *)
(* the name constraints of a CA certificate.                               *)
(*                                                                         *)
(* A name is the sequence of its labels, as strings.Split(name, ".") gives *)
(* it: the last label of a name with a trailing dot, and the first of a    *)
(* constraint with a leading dot, is "".  Labels are told apart by what    *)
(* the code asks of them.  White space and the limits of 63 and 253 bytes  *)
(* are left out.                                                           *)
(***************************************************************************)
EXTENDS Naturals, Sequences, SequencesExt

CONSTANTS
    Plain,      (* labels of lower-case letters, digits and inner dashes *)
    LowerCase,  (* function from labels with capitals to their lower case *)
    NonAscii    (* labels with a character above 127 *)

\* The label before a leading dot and behind a trailing one.
NoLabel == ""

ASSUME LabelClasses ==
    /\ Plain \union NonAscii \union {NoLabel, "*"} \subseteq STRING
    /\ "subdomain" \in Plain
    /\ {NoLabel, "*"} \intersect (Plain \union DOMAIN LowerCase \union NonAscii) = {}
    /\ Plain \intersect (DOMAIN LowerCase \union NonAscii) = {}
    /\ NonAscii \intersect DOMAIN LowerCase = {}
    /\ \A c \in DOMAIN LowerCase :
          LowerCase[c] \in STRING \ ({NoLabel, "*"} \union DOMAIN LowerCase)

\* What a normalisation returns with an error.
Invalid == <<>>

\* strings.Split gives at least one label, also of the empty string.
Name == Seq(STRING) \ {Invalid}

Lower(name) ==
    [i \in DOMAIN name |->
       IF name[i] \in DOMAIN LowerCase THEN LowerCase[name[i]] ELSE name[i]]

TrimDot(name) ==
    IF Len(name) > 1 /\ Last(name) = NoLabel THEN Front(name) ELSE name

\* profile.NormalizeHost: anything but the empty name and foreign characters.
NormalizeHost(name) ==
    LET host == Lower(TrimDot(name))
    IN  IF host = <<NoLabel>> \/ \E i \in DOMAIN host : host[i] \in NonAscii
        THEN Invalid ELSE host

\* pki's normalizeHost: only exact DNS names.
ExactHost(name) ==
    LET host == TrimDot(Lower(name))
    IN  IF \A i \in DOMAIN host : host[i] \in Plain THEN host ELSE Invalid

\* strings.CutPrefix(name, "*.").
IsWildcard(name) == Len(name) > 1 /\ Head(name) = "*"

\* pki's normalizePattern.
NormalizePattern(name) ==
    IF ~IsWildcard(name) THEN ExactHost(name)
    ELSE LET suffix == ExactHost(Tail(name))
         IN  IF suffix = Invalid THEN Invalid ELSE <<"*">> \o suffix

\* A possible bug: the comparison stops at no dot and takes the domain itself.
BelowOrEqual(host, suffix) ==
    /\ Len(host) >= Len(suffix)
    /\ SubSeq(host, Len(host) - Len(suffix) + 1, Len(host)) = suffix

\* strings.HasSuffix(host, "." + suffix).
Below(host, suffix) ==
    /\ Len(host) > Len(suffix)
    /\ SubSeq(host, Len(host) - Len(suffix) + 1, Len(host)) = suffix

\* routeHasHost, for one pattern of the route.
Matches(pattern, host) ==
    \/ pattern = host
    \/ IsWildcard(pattern) /\ Below(host, Tail(pattern))

\* profile.validateRoute, for one host: "*." once at most, and no "*" without it
\* at the beginning ("*.com.*" passes; pki refuses it as a host).
ValidHost(host) ==
    /\ NormalizeHost(host) = host
    /\ Cardinality({i \in 1..(Len(host) - 1) : host[i] = "*"}) <= 1
    /\ (\E i \in DOMAIN host : host[i] = "*") => IsWildcard(host)

-------------------------------------------------------------------------------
(* The name constraints: a certificate is what it permits and excludes. *)

DomainMatches(domain, host) ==
    LET d == Lower(TrimDot(domain))
    IN  IF Len(d) > 1 /\ Head(d) = NoLabel
        THEN Below(host, Tail(d))
        ELSE host = d \/ Below(host, d)

HostAllowedByCertificate(cert, host) ==
    /\ cert.permitted # {} => \E d \in cert.permitted : DomainMatches(d, host)
    /\ ~\E d \in cert.excluded : DomainMatches(d, host)

\* The host that stands for a pattern.
Sample(pattern) ==
    IF IsWildcard(pattern) THEN <<"subdomain">> \o Tail(pattern) ELSE pattern

PatternAllowedByCertificate(cert, pattern) ==
    HostAllowedByCertificate(cert, Sample(pattern))

===============================================================================
