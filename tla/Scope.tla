--------------------------------- MODULE Scope ---------------------------------
(***************************************************************************)
(* Which names the sink serves.  At startup the configured hosts pass      *)
(* Config.Validate, pki.FilterHosts and pki.Load; then three matchers      *)
(* decide about every name: the gate in front of handshakes and requests   *)
(* (src/internal/sink), the issuer (src/internal/pki) and the router       *)
(* (src/internal/profile).                                                 *)
(*                                                                         *)
(* One client connection is followed: its ClientHello and its requests.    *)
(* Everything is immutable after startup, so connections do not interact.  *)
(* The CA is ready (see Issuer), and its key and chain are right.          *)
(***************************************************************************)
EXTENDS Names, FiniteSetsExt

CONSTANTS
    HostLists,     (* what may be configured as hosts: sets of names *)
    Certificates,  (* name constraints of a CA: [permitted, excluded] *)
    RouteTables,   (* routes of the enabled profiles, in their order *)
    Asked,         (* names that clients ask for *)
    Paths,         (* request paths *)
    Methods        (* request methods *)

ASSUME NamesHaveLabels ==
    /\ \A list \in HostLists : list \subseteq Name
    /\ \A cert \in Certificates : cert.permitted \union cert.excluded \subseteq Name
    /\ Asked \subseteq Name

RouteOf == [hosts : SUBSET Name \ {{}}, path : STRING,
            methods : SUBSET STRING \ {{}}, cors : BOOLEAN]

\* Nothing else gets past validateRoute.
ASSUME RoutesAreValid ==
    /\ RouteTables \subseteq Seq(RouteOf)
    /\ \A table \in RouteTables : \A i \in DOMAIN table :
          \A h \in table[i].hosts : ValidHost(h)

VARIABLES
    phase,         \* how far startup has come
    configured,    \* history: the hosts of the configuration, or of the routes
    hosts,         \* cfg.Hosts
    skipped,       \* hosts left out for the name constraints
    root,          \* the root certificate
    intermediate,  \* the intermediate certificate
    routes,        \* the router's routes
    conn,          \* the host that the connection has a leaf for, or Invalid
    asked,         \* the last name asked for, or Invalid
    at,            \* the path of the last request
    answer,        \* how it was answered
    offered        \* the methods of the answer's Allow header

setup == <<configured, root, intermediate, routes>>
connection == <<conn, asked, at, answer, offered>>
vars == <<phase, hosts, skipped, setup, connection>>

Init == /\ phase = "config"
        /\ configured = {} /\ skipped = {}
        /\ hosts \in HostLists
        /\ root \in Certificates /\ intermediate \in Certificates
        /\ routes \in RouteTables
        /\ conn = Invalid /\ asked = Invalid /\ at = "none"
        /\ answer = "none" /\ offered = {}

-------------------------------------------------------------------------------
(* Startup. *)

RouteHosts == UNION {routes[i].hosts : i \in DOMAIN routes}

RouteHasHost(i, host) == \E p \in routes[i].hosts : Matches(p, host)

\* ProfileMatchesHost, for some enabled profile.
Provided(host) == \E i \in DOMAIN routes : RouteHasHost(i, host)

\* A possible bug: hosts that no profile provides are taken.
ValidateNotProvided ==
    LET given == IF hosts = {} THEN RouteHosts ELSE hosts
        normal == {NormalizeHost(h) : h \in given}
    IN  /\ phase = "config"
        /\ phase' = IF Invalid \in normal THEN "invalid" ELSE "valid"
        /\ configured' = given
        /\ hosts' = IF phase' = "valid" THEN normal ELSE hosts
        /\ UNCHANGED <<skipped, root, intermediate, routes, connection>>

\* Config.Validate: without a list of its own, the profiles' hosts are taken.
Validate ==
    LET given == IF hosts = {} THEN RouteHosts ELSE hosts
        normal == {NormalizeHost(h) : h \in given}
    IN  /\ phase = "config"
        /\ phase' = IF Invalid \in normal \/ \E h \in normal : ~Provided(h)
                    THEN "invalid" ELSE "valid"
        /\ configured' = given
        /\ hosts' = IF phase' = "valid" THEN normal ELSE hosts
        /\ UNCHANGED <<skipped, root, intermediate, routes, connection>>

\* Both CAs permit the pattern.
Permitted(pattern) == /\ PatternAllowedByCertificate(root, pattern)
                      /\ PatternAllowedByCertificate(intermediate, pattern)

\* A possible bug: the error of normalizePattern is lost.
FilterInvalid ==
    LET patterns == {NormalizePattern(h) : h \in hosts}
        kept == {p \in patterns : Permitted(p)}
    IN  /\ phase = "valid"
        /\ phase' = IF kept = {} THEN "none permitted" ELSE "filtered"
        /\ hosts' = kept /\ skipped' = patterns \ kept
        /\ UNCHANGED <<setup, connection>>

\* A possible bug: hosts that are left out are not reported.
FilterSilently ==
    LET patterns == {NormalizePattern(h) : h \in hosts}
        kept == {p \in patterns \ {Invalid} : Permitted(p)}
    IN  /\ phase = "valid"
        /\ phase' = IF kept = {} THEN "none permitted" ELSE "filtered"
        /\ hosts' = kept
        /\ UNCHANGED <<skipped, setup, connection>>

\* effectiveHosts and FilterHosts: patterns outside the constraints are left
\* out, an invalid one or an empty rest refuses the start.
Filter ==
    LET patterns == {NormalizePattern(h) : h \in hosts}
        kept == {p \in patterns \ {Invalid} : Permitted(p)}
    IN  /\ phase = "valid"
        /\ \/ /\ Invalid \in patterns
              /\ phase' = "unknown pattern"
              /\ UNCHANGED <<hosts, skipped>>
           \/ /\ Invalid \notin patterns
              /\ phase' = IF kept = {} THEN "none permitted" ELSE "filtered"
              /\ hosts' = kept /\ skipped' = patterns \ kept
        /\ UNCHANGED <<setup, connection>>

\* pki.Load checks the hosts once more; the rest of serve has no say in them.
Load ==
    LET patterns == {NormalizePattern(h) : h \in hosts}
    IN  /\ phase = "filtered"
        /\ phase' = IF \A p \in patterns : p # Invalid /\ Permitted(p)
                    THEN "serving" ELSE "load failed"
        /\ UNCHANGED <<hosts, skipped, setup, connection>>

-------------------------------------------------------------------------------
(* Handshakes. *)

\* A possible bug: the gate takes what the profiles have, not what is configured.
AllowedByRoutes(host) == Provided(host)

\* sink's allowedHost: the gate of handshakes and of requests.
AllowedHost(host) == \E p \in hosts : Matches(p, host)

\* Issuer.allows.
Allows(host) ==
    /\ HostAllowedByCertificate(root, host)
    /\ HostAllowedByCertificate(intermediate, host)
    /\ \/ host \in hosts
       \/ \E p \in hosts : IsWildcard(p) /\ Below(host, Tail(p))

\* TLSConfig's callback and Issuer.GetCertificate for the server name.
Answer(name) ==
    LET host == NormalizeHost(name)
        exact == ExactHost(name)
    IN  IF host = Invalid \/ ~AllowedHost(host) THEN "unknown_sni"
        ELSE IF exact = Invalid \/ ~Allows(exact) THEN "other"
        ELSE "certified"

Hello(name) ==
    /\ phase = "serving" /\ asked = Invalid
    /\ asked' = name
    /\ answer' = Answer(name)
    /\ conn' = IF answer' = "certified" THEN ExactHost(name) ELSE Invalid
    /\ UNCHANGED <<phase, hosts, skipped, setup, at, offered>>

-------------------------------------------------------------------------------
(* Requests. *)

\* Routes of the host and the path.
PathRoutes(host, path) ==
    {i \in DOMAIN routes : RouteHasHost(i, host) /\ routes[i].path = path}

Serves(i, method) == method \in routes[i].methods

\* Router.Match; without a match the route is the last one of the path.
Match(host, method, path) ==
    LET found == PathRoutes(host, path)
        serving == {i \in found : Serves(i, method)}
    IN  IF serving # {} THEN [result |-> "matched", route |-> Min(serving)]
        ELSE IF found # {} THEN [result |-> "method_not_allowed", route |-> Max(found)]
        ELSE [result |-> IF Provided(host) THEN "unknown_path" ELSE "unknown_host",
              route |-> 0]

\* A possible bug: OPTIONS is offered by every route.
AllowOptions(i) == routes[i].methods \union {"OPTIONS"}

Allow(i) == routes[i].methods \union (IF routes[i].cors THEN {"OPTIONS"} ELSE {})

\* ServeHTTP: the status, and the methods of the Allow header.
Response(name, method, path) ==
    LET host == NormalizeHost(name)
        match == Match(host, method, path)
    IN  CASE host = Invalid \/ ~AllowedHost(host) ->
               [answer |-> "misdirected", offered |-> {}]
          [] match.result = "unknown_host" -> [answer |-> "misdirected", offered |-> {}]
          [] match.result = "unknown_path" -> [answer |-> "not found", offered |-> {}]
          [] match.result = "matched" -> [answer |-> "served", offered |-> {}]
          [] OTHER ->
               [answer |-> IF method = "OPTIONS" /\ routes[match.route].cors
                           THEN "preflight" ELSE "not allowed",
                offered |-> Allow(match.route)]

Request(name, method, path) ==
    /\ conn # Invalid
    /\ asked' = name /\ at' = path
    /\ LET r == Response(name, method, path)
       IN  answer' = r.answer /\ offered' = r.offered
    /\ UNCHANGED <<phase, hosts, skipped, setup, conn>>

HangUp == /\ asked # Invalid
          /\ conn' = Invalid /\ asked' = Invalid
          /\ at' = "none" /\ answer' = "none" /\ offered' = {}
          /\ UNCHANGED <<phase, hosts, skipped, setup>>

Next == \/ Validate \/ Filter \/ Load \/ HangUp
        \/ \E name \in Asked :
              \/ Hello(name)
              \/ \E m \in Methods, p \in Paths : Request(name, m, p)

Spec == Init /\ [][Next]_vars

-------------------------------------------------------------------------------
(* Properties. *)

Phase == {"config", "invalid", "valid", "unknown pattern", "none permitted",
          "filtered", "load failed", "serving"}

TypeOK ==
    /\ phase \in Phase
    /\ root \in Certificates /\ intermediate \in Certificates
    /\ routes \in RouteTables
    /\ asked \in Asked \union {Invalid} /\ at \in Paths \union {"none"}
    /\ answer \in {"none", "unknown_sni", "other", "certified", "misdirected",
                   "not found", "not allowed", "preflight", "served"}
    /\ conn # Invalid => phase = "serving" /\ ExactHost(conn) = conn
    /\ phase \in {"filtered", "serving"} =>
          /\ hosts # {}
          /\ \A h \in hosts \union skipped : h # Invalid /\ NormalizePattern(h) = h

\* Reference: a host and all domains above it.
Lineage(host) == {SubSeq(host, i, Len(host)) : i \in DOMAIN host}

\* Reference: a name in lower case, without a dot before and behind it.
Bare(name) ==
    SubSeq(Lower(name), IF Head(name) = NoLabel THEN 2 ELSE 1,
                        IF Last(name) = NoLabel THEN Len(name) - 1 ELSE Len(name))

\* Reference: the host is in the domain of a constraint; a leading dot leaves
\* the domain itself out.
InDomain(domain, host) ==
    Bare(domain) \in IF Head(domain) = NoLabel THEN Lineage(host) \ {host} ELSE Lineage(host)

Within(cert, host) ==
    /\ cert.permitted = {} \/ \E d \in cert.permitted : InDomain(d, host)
    /\ \A d \in cert.excluded : ~InDomain(d, host)

\* Reference: an entry of the configuration names the host, or a domain above.
ConfiguredFor(host) ==
    \E c \in configured :
        \/ Bare(c) = host
        \/ Head(c) = "*" /\ Tail(Bare(c)) \in Lineage(host) \ {host}

(***************************************************************************)
(* A leaf is only issued for a host that the configuration names and that  *)
(* both CAs permit, however names and constraints are spelled.             *)
(***************************************************************************)
CertifiedInScope ==
    conn # Invalid => /\ Within(root, conn) /\ Within(intermediate, conn)
                      /\ ConfiguredFor(conn)

(***************************************************************************)
(* A client that got a leaf for a host and asks for that host is never     *)
(* told that it came to the wrong server (421), whichever way it spells    *)
(* the host: gate and router know every host that the issuer certifies.    *)
(***************************************************************************)
OwnHostIsKnown ==
    (conn # Invalid /\ NormalizeHost(asked) = conn) => answer # "misdirected"

(***************************************************************************)
(* The gate lets a name through that the issuer refuses, which is counted  *)
(* as "other", only where a pattern is wider than what can be certified.   *)
(***************************************************************************)
OtherMeansUncertifiable ==
    answer = "other" =>
        LET host == NormalizeHost(asked)
        IN  /\ ConfiguredFor(host)
            /\ \/ \E i \in DOMAIN host : host[i] \notin Plain
               \/ ~Within(root, host) \/ ~Within(intermediate, host)

(***************************************************************************)
(* Startup sorts the configured hosts into those it keeps and those it     *)
(* reports as skipped (on /status) and loses none; Load, which checks them *)
(* again, refuses nothing that FilterHosts has kept; and every kept host   *)
(* can be certified, and no skipped one.  "subdomain" stands for the hosts *)
(* of a pattern.                                                           *)
(***************************************************************************)
StartupSortsHosts ==
    /\ phase # "load failed"
    /\ phase = "serving" =>
          /\ hosts \union skipped = {NormalizePattern(h) : h \in configured}
          /\ \A h \in hosts : Answer(Sample(h)) = "certified"
          /\ \A h \in skipped : Answer(Sample(h)) # "certified"

\* Every method that an Allow header offers is served for that host and path.
AllowIsHonest ==
    \A m \in offered : Response(asked, m, at).answer \in {"served", "preflight"}

\* What src/site/content/why-go.md says: the sink refuses to start when a
\* configured host is outside the name constraints.  The code leaves it out.
RefusesHostsOutside == phase = "serving" => skipped = {}

===============================================================================
