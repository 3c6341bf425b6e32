-------------------------------- MODULE Metrics --------------------------------
(***************************************************************************)
(* The request metrics (src/internal/metrics/metrics.go) as the goroutines *)
(* of the sink handler call them: Request, then SiteRequest, then          *)
(* UpstreamRequest (ServeHTTP and respond in src/internal/sink/sink.go).   *)
(*                                                                         *)
(* Two counters have labels that clients choose: the site of the Referer   *)
(* and the host and path asked for.  A table of bounded size, behind one   *)
(* mutex, decides which of them are counted by name and which as "other";  *)
(* the counter itself is incremented after the mutex has been released.    *)
(***************************************************************************)
EXTENDS Naturals, FiniteSets, FiniteSetsExt

CONSTANTS
    Worker,        (* goroutines that serve requests *)
    Site,          (* what refererHost makes of a Referer *)
    Upstream,      (* pairs of host and path *)
    SitesEnabled,  (* metrics.sites.enabled *)
    SitesMax,      (* metrics.sites.max *)
    UpstreamsMax,  (* metrics.upstreams.max *)
    Arising,       (* bound of the model: the results that requests have *)
    MaxRequests    (* bound of the model: requests that may begin *)

\* The reserved labels; "unknown" is refererHost's answer to anything odd.
Other == "other"
Unknown == "unknown"

(***************************************************************************)
(* A Referer may name a site "other" or "unknown"; a path begins with a    *)
(* slash, so no request is for the pair that stands for the others.        *)
(***************************************************************************)
ASSUME Labels == Other \notin Upstream

\* Config.Validate refuses limits below one.
ASSUME Limits == /\ SitesEnabled \in BOOLEAN
                 /\ SitesMax \in Nat \ {0}
                 /\ UpstreamsMax \in Nat \ {0}

Result == {"matched", "unknown_host", "unknown_path", "method_not_allowed"}

(***************************************************************************)
(* A Referer and a path are parts of a request header, which http.Server   *)
(* limits in size: there are many of them, but finitely many.  So are the  *)
(* goroutines that a process has at a time.                                *)
(***************************************************************************)
ASSUME FinitelyMany ==
    IsFiniteSet(Worker) /\ IsFiniteSet(Site) /\ IsFiniteSet(Upstream)

ASSUME RequestsBounded == MaxRequests \in Nat /\ Arising \subseteq Result

\* The two labelled counters, what clients may ask of each and its limit.
Vec == {"site", "upstream"}
Asked(v) == IF v = "site" THEN Site \union {Unknown} ELSE Upstream
Limit(v) == IF v = "site" THEN SitesMax ELSE UpstreamsMax
Name == Site \union {Unknown, Other} \union Upstream

\* Site labels that need no place in the table.
Reserved(v) == IF v = "site" THEN {Unknown, Other} ELSE {}

VARIABLES
    pc,        \* where a worker is
    wanted,    \* the names that its request wants counted
    result,    \* the result of its request
    label,     \* the label that the table has granted it
    mutex,     \* m.mutex: the worker that holds it, or Free
    table,     \* m.sites and m.upstreams
    requests,  \* ars_requests_total by result
    count,     \* ars_site_requests_total and ars_upstream_requests_total
    begun,     \* history: requests that have begun
    spilled    \* history: names that have been counted as "other"

\* The values of a worker without a request.
Nothing == [site |-> Unknown, upstream |-> Other]

local == <<wanted, result>>
vars == <<pc, local, label, mutex, table, requests, count, begun, spilled>>

Free == "free"
ASSUME FreeIsNoWorker == Free \notin Worker

Init == /\ pc = [w \in Worker |-> <<"idle", "site">>]
        /\ wanted = [w \in Worker |-> Nothing]
        /\ result = [w \in Worker |-> "matched"]
        /\ label = [w \in Worker |-> Other]
        /\ mutex = Free
        /\ table = [v \in Vec |-> {}]
        /\ requests = [r \in Result |-> 0]
        /\ count = [v \in Vec |-> [n \in Name |-> [r \in Result |-> 0]]]
        /\ begun = 0
        /\ spilled = [v \in Vec |-> {}]

Goes(w, from, to) == pc[w] = from /\ pc' = [pc EXCEPT ![w] = to]

\* Counter.Inc of one of the series of a counter, and WithLabelValues(...).Inc.
Inc(series, r) == [series EXCEPT ![r] = @ + 1]
IncWith(counter, n, r) == [counter EXCEPT ![n] = Inc(@, r)]

Quiet == \A w \in Worker : pc[w][1] = "idle"

-------------------------------------------------------------------------------

\* A request reaches the handler, which finds the result.
Begin(w) ==
    /\ begun < MaxRequests
    /\ begun' = begun + 1
    /\ Goes(w, <<"idle", "site">>, <<"request", "site">>)
    /\ \E r \in Arising, s \in Asked("site"), u \in Asked("upstream") :
          /\ result' = [result EXCEPT ![w] = r]
          /\ wanted' = [wanted EXCEPT ![w] = [site |-> s, upstream |-> u]]
    /\ UNCHANGED <<label, mutex, table, requests, count, spilled>>

\* A possible bug: sites are counted for every result.
RequestAnyResult(w) ==
    /\ Goes(w, <<"request", "site">>,
            <<"lock", IF SitesEnabled THEN "site" ELSE "upstream">>)
    /\ requests' = Inc(requests, result[w])
    /\ UNCHANGED <<local, label, mutex, table, count, begun, spilled>>

\* Request; SiteRequest returns at once unless it is enabled for this result.
Request(w) ==
    /\ Goes(w, <<"request", "site">>,
            <<"lock", IF SitesEnabled /\ result[w] = "matched"
                      THEN "site" ELSE "upstream">>)
    /\ requests' = Inc(requests, result[w])
    /\ UNCHANGED <<local, label, mutex, table, count, begun, spilled>>

\* A possible bug: the tables are used without the mutex.
NoLock(w, v) == /\ Goes(w, <<"lock", v>>, <<"look", v>>)
                /\ mutex' = w
                /\ UNCHANGED <<local, label, table, requests, count, begun, spilled>>

Lock(w, v) == /\ Goes(w, <<"lock", v>>, <<"look", v>>)
              /\ mutex = Free
              /\ mutex' = w
              /\ UNCHANGED <<local, label, table, requests, count, begun, spilled>>

Known(v, name) == name \in Reserved(v) \/ name \in table[v]

Full(v) == Cardinality(table[v]) >= Limit(v)

\* A possible bug: a full table makes an "other" of a name that it holds.
GrantFullFirst(w, v) ==
    /\ mutex = w
    /\ Full(v) \/ Known(v, wanted[w][v])
    /\ Goes(w, <<"look", v>>, <<"count", v>>)
    /\ label' = [label EXCEPT ![w] = IF Full(v) THEN Other ELSE wanted[w][v]]
    /\ mutex' = Free
    /\ UNCHANGED <<local, table, requests, count, begun, spilled>>

\* The name is known, or the table is full and it becomes "other"; unlock.
Grant(w, v) ==
    /\ mutex = w
    /\ Full(v) \/ Known(v, wanted[w][v])
    /\ Goes(w, <<"look", v>>, <<"count", v>>)
    /\ label' = [label EXCEPT ![w] =
                   IF Known(v, wanted[w][v]) THEN wanted[w][v] ELSE Other]
    /\ mutex' = Free
    /\ UNCHANGED <<local, table, requests, count, begun, spilled>>

\* The table has a place for the name.
Admit(w, v) ==
    /\ mutex = w
    /\ ~Full(v) /\ ~Known(v, wanted[w][v])
    /\ Goes(w, <<"look", v>>, <<"add", v>>)
    /\ UNCHANGED <<local, label, mutex, table, requests, count, begun, spilled>>

\* The name goes into the table; unlock.
Add(w, v) ==
    /\ Goes(w, <<"add", v>>, <<"count", v>>)
    /\ table' = [table EXCEPT ![v] = @ \union {wanted[w][v]}]
    /\ label' = [label EXCEPT ![w] = wanted[w][v]]
    /\ mutex' = Free
    /\ UNCHANGED <<local, requests, count, begun, spilled>>

\* After the last counter the handler answers, and its locals are gone.
Leave(w, v) ==
    /\ label' = [label EXCEPT ![w] = Other]
    /\ IF v = "site" THEN UNCHANGED local
       ELSE /\ wanted' = [wanted EXCEPT ![w] = Nothing]
            /\ result' = [result EXCEPT ![w] = "matched"]

\* A possible bug: a request is counted by what it asked for.
CountWanted(w, v) ==
    /\ Goes(w, <<"count", v>>,
            IF v = "site" THEN <<"lock", "upstream">> ELSE <<"idle", "site">>)
    /\ count' = [count EXCEPT ![v] = IncWith(@, wanted[w][v], result[w])]
    /\ spilled' = [spilled EXCEPT ![v] =
                     IF label[w] = Other THEN @ \union {wanted[w][v]} ELSE @]
    /\ Leave(w, v)
    /\ UNCHANGED <<mutex, table, requests, begun>>

\* WithLabelValues(...).Inc(), outside the mutex.  Only matched requests get
\* to the sites, whose counter has no label for the result.
Count(w, v) ==
    /\ Goes(w, <<"count", v>>,
            IF v = "site" THEN <<"lock", "upstream">> ELSE <<"idle", "site">>)
    /\ count' = [count EXCEPT ![v] = IncWith(@, label[w], result[w])]
    /\ spilled' = [spilled EXCEPT ![v] =
                     IF label[w] = Other THEN @ \union {wanted[w][v]} ELSE @]
    /\ Leave(w, v)
    /\ UNCHANGED <<mutex, table, requests, begun>>

Step(w) == \/ Request(w)
           \/ \E v \in Vec : Lock(w, v) \/ Grant(w, v) \/ Admit(w, v)
                             \/ Add(w, v) \/ Count(w, v)

Over == begun = MaxRequests /\ Quiet /\ UNCHANGED vars

Next == Over \/ \E w \in Worker : Begin(w) \/ Step(w)

Spec == Init /\ [][Next]_vars

-------------------------------------------------------------------------------
(* Properties. *)

Point == {"idle", "request", "lock", "look", "add", "count"}

TypeOK ==
    /\ pc \in [Worker -> Point \X Vec]
    /\ wanted \in [Worker -> [site : Name, upstream : Name]]
    /\ result \in [Worker -> Result]
    /\ label \in [Worker -> Name]
    /\ mutex \in Worker \union {Free}
    /\ \A w \in Worker : pc[w][1] \in {"look", "add"} <=> mutex = w
    /\ table \in [Vec -> SUBSET Name]
    /\ requests \in [Result -> Nat]
    /\ count \in [Vec -> [Name -> [Result -> Nat]]]
    /\ begun \in 0..MaxRequests
    /\ spilled \in [Vec -> SUBSET Name]

\* Two requests that both find the last place free do not both take it.
TablesBounded == \A v \in Vec : Cardinality(table[v]) <= Limit(v)

(***************************************************************************)
(* No more labels are exported than the limit and the reserved ones allow: *)
(* a table stays within it, and what is counted by name is in the table.   *)
(***************************************************************************)
LabelsAreBounded ==
    /\ TablesBounded
    /\ \A v \in Vec : \A n \in Name \ Reserved(v) :
          (\E r \in Result : count[v][n][r] > 0) => n \in table[v] \union {Other}

(***************************************************************************)
(* A name is counted by itself or as "other", never once this way and once *)
(* that, however its first requests interleave with those that fill the    *)
(* table: a rate over one of the labels means something.                   *)
(***************************************************************************)
NeverSplit ==
    \A v \in Vec : spilled[v] \intersect (table[v] \ Reserved(v)) = {}

Total(v, r) == MapThenSumSet(LAMBDA n : count[v][n][r], Name)

\* Requests of result r that are counted, and whose v-label is not yet.
Between(v, r) ==
    {w \in Worker : /\ result[w] = r
                    /\ pc[w][1] \in {"lock", "look", "add", "count"}
                    /\ v = "upstream" \/ pc[w][2] = "site"}

(***************************************************************************)
(* The three counters agree: a request is in each of them once, except for *)
(* those that are just being counted.                                      *)
(***************************************************************************)
CountersAgree ==
    \A r \in Result :
        /\ requests[r] = Total("upstream", r) + Cardinality(Between("upstream", r))
        /\ Total("site", r) = IF SitesEnabled /\ r = "matched"
                              THEN requests[r] - Cardinality(Between("site", r))
                              ELSE 0

===============================================================================
