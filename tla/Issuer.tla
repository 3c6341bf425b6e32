-------------------------------- MODULE Issuer --------------------------------
(***************************************************************************)
(* pki.Issuer of src/internal/pki/pki.go: GetCertificate and the bounded   *)
(* cache of leaf certificates behind it.                                   *)
(*                                                                         *)
(* The cache is two structures that the code updates side by side: a map   *)
(* from host to list element, and a list in order of use.  Both are        *)
(* modelled, an element being the leaf it holds (a leaf names its host).   *)
(* GetCertificate holds i.mu from its first look at the issuer to its      *)
(* return, and reads the clock once inside, so one call is one action.     *)
(***************************************************************************)
EXTENDS Leaves, SequencesExt

CONSTANT CacheSize   (* i.cacheSize: the most leaves the cache keeps *)

\* Load replaces a size that is not positive by a default that is.
ASSUME CacheSizePositive == CacheSize \in Nat \ {0}

VARIABLES
    clock,     \* the wall clock that i.now reads
    high,      \* history: the furthest the wall clock has been
    cache,     \* i.cache: host -> the leaf of its list element, or NoLeaf
    lru,       \* i.lru: the leaves in the list, last used first
    answer,    \* what the last GetCertificate returned, or Silent
    served,    \* history: hosts whose last answer was a leaf
    since      \* history: the hosts answered with a leaf since that answer

history == <<served, since>>
vars == <<clock, high, cache, lru, answer, served, since>>

Init == /\ clock \in 0..MaxClock
        /\ ReadyAt(clock)          \* Load refuses CA certificates not valid now
        /\ high = clock
        /\ cache = [h \in Allowed |-> NoLeaf]
        /\ lru = <<>>
        /\ answer = Silent
        /\ served = {}
        /\ since = [h \in Allowed |-> {}]

-------------------------------------------------------------------------------
(* The environment's clock. *)

Tick == /\ clock < MaxClock
        /\ clock' = clock + 1
        /\ high' = IF clock' > high THEN clock' ELSE high
        /\ answer' = Silent
        /\ UNCHANGED <<cache, lru, history>>

\* The clock is set back, for example by a time synchronisation.
StepBack == /\ clock' \in (high - MaxSkew)..(clock - 1)
            /\ clock' >= 0
            /\ answer' = Silent
            /\ UNCHANGED <<high, cache, lru, history>>

-------------------------------------------------------------------------------
(* GetCertificate. *)

\* The position in the list of the element that the map holds for a host.
Position(host) == CHOOSE i \in DOMAIN lru : lru[i] = cache[host]

\* The list without the element of a host.
Unlinked(host) == RemoveAt(lru, Position(host))

Cached(host) == cache[host] # NoLeaf
Fresh(host) == Cached(host) /\ ~NeedsRenewal(cache[host], clock)

\* The two structures once an element that must be renewed has been dropped.
CacheWithout(host) == [cache EXCEPT ![host] = NoLeaf]
ListWithout(host) == IF Cached(host) THEN Unlinked(host) ELSE lru

\* History: host has just been answered with a leaf.
Remember(host) ==
    /\ served' = served \union {host}
    /\ since' = [h \in Allowed |-> IF h = host THEN {} ELSE since[h] \union {host}]

\* An SNI that is not an exact DNS name, or not a configured one.
Refuse(host) ==
    /\ host \notin Allowed
    /\ answer' = Returns(host, "refused", NoLeaf)
    /\ UNCHANGED <<clock, high, cache, lru, history>>

\* The root or the intermediate is not valid.
NotReady(host) ==
    /\ host \in Allowed
    /\ ~ReadyAt(clock)
    /\ answer' = Returns(host, "not ready", NoLeaf)
    /\ UNCHANGED <<clock, high, cache, lru, history>>

\* A possible bug: the element stays where it is in the list.
HitInPlace(host) ==
    /\ host \in Allowed
    /\ ReadyAt(clock)
    /\ Fresh(host)
    /\ answer' = Returns(host, "cached", cache[host])
    /\ Remember(host)
    /\ UNCHANGED <<clock, high, cache, lru>>

\* The cache has a leaf that need not be renewed: move it to the front.
Hit(host) ==
    /\ host \in Allowed
    /\ ReadyAt(clock)
    /\ Fresh(host)
    /\ lru' = <<cache[host]>> \o Unlinked(host)
    /\ answer' = Returns(host, "cached", cache[host])
    /\ Remember(host)
    /\ UNCHANGED <<clock, high, cache>>

\* A possible bug: the map keeps the element that the list has lost.
PushLeak(leaf, list, map) ==
    /\ lru' = IF Len(list) + 1 > CacheSize THEN Front(<<leaf>> \o list)
              ELSE <<leaf>> \o list
    /\ cache' = [map EXCEPT ![leaf.host] = leaf]

\* A possible bug: the bound is checked before the leaf is pushed.
PushLate(leaf, list, map) ==
    IF Len(list) > CacheSize
    THEN LET oldest == Last(<<leaf>> \o list)
         IN  /\ lru' = Front(<<leaf>> \o list)
             /\ cache' = [[map EXCEPT ![leaf.host] = leaf]
                                EXCEPT ![oldest.host] = NoLeaf]
    ELSE /\ lru' = <<leaf>> \o list
         /\ cache' = [map EXCEPT ![leaf.host] = leaf]

\* A leaf is issued and pushed to the front; past the size, the back goes.
Push(leaf, list, map) ==
    IF Len(list) + 1 > CacheSize
    THEN LET oldest == Last(<<leaf>> \o list)
         IN  /\ lru' = Front(<<leaf>> \o list)
             /\ cache' = [[map EXCEPT ![leaf.host] = leaf]
                                EXCEPT ![oldest.host] = NoLeaf]
    ELSE /\ lru' = <<leaf>> \o list
         /\ cache' = [map EXCEPT ![leaf.host] = leaf]

Issue(host) ==
    /\ host \in Allowed
    /\ ReadyAt(clock)
    /\ ~Fresh(host)
    /\ IssuedUntil(clock) > clock
    /\ Push(IssuedLeaf(host, clock), ListWithout(host), CacheWithout(host))
    /\ answer' = Returns(host, "issued", IssuedLeaf(host, clock))
    /\ Remember(host)
    /\ UNCHANGED <<clock, high>>

\* A possible bug: the error comes with the leaf that could not be renewed.
IssueFailsWithLeaf(host) ==
    /\ host \in Allowed
    /\ ReadyAt(clock)
    /\ ~Fresh(host)
    /\ lru' = ListWithout(host)
    /\ cache' = CacheWithout(host)
    /\ answer' = Returns(host, "failed", cache[host])
    /\ served' = served \ {host}
    /\ UNCHANGED <<clock, high, since>>

\* issue fails (serial, key or signature): the old element is gone already.
IssueFails(host) ==
    /\ host \in Allowed
    /\ ReadyAt(clock)
    /\ ~Fresh(host)
    /\ lru' = ListWithout(host)
    /\ cache' = CacheWithout(host)
    /\ answer' = Returns(host, "failed", NoLeaf)
    /\ served' = served \ {host}
    /\ UNCHANGED <<clock, high, since>>

GetCertificate(host) == \/ Refuse(host)
                        \/ NotReady(host)
                        \/ Hit(host)
                        \/ Issue(host)
                        \/ IssueFails(host)

\* CacheLen, which ops and the gauge read.
CacheLen == Len(lru)

Next == Tick \/ StepBack \/ \E host \in SNI : GetCertificate(host)

Spec == Init /\ [][Next]_vars

-------------------------------------------------------------------------------
(* Properties. *)

TypeOK ==
    /\ clock \in 0..MaxClock
    /\ high \in 0..MaxClock
    /\ cache \in [Allowed -> Leaf \union {NoLeaf}]
    /\ lru \in Seq(Leaf)
    /\ answer \in Answer \union {Silent}
    /\ served \subseteq Allowed
    /\ since \in [Allowed -> SUBSET Allowed]

\* A list and a map hold the same leaves, at most one for a host.
Agree(list, map) ==
    /\ \A i, j \in DOMAIN list : list[i].host = list[j].host => i = j
    /\ \A i \in DOMAIN list : map[list[i].host] = list[i]
    /\ \A h \in Allowed : map[h] # NoLeaf =>
          /\ map[h].host = h
          /\ \E i \in DOMAIN list : list[i] = map[h]

(***************************************************************************)
(* The map and the list describe the same cache after every call, hits,    *)
(* renewals, evictions and failed renewals alike: the list has one element *)
(* per host, it is the element the map holds, and the map holds no other.  *)
(***************************************************************************)
CacheCoherent == Agree(lru, cache)

\* The cache never holds more leaves than i.cacheSize.
CacheBounded == Len(lru) <= CacheSize

(***************************************************************************)
(* The cache is least-recently-used: a host that was answered with a leaf  *)
(* and has since lost its element was passed by at least CacheSize other   *)
(* hosts.  A host whose renewal failed is not promised anything.           *)
(***************************************************************************)
RecentlyUsedIsKept ==
    \A h \in served : ~Cached(h) => Cardinality(since[h]) >= CacheSize

(***************************************************************************)
(* GetCertificate behaves as LeafService says, whatever the cache does and *)
(* however the clock is set within MaxSkew: every leaf that is handed out  *)
(* is for the right host, valid now, within the CA, and renewed in time.   *)
(***************************************************************************)
Service == INSTANCE LeafService
ImplementsLeafService == Service!Spec

===============================================================================
