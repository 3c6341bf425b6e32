----------------------------- MODULE IssuerProofs -----------------------------
(***************************************************************************)
(* Proofs about the issuer and its cache, for any names, windows,          *)
(* durations and cache size that the assumptions of Leaves and Issuer      *)
(* allow.                                                                  *)
(*                                                                         *)
(* The argument has one inductive invariant, CacheInv: the map and the     *)
(* list agree, the list is in order of use, and what a cached leaf was     *)
(* issued with still bounds it however the clock has moved since.          *)
(***************************************************************************)
EXTENDS Issuer, TLAPS, SequenceTheorems, FiniteSetTheorems

-------------------------------------------------------------------------------
(* Sequences: what the three list operations of the cache do to positions. *)

(***************************************************************************)
(* list.Remove: the elements behind the removed one move up by one.        *)
(***************************************************************************)
LEMMA RemoveAtElements ==
    ASSUME NEW T, NEW s \in Seq(T), NEW i \in 1..Len(s)
    PROVE  /\ RemoveAt(s, i) \in Seq(T)
           /\ Len(RemoveAt(s, i)) = Len(s) - 1
           /\ \A j \in 1..Len(s) - 1 :
                 RemoveAt(s, i)[j] = IF j < i THEN s[j] ELSE s[j + 1]
<1> DEFINE front == SubSeq(s, 1, i - 1)
           back == SubSeq(s, i + 1, Len(s))
<1>1. Len(s) \in Nat /\ \A j \in 1..Len(s) : s[j] \in T
  BY LenProperties, ElementOfSeq
<1>2. /\ front \in Seq(T)
      /\ Len(front) = i - 1
      /\ \A j \in 1..i - 1 : front[j] = s[j]
  <2>1. i - 1 \in Int /\ \A j \in 1..i - 1 : s[j] \in T
    BY <1>1
  <2>2. /\ front \in Seq(T)
        /\ Len(front) = IF 1 <= i - 1 THEN i - 1 - 1 + 1 ELSE 0
        /\ \A j \in 1..i - 1 - 1 + 1 : front[j] = s[1 + j - 1]
    BY <2>1, SubSeqProperties
  <2> QED BY <2>2, <1>1
<1>3. /\ back \in Seq(T)
      /\ Len(back) = Len(s) - i
      /\ \A j \in 1..Len(s) - i : back[j] = s[i + j]
  <2>1. i + 1 \in Int /\ Len(s) \in Int /\ \A j \in i + 1..Len(s) : s[j] \in T
    BY <1>1
  <2>2. /\ back \in Seq(T)
        /\ Len(back) = IF i + 1 <= Len(s) THEN Len(s) - (i + 1) + 1 ELSE 0
        /\ \A j \in 1..Len(s) - (i + 1) + 1 : back[j] = s[i + 1 + j - 1]
    BY <2>1, SubSeqProperties
  <2> QED BY <2>2, <1>1
<1> HIDE DEF front, back
<1>4. /\ front \o back \in Seq(T)
      /\ Len(front \o back) = Len(front) + Len(back)
      /\ \A j \in 1..Len(front) + Len(back) :
            (front \o back)[j] = IF j <= Len(front) THEN front[j]
                                 ELSE back[j - Len(front)]
  BY <1>2, <1>3, ConcatProperties
<1>5. RemoveAt(s, i) = front \o back
  BY DEF RemoveAt, front, back
<1>6. \A j \in 1..Len(s) - 1 :
         (front \o back)[j] = IF j < i THEN s[j] ELSE s[j + 1]
  <2> TAKE j \in 1..Len(s) - 1
  <2>1. CASE j < i
    BY <2>1, <1>1, <1>2, <1>3, <1>4
  <2>2. CASE ~(j < i)
    <3>1. j - (i - 1) \in 1..Len(s) - i /\ ~(j <= Len(front))
      BY <2>2, <1>1, <1>2
    <3>2. (front \o back)[j] = back[j - (i - 1)]
      BY <3>1, <1>1, <1>2, <1>3, <1>4
    <3> QED BY <3>1, <3>2, <2>2, <1>1, <1>3
  <2> QED BY <2>1, <2>2
<1>7. Len(front \o back) = Len(s) - 1
  BY <1>1, <1>2, <1>3, <1>4
<1> QED BY <1>4, <1>5, <1>6, <1>7

(***************************************************************************)
(* list.PushFront: every element moves back by one.                        *)
(***************************************************************************)
LEMMA PushFrontElements ==
    ASSUME NEW T, NEW s \in Seq(T), NEW e \in T
    PROVE  /\ <<e>> \o s \in Seq(T)
           /\ Len(<<e>> \o s) = Len(s) + 1
           /\ \A j \in 1..Len(s) + 1 :
                 (<<e>> \o s)[j] = IF j = 1 THEN e ELSE s[j - 1]
<1>1. <<e>> \in Seq(T) /\ Len(<<e>>) = 1 /\ <<e>>[1] = e /\ Len(s) \in Nat
  BY LenProperties
<1> DEFINE one == <<e>>
<1>2. /\ one \o s \in Seq(T)
      /\ Len(one \o s) = Len(one) + Len(s)
      /\ \A j \in 1..Len(one) + Len(s) :
            (one \o s)[j] = IF j <= Len(one) THEN one[j] ELSE s[j - Len(one)]
  BY <1>1, ConcatProperties
<1> QED BY <1>1, <1>2

(***************************************************************************)
(* Removing list.Back: the other elements stay where they are.             *)
(***************************************************************************)
LEMMA FrontElements ==
    ASSUME NEW T, NEW s \in Seq(T), Len(s) > 0
    PROVE  /\ Front(s) \in Seq(T)
           /\ Len(Front(s)) = Len(s) - 1
           /\ \A j \in 1..Len(s) - 1 : Front(s)[j] = s[j]
           /\ Last(s) = s[Len(s)]
<1> DEFINE n == Len(s) - 1
           front == SubSeq(s, 1, n)
<1>1. n \in Nat /\ \A j \in 1..n : s[j] \in T
  BY LenProperties, ElementOfSeq
<1>2. /\ front \in Seq(T)
      /\ Len(front) = IF 1 <= n THEN n - 1 + 1 ELSE 0
      /\ \A j \in 1..n - 1 + 1 : front[j] = s[1 + j - 1]
  BY <1>1, SubSeqProperties
<1>3. Front(s) = front /\ Last(s) = s[Len(s)]
  BY DEF Front, Last
<1> HIDE DEF front, n
<1>4. Len(front) = n /\ \A j \in 1..n : front[j] = s[j]
  BY <1>1, <1>2
<1>5. /\ front \in Seq(T)
      /\ Len(front) = Len(s) - 1
      /\ \A j \in 1..Len(s) - 1 : front[j] = s[j]
  BY <1>2, <1>4 DEF n
<1> QED BY <1>3, <1>5


-------------------------------------------------------------------------------
(* The cache: the two structures agree before and after each operation.    *)

\* Every host behind another in the list has seen that other one served.
InOrder(list, later) ==
    \A i, j \in DOMAIN list : j < i => list[j].host \in later[list[i].host]

\* What a leaf was issued with, no later than top, still bounds it.
Bounded(leaf, top) == /\ leaf.notBefore <= top - Backdate
                      /\ leaf.notAfter <= Intermediate.notAfter
                      /\ Lifetime(leaf) > Backdate

\* A list and a map that make a cache, given what has been served up to top.
Sound(list, map, later, hosts, top) ==
    /\ list \in Seq(Leaf)
    /\ map \in [Allowed -> Leaf \union {NoLeaf}]
    /\ Agree(list, map)
    /\ InOrder(list, later)
    /\ \A i \in DOMAIN list : Bounded(list[i], top) /\ list[i].host \in hosts

\* NoLeaf is told from every leaf by its host.
LEMMA NoLeafIsNoLeaf == NoLeaf \notin Leaf
BY NamesAllowed DEF NoLeaf, Leaf

(***************************************************************************)
(* The list's positions once the element of a host has been dropped: those *)
(* left are the old ones in the old order, and none is for that host.      *)
(***************************************************************************)
LEMMA ListWithoutElements ==
    ASSUME NEW host \in Allowed, lru \in Seq(Leaf), CacheCoherent,
           cache \in [Allowed -> Leaf \union {NoLeaf}]
    PROVE  /\ ListWithout(host) \in Seq(Leaf)
           /\ Len(ListWithout(host)) <= Len(lru)
           /\ Cached(host) => /\ ListWithout(host) = Unlinked(host)
                              /\ Len(ListWithout(host)) = Len(lru) - 1
           /\ \A j \in DOMAIN ListWithout(host) : ListWithout(host)[j].host # host
           /\ \A i \in DOMAIN lru : lru[i].host # host =>
                 \E j \in DOMAIN ListWithout(host) : ListWithout(host)[j] = lru[i]
           /\ \E at \in [DOMAIN ListWithout(host) -> DOMAIN lru] :
                 /\ \A j \in DOMAIN ListWithout(host) :
                       ListWithout(host)[j] = lru[at[j]]
                 /\ \A j, k \in DOMAIN ListWithout(host) : j < k => at[j] < at[k]
<1>1. /\ Len(lru) \in Nat
      /\ DOMAIN lru = 1..Len(lru)
      /\ \A i \in 1..Len(lru) : lru[i] \in Leaf /\ lru[i].host \in Allowed
  <2>1. \A i \in 1..Len(lru) : lru[i] \in Leaf
    BY ElementOfSeq
  <2>2. \A l \in Leaf : l.host \in Allowed
    BY DEF Leaf
  <2> QED BY <2>1, <2>2, LenProperties
<1>2. CASE ~Cached(host)
  <2>1. ListWithout(host) = lru
    BY <1>2 DEF ListWithout
  <2>2. \A j \in DOMAIN lru : lru[j].host # host
    BY <1>1, <1>2, NoLeafIsNoLeaf DEF CacheCoherent, Agree, Cached
  <2>3. [j \in DOMAIN lru |-> j] \in [DOMAIN lru -> DOMAIN lru]
    OBVIOUS
  <2>4. \E at \in [DOMAIN lru -> DOMAIN lru] :
           /\ \A j \in DOMAIN lru : lru[j] = lru[at[j]]
           /\ \A j, k \in DOMAIN lru : j < k => at[j] < at[k]
    <3> WITNESS [j \in DOMAIN lru |-> j] \in [DOMAIN lru -> DOMAIN lru]
    <3> QED OBVIOUS
  <2>5. Len(lru) <= Len(lru)
    BY <1>1
  <2>6. \A i \in DOMAIN lru : lru[i].host # host =>
           \E j \in DOMAIN lru : lru[j] = lru[i]
    OBVIOUS
  <2> QED BY <1>2, <2>1, <2>2, <2>4, <2>5, <2>6
<1>3. CASE Cached(host)
  <2> DEFINE p == Position(host)
             u == Unlinked(host)
             at == [j \in 1..Len(lru) - 1 |-> IF j < p THEN j ELSE j + 1]
  <2>1. p \in 1..Len(lru) /\ lru[p] = cache[host]
    <3>1. \E i \in DOMAIN lru : lru[i] = cache[host]
      BY <1>3 DEF Cached, CacheCoherent, Agree
    <3> QED BY <3>1, <1>1 DEF Position
  <2>2. lru[p].host = host
    BY <1>3, <2>1 DEF Cached, CacheCoherent, Agree
  <2>3. /\ u \in Seq(Leaf)
        /\ Len(u) = Len(lru) - 1
        /\ \A j \in 1..Len(lru) - 1 : u[j] = IF j < p THEN lru[j] ELSE lru[j + 1]
    BY <2>1, RemoveAtElements DEF Unlinked
  <2>4. ListWithout(host) = u
    BY <1>3 DEF ListWithout
  <2> HIDE DEF p, u
  <2>5. DOMAIN u = 1..Len(lru) - 1
    BY <2>3, LenProperties
  <2>6. at \in [DOMAIN u -> DOMAIN lru]
    BY <1>1, <2>1, <2>5
  <2>7. /\ \A j \in DOMAIN u : u[j] = lru[at[j]] /\ at[j] # p
        /\ \A j, k \in DOMAIN u : j < k => at[j] < at[k]
    BY <1>1, <2>1, <2>3, <2>5
  <2>8. \A j \in DOMAIN u : u[j].host # host
    <3>1. \A i \in DOMAIN lru : lru[i].host = host => i = p
      BY <1>1, <2>1, <2>2 DEF CacheCoherent, Agree
    <3> HIDE DEF at
    <3>2. \A j \in DOMAIN u : at[j] \in DOMAIN lru
      BY <2>6
    <3> QED BY <2>7, <3>1, <3>2
  <2>9. \A i \in DOMAIN lru : lru[i].host # host =>
           \E j \in DOMAIN u : u[j] = lru[i]
    <3> SUFFICES ASSUME NEW i \in DOMAIN lru, lru[i].host # host
                 PROVE  \E j \in DOMAIN u : u[j] = lru[i]
      OBVIOUS
    <3>1. i # p
      BY <2>2
    <3>2. CASE i < p
      <4>1. i \in DOMAIN u /\ u[i] = lru[i]
        BY <3>2, <1>1, <2>1, <2>3, <2>5
      <4> QED BY <4>1
    <3>3. CASE i > p
      <4>1. i - 1 \in DOMAIN u /\ u[i - 1] = lru[i]
        BY <3>3, <1>1, <2>1, <2>3, <2>5
      <4> QED BY <4>1
    <3> QED BY <3>1, <3>2, <3>3, <1>1, <2>1
  <2>10. \E f \in [DOMAIN u -> DOMAIN lru] :
           /\ \A j \in DOMAIN u : u[j] = lru[f[j]]
           /\ \A j, k \in DOMAIN u : j < k => f[j] < f[k]
    <3> HIDE DEF at
    <3> WITNESS at \in [DOMAIN u -> DOMAIN lru]
    <3> QED BY <2>7
  <2>11. Len(u) <= Len(lru) /\ u = Unlinked(host)
    BY <1>1, <2>3 DEF u
  <2> QED BY <1>3, <2>3, <2>4, <2>8, <2>9, <2>10, <2>11
<1> QED BY <1>2, <1>3

\* What a sequence of leaves is made of.
LEMMA LeavesOfList ==
    ASSUME NEW list \in Seq(Leaf)
    PROVE  /\ Len(list) \in Nat
           /\ DOMAIN list = 1..Len(list)
           /\ \A i \in 1..Len(list) : list[i] \in Leaf /\ list[i].host \in Allowed
<1>1. \A i \in 1..Len(list) : list[i] \in Leaf
  BY ElementOfSeq
<1>2. \A l \in Leaf : l.host \in Allowed
  BY DEF Leaf
<1> QED BY <1>1, <1>2, LenProperties

(***************************************************************************)
(* Dropping the element of a host, as a renewal does, leaves a cache.      *)
(***************************************************************************)
LEMMA DroppingIsSound ==
    ASSUME NEW host \in Allowed, NEW top,
           Sound(lru, cache, since, served, top)
    PROVE  /\ Sound(ListWithout(host), CacheWithout(host), since,
                    served \ {host}, top)
           /\ \A j \in DOMAIN ListWithout(host) : ListWithout(host)[j].host # host
<1> DEFINE w == ListWithout(host)
           m == CacheWithout(host)
<1>1. lru \in Seq(Leaf) /\ CacheCoherent /\ cache \in [Allowed -> Leaf \union {NoLeaf}]
  BY DEF Sound, CacheCoherent
<1>2. /\ w \in Seq(Leaf)
      /\ \A j \in DOMAIN w : w[j].host # host
      /\ \A i \in DOMAIN lru : lru[i].host # host => \E j \in DOMAIN w : w[j] = lru[i]
  BY <1>1, ListWithoutElements
<1>3. PICK at \in [DOMAIN w -> DOMAIN lru] :
         /\ \A j \in DOMAIN w : w[j] = lru[at[j]]
         /\ \A j, k \in DOMAIN w : j < k => at[j] < at[k]
  BY <1>1, ListWithoutElements
<1>4. DOMAIN w \subseteq Int /\ \A j \in DOMAIN w : w[j] \in Leaf /\ w[j].host \in Allowed
  BY <1>2, LeavesOfList
<1> HIDE DEF w
<1>5. m \in [Allowed -> Leaf \union {NoLeaf}]
  BY <1>1 DEF CacheWithout
<1>6. Agree(w, m)
  <2>1. \A i, j \in DOMAIN w : w[i].host = w[j].host => i = j
    <3> SUFFICES ASSUME NEW i \in DOMAIN w, NEW j \in DOMAIN w,
                        w[i].host = w[j].host, i # j
                 PROVE  FALSE
      OBVIOUS
    <3>1. at[i] = at[j]
      BY <1>1, <1>3 DEF CacheCoherent, Agree
    <3>2. at[i] < at[j] \/ at[j] < at[i]
      BY <1>3, <1>4
    <3>3. at[i] \in Int /\ at[j] \in Int
      BY <1>1, <1>3, LeavesOfList
    <3> QED BY <3>1, <3>2, <3>3
  <2>2. \A j \in DOMAIN w : m[w[j].host] = w[j]
    <3> SUFFICES ASSUME NEW j \in DOMAIN w PROVE m[w[j].host] = w[j]
      OBVIOUS
    <3>1. cache[w[j].host] = w[j]
      BY <1>1, <1>3 DEF CacheCoherent, Agree
    <3> QED BY <3>1, <1>1, <1>2, <1>4 DEF CacheWithout
  <2>3. \A h \in Allowed : m[h] # NoLeaf =>
           m[h].host = h /\ \E j \in DOMAIN w : w[j] = m[h]
    <3> SUFFICES ASSUME NEW h \in Allowed, m[h] # NoLeaf
                 PROVE  m[h].host = h /\ \E j \in DOMAIN w : w[j] = m[h]
      OBVIOUS
    <3>1. h # host /\ m[h] = cache[h]
      BY <1>1 DEF CacheWithout
    <3>2. cache[h].host = h /\ \E i \in DOMAIN lru : lru[i] = cache[h]
      BY <3>1, <1>1 DEF CacheCoherent, Agree
    <3> QED BY <3>1, <3>2, <1>2
  <2> HIDE DEF m
  <2> QED BY <2>1, <2>2, <2>3 DEF Agree
<1>7. InOrder(w, since)
  BY <1>3 DEF Sound, InOrder
<1>8. \A i \in DOMAIN w : Bounded(w[i], top) /\ w[i].host \in served \ {host}
  BY <1>2, <1>3 DEF Sound
<1> QED BY <1>2, <1>5, <1>6, <1>7, <1>8 DEF Sound, w

(***************************************************************************)
(* Pushing a leaf of a host that has no element leaves a cache, and the    *)
(* hosts behind it have seen that host served.                             *)
(***************************************************************************)
LEMMA PushingIsSound ==
    ASSUME NEW list, NEW map, NEW later, NEW hosts, NEW top,
           Sound(list, map, later, hosts, top),
           NEW leaf \in Leaf, Bounded(leaf, top),
           \A j \in DOMAIN list : list[j].host # leaf.host
    PROVE  Sound(<<leaf>> \o list, [map EXCEPT ![leaf.host] = leaf],
                 [h \in Allowed |-> IF h = leaf.host THEN {}
                                    ELSE later[h] \union {leaf.host}],
                 hosts \union {leaf.host}, top)
<1> DEFINE l == <<leaf>> \o list
           m == [map EXCEPT ![leaf.host] = leaf]
           r == [h \in Allowed |-> IF h = leaf.host THEN {}
                                   ELSE later[h] \union {leaf.host}]
<1>1. /\ list \in Seq(Leaf)
      /\ map \in [Allowed -> Leaf \union {NoLeaf}]
      /\ leaf.host \in Allowed
  BY DEF Sound, Leaf
<1>2. /\ Len(list) \in Nat
      /\ DOMAIN list = 1..Len(list)
      /\ \A i \in 1..Len(list) : list[i] \in Leaf /\ list[i].host \in Allowed
  BY <1>1, LeavesOfList
<1>3. /\ l \in Seq(Leaf)
      /\ Len(l) = Len(list) + 1
      /\ \A j \in 1..Len(list) + 1 : l[j] = IF j = 1 THEN leaf ELSE list[j - 1]
  BY <1>1, PushFrontElements
<1>4. DOMAIN l = 1..Len(list) + 1
  BY <1>3, LenProperties
<1> HIDE DEF l
<1>5. \A j \in DOMAIN l : \/ j = 1 /\ l[j] = leaf
                         \/ /\ j # 1 /\ j - 1 \in DOMAIN list
                            /\ l[j] = list[j - 1] /\ l[j].host # leaf.host
                            /\ l[j].host \in Allowed
  BY <1>2, <1>3, <1>4
<1>6. m \in [Allowed -> Leaf \union {NoLeaf}]
  BY <1>1
<1>7. Agree(l, m)
  <2>1. \A i, j \in DOMAIN l : l[i].host = l[j].host => i = j
    <3> SUFFICES ASSUME NEW i \in DOMAIN l, NEW j \in DOMAIN l,
                        l[i].host = l[j].host
                 PROVE  i = j
      OBVIOUS
    <3>1. CASE i = 1 \/ j = 1
      BY <3>1, <1>5
    <3>2. CASE i # 1 /\ j # 1
      <4>1. i - 1 = j - 1
        BY <3>2, <1>5 DEF Sound, Agree
      <4> QED BY <4>1, <1>2, <1>4
    <3> QED BY <3>1, <3>2
  <2>2. \A j \in DOMAIN l : m[l[j].host] = l[j]
    BY <1>1, <1>5 DEF Sound, Agree
  <2>3. \A h \in Allowed : m[h] # NoLeaf =>
           m[h].host = h /\ \E j \in DOMAIN l : l[j] = m[h]
    <3> SUFFICES ASSUME NEW h \in Allowed, m[h] # NoLeaf
                 PROVE  m[h].host = h /\ \E j \in DOMAIN l : l[j] = m[h]
      OBVIOUS
    <3>1. CASE h = leaf.host
      <4>1. 1 \in DOMAIN l /\ l[1] = leaf /\ m[h] = leaf
        BY <3>1, <1>1, <1>2, <1>3, <1>4
      <4> QED BY <4>1, <3>1
    <3>2. CASE h # leaf.host
      <4>1. m[h] = map[h]
        BY <3>2, <1>1
      <4>2. map[h].host = h /\ \E i \in DOMAIN list : list[i] = map[h]
        BY <4>1 DEF Sound, Agree
      <4>3. PICK i \in DOMAIN list : list[i] = map[h]
        BY <4>2
      <4>4. i + 1 \in DOMAIN l /\ l[i + 1] = list[i]
        BY <1>2, <1>3, <1>4
      <4> QED BY <4>1, <4>2, <4>3, <4>4
    <3> QED BY <3>1, <3>2
  <2> HIDE DEF m
  <2> QED BY <2>1, <2>2, <2>3 DEF Agree
<1>8. InOrder(l, r)
  <2> SUFFICES ASSUME NEW i \in DOMAIN l, NEW j \in DOMAIN l, j < i
               PROVE  l[j].host \in r[l[i].host]
    BY DEF InOrder
  <2>1. i # 1 /\ i - 1 \in DOMAIN list /\ l[i] = list[i - 1]
    BY <1>4, <1>5, <1>2
  <2>2. r[l[i].host] = later[list[i - 1].host] \union {leaf.host}
    BY <2>1, <1>5
  <2>3. CASE j = 1
    BY <2>2, <2>3, <1>5
  <2>4. CASE j # 1
    <3>1. /\ j - 1 \in DOMAIN list /\ l[j] = list[j - 1]
          /\ j - 1 < i - 1
      BY <2>4, <1>2, <1>4, <1>5
    <3> QED BY <2>1, <2>2, <3>1 DEF Sound, InOrder
  <2> QED BY <2>3, <2>4
<1>9. \A i \in DOMAIN l : Bounded(l[i], top) /\ l[i].host \in hosts \union {leaf.host}
  BY <1>5 DEF Sound
<1> HIDE DEF m, r
<1>10. Sound(l, m, r, hosts \union {leaf.host}, top)
  BY <1>3, <1>6, <1>7, <1>8, <1>9 DEF Sound
<1> QED BY <1>10 DEF l, m, r

(***************************************************************************)
(* Evicting the element at the back leaves a cache.                        *)
(***************************************************************************)
LEMMA EvictingIsSound ==
    ASSUME NEW list, NEW map, NEW later, NEW hosts, NEW top,
           Sound(list, map, later, hosts, top), Len(list) > 0
    PROVE  Sound(Front(list), [map EXCEPT ![Last(list).host] = NoLeaf],
                 later, hosts, top)
<1> DEFINE f == Front(list)
           last == list[Len(list)]
           m == [map EXCEPT ![last.host] = NoLeaf]
<1>1. list \in Seq(Leaf) /\ map \in [Allowed -> Leaf \union {NoLeaf}]
  BY DEF Sound
<1>2. /\ Len(list) \in Nat
      /\ DOMAIN list = 1..Len(list)
      /\ \A i \in 1..Len(list) : list[i] \in Leaf /\ list[i].host \in Allowed
  BY <1>1, LeavesOfList
<1>3. /\ f \in Seq(Leaf)
      /\ Len(f) = Len(list) - 1
      /\ \A j \in 1..Len(list) - 1 : f[j] = list[j]
      /\ Last(list) = last
  BY <1>1, FrontElements
<1>4. DOMAIN f = 1..Len(list) - 1
  BY <1>3, LenProperties
<1> HIDE DEF f
<1>5. Len(list) \in DOMAIN list /\ last.host \in Allowed
  BY <1>2
<1>6. \A j \in DOMAIN f : j \in DOMAIN list /\ f[j] = list[j] /\ f[j].host # last.host
  BY <1>2, <1>3, <1>4, <1>5 DEF Sound, Agree
<1>7. m \in [Allowed -> Leaf \union {NoLeaf}]
  BY <1>1
<1>8. Agree(f, m)
  <2>1. \A i, j \in DOMAIN f : f[i].host = f[j].host => i = j
    BY <1>6 DEF Sound, Agree
  <2>2. \A j \in DOMAIN f : m[f[j].host] = f[j]
    BY <1>1, <1>2, <1>6 DEF Sound, Agree
  <2>3. \A h \in Allowed : m[h] # NoLeaf =>
           m[h].host = h /\ \E j \in DOMAIN f : f[j] = m[h]
    <3> SUFFICES ASSUME NEW h \in Allowed, m[h] # NoLeaf
                 PROVE  m[h].host = h /\ \E j \in DOMAIN f : f[j] = m[h]
      OBVIOUS
    <3>1. h # last.host /\ m[h] = map[h]
      BY <1>1
    <3>2. map[h].host = h /\ \E i \in DOMAIN list : list[i] = map[h]
      BY <3>1 DEF Sound, Agree
    <3>3. PICK i \in DOMAIN list : list[i] = map[h]
      BY <3>2
    <3>4. i # Len(list)
      BY <3>1, <3>2, <3>3
    <3>5. i \in DOMAIN f /\ f[i] = list[i]
      BY <3>4, <1>2, <1>3, <1>4
    <3> QED BY <3>1, <3>2, <3>3, <3>5
  <2> HIDE DEF m, last
  <2> QED BY <2>1, <2>2, <2>3 DEF Agree
<1>9. InOrder(f, later)
  BY <1>6 DEF Sound, InOrder
<1>10. \A i \in DOMAIN f : Bounded(f[i], top) /\ f[i].host \in hosts
  BY <1>6 DEF Sound
<1> HIDE DEF m, last
<1>11. Sound(f, m, later, hosts, top)
  BY <1>3, <1>7, <1>8, <1>9, <1>10 DEF Sound
<1> QED BY <1>3, <1>11 DEF f, m

(***************************************************************************)
(* The element at the back of the list was passed by every other one.      *)
(***************************************************************************)
LEMMA BackWasPassed ==
    ASSUME NEW list, NEW map, NEW later, NEW hosts, NEW top,
           Sound(list, map, later, hosts, top), Len(list) > 0,
           IsFiniteSet(later[Last(list).host])
    PROVE  Cardinality(later[Last(list).host]) >= Len(list) - 1
<1> DEFINE n == Len(list) - 1
           passed == later[Last(list).host]
           f == [j \in 1..n |-> list[j].host]
<1>1. /\ Len(list) \in Nat
      /\ DOMAIN list = 1..Len(list)
      /\ Last(list) = list[Len(list)]
  BY LeavesOfList, FrontElements DEF Sound
<1>2. n \in Nat /\ Len(list) \in DOMAIN list /\ \A j \in 1..n : j \in DOMAIN list /\ j < Len(list)
  BY <1>1
<1>3. f \in [1..n -> passed]
  BY <1>1, <1>2 DEF Sound, InOrder
<1>4. \A i, j \in 1..n : f[i] = f[j] => i = j
  BY <1>2 DEF Sound, Agree
<1>5. f \in Injection(1..n, passed)
  BY <1>3, <1>4 DEF Injection, IsInjective
<1> HIDE DEF f, passed
<1>6. Cardinality(1..n) <= Cardinality(passed) /\ Cardinality(passed) \in Nat
  BY <1>5, FS_Injection, FS_CardinalityType DEF passed
<1>7. Cardinality(1..n) = n
  BY <1>2, FS_Interval
<1> QED BY <1>2, <1>6, <1>7 DEF passed, n

-------------------------------------------------------------------------------
(* Leaves: what issue puts into one, and what is left of it later on.      *)

\* Dropping the fraction of a second moves a time back by less than one.
LEMMA WholeSecondsBounds ==
    ASSUME NEW t \in Int
    PROVE  /\ WholeSeconds(t) \in Int
           /\ WholeSeconds(t) <= t
           /\ WholeSeconds(t) > t - Second
BY CertificatesLoaded DEF WholeSeconds

\* The CA that is loaded: whole seconds, and no end past the root's.
LEMMA CAWindows ==
    /\ Root.notBefore \in Int /\ Root.notAfter \in Int
    /\ Intermediate.notBefore \in Int /\ Intermediate.notAfter \in Int
    /\ Intermediate.notAfter <= Root.notAfter
BY CertificatesLoaded DEF Window

(***************************************************************************)
(* A leaf issued now is valid now and within the CA, and has a third of    *)
(* its life left unless it was cut to the CA's end.                        *)
(***************************************************************************)
LEMMA IssuedLeafBounds ==
    ASSUME NEW now \in Int, NEW host \in Allowed, IssuedUntil(now) > now
    PROVE  LET leaf == IssuedLeaf(host, now) IN
             /\ leaf \in Leaf
             /\ leaf.host = host
             /\ Bounded(leaf, now)
             /\ ValidAt(leaf, now)
             /\ \/ ~NeedsRenewal(leaf, now)
                \/ leaf.notAfter = Intermediate.notAfter
<1> DEFINE leaf == IssuedLeaf(host, now)
           until == IssuedUntil(now)
<1>1. /\ Second \in Nat \ {0}
      /\ Backdate \in Nat \ {0, 1} /\ LeafValidity \in Nat
      /\ 2 * LeafValidity >= Backdate + 4 * Second
  BY CertificatesLoaded, LeafDurations
<1>2. until \in Int /\ \/ until = Intermediate.notAfter
                       \/ /\ until = now + LeafValidity
                          /\ until <= Intermediate.notAfter
  BY <1>1, CAWindows DEF IssuedUntil, Earlier
<1>3. now - Backdate \in Int
  BY <1>1
<1>4. /\ leaf.host = host
      /\ leaf.notBefore = WholeSeconds(now - Backdate)
      /\ leaf.notAfter = WholeSeconds(until)
  BY DEF IssuedLeaf
<1>5. leaf \in Leaf
  BY <1>2, <1>3, WholeSecondsBounds DEF IssuedLeaf, Leaf
<1> DEFINE nb == WholeSeconds(now - Backdate)
           na == WholeSeconds(until)
<1>6. /\ nb \in Int /\ nb <= now - Backdate /\ nb > now - Backdate - Second
      /\ na \in Int /\ na <= until /\ na > until - Second
  BY <1>2, <1>3, WholeSecondsBounds
<1>7. until = Intermediate.notAfter => na = Intermediate.notAfter
  BY CertificatesLoaded
<1>8. until > now
  OBVIOUS
<1> HIDE DEF nb, na, until
<1>9. na > now /\ na <= Intermediate.notAfter
  BY <1>1, <1>2, <1>6, <1>7, <1>8, CAWindows
<1>10. na - nb > Backdate
  BY <1>1, <1>6, <1>9
<1>11. na # Intermediate.notAfter => ~(na - now < (na - nb) \div 3)
  <2> SUFFICES ASSUME na # Intermediate.notAfter
               PROVE  ~(na - now < (na - nb) \div 3)
    OBVIOUS
  <2>1. 3 * (na - now) >= na - nb
    BY <1>1, <1>2, <1>6, <1>7
  <2> QED BY <2>1, <1>1, <1>6
<1>12. leaf.notBefore = nb /\ leaf.notAfter = na
  BY <1>4 DEF nb, na, until
<1> HIDE DEF leaf
<1>13. Bounded(leaf, now) /\ ValidAt(leaf, now)
  BY <1>1, <1>6, <1>9, <1>10, <1>12 DEF Bounded, ValidAt, Lifetime
<1>14. ~NeedsRenewal(leaf, now) \/ leaf.notAfter = Intermediate.notAfter
  BY <1>11, <1>12 DEF NeedsRenewal, Lifetime
<1> QED BY <1>4, <1>5, <1>13, <1>14 DEF leaf

(***************************************************************************)
(* A cached leaf that need not be renewed is valid, even on a clock that   *)
(* has been set back since it was issued.                                  *)
(***************************************************************************)
LEMMA FreshLeafIsValid ==
    ASSUME NEW leaf \in Leaf, NEW top \in Int, NEW now \in Int,
           Bounded(leaf, top), top - now <= MaxSkew, ~NeedsRenewal(leaf, now)
    PROVE  ValidAt(leaf, now)
<1>1. leaf.notBefore \in Int /\ leaf.notAfter \in Int
  BY DEF Leaf
<1>2. leaf.notBefore <= now
  BY <1>1, LeafDurations, ClockSteps DEF Bounded
<1>3. leaf.notAfter - now >= 1
  <2>1. leaf.notAfter - leaf.notBefore >= 3
    BY <1>1, LeafDurations DEF Bounded, Lifetime
  <2>2. (leaf.notAfter - leaf.notBefore) \div 3 >= 1
    BY <1>1, <2>1
  <2>3. ~(leaf.notAfter - now < (leaf.notAfter - leaf.notBefore) \div 3)
    BY DEF NeedsRenewal, Lifetime
  <2>4. (leaf.notAfter - leaf.notBefore) \div 3 \in Int
    BY <1>1
  <2> QED BY <1>1, <2>2, <2>3, <2>4
<1> QED BY <1>1, <1>2, <1>3 DEF ValidAt

-------------------------------------------------------------------------------
(* The inductive invariant. *)

ClockInv == /\ clock \in 0..MaxClock
            /\ high \in 0..MaxClock
            /\ clock <= high
            /\ high - clock <= MaxSkew

HistoryInv == /\ served \subseteq Allowed
              /\ since \in [Allowed -> SUBSET Allowed]
              /\ \A h \in Allowed : IsFiniteSet(since[h])

CacheInv == /\ ClockInv
            /\ HistoryInv
            /\ Sound(lru, cache, since, served, high)
            /\ CacheBounded
            /\ RecentlyUsedIsKept

\* A cache stays one while the clock's maximum grows.
LEMMA SoundGrows ==
    ASSUME NEW list, NEW map, NEW later, NEW hosts, NEW top \in Int,
           NEW top2 \in Int, top <= top2, Sound(list, map, later, hosts, top)
    PROVE  Sound(list, map, later, hosts, top2)
<1>1. \A i \in DOMAIN list : list[i] \in Leaf
  BY LeavesOfList DEF Sound
<1>2. \A leaf \in Leaf : Bounded(leaf, top) => Bounded(leaf, top2)
  BY LeafDurations DEF Bounded, Leaf
<1> QED BY <1>1, <1>2 DEF Sound

LEMMA InitCacheInv == Init => CacheInv
<1> SUFFICES ASSUME Init PROVE CacheInv
  OBVIOUS
<1>1. ClockInv
  BY ClockSteps DEF Init, ClockInv
<1>2. HistoryInv
  BY FS_EmptySet DEF Init, HistoryInv
<1>3. Sound(lru, cache, since, served, high)
  BY DEF Init, Sound, Agree, InOrder
<1>4. CacheBounded
  BY CacheSizePositive DEF Init, CacheBounded
<1>5. RecentlyUsedIsKept
  BY DEF Init, RecentlyUsedIsKept
<1> QED BY <1>1, <1>2, <1>3, <1>4, <1>5 DEF CacheInv

\* Being answered with a leaf adds to every other host's passers.
LEMMA RememberKeepsHistory ==
    ASSUME NEW host \in Allowed, HistoryInv, Remember(host)
    PROVE  /\ HistoryInv'
           /\ \A h \in Allowed \ {host} : Cardinality(since[h]) <= Cardinality(since'[h])
           /\ \A h \in Allowed : Cardinality(since[h]) \in Nat /\ Cardinality(since'[h]) \in Nat
<1>1. served' \subseteq Allowed
  BY DEF HistoryInv, Remember
<1>2. since' \in [Allowed -> SUBSET Allowed]
  BY DEF HistoryInv, Remember
<1>3. \A h \in Allowed : since'[h] = IF h = host THEN {} ELSE since[h] \union {host}
  BY DEF Remember
<1>4. \A h \in Allowed : IsFiniteSet(since[h])
  BY DEF HistoryInv
<1>5. \A h \in Allowed : IsFiniteSet(since[h] \union {host})
  BY <1>4, FS_AddElement
<1>6. \A h \in Allowed : IsFiniteSet(since'[h])
  BY <1>3, <1>5, FS_EmptySet
<1>7. \A h \in Allowed : Cardinality(since[h]) \in Nat /\ Cardinality(since'[h]) \in Nat
  BY <1>4, <1>6, FS_CardinalityType
<1>8. \A h \in Allowed \ {host} : Cardinality(since[h]) <= Cardinality(since'[h])
  <2> TAKE h \in Allowed \ {host}
  <2>1. since[h] \in SUBSET (since'[h])
    BY <1>3
  <2> QED BY <1>6, <2>1, FS_Subset
<1> QED BY <1>1, <1>2, <1>6, <1>7, <1>8 DEF HistoryInv

LEMMA HitCacheInv ==
    ASSUME CacheInv, NEW host \in Allowed, Hit(host)
    PROVE  CacheInv'
<1> DEFINE leaf == cache[host]
           w == ListWithout(host)
           m == CacheWithout(host)
<1>1. ClockInv' /\ high' = high
  BY DEF Hit, CacheInv, ClockInv
<1>2. /\ HistoryInv'
      /\ \A h \in Allowed \ {host} : Cardinality(since[h]) <= Cardinality(since'[h])
      /\ \A h \in Allowed : Cardinality(since[h]) \in Nat /\ Cardinality(since'[h]) \in Nat
  BY RememberKeepsHistory DEF Hit, CacheInv
<1>3. Sound(lru, cache, since, served, high) /\ lru \in Seq(Leaf) /\ CacheCoherent
      /\ cache \in [Allowed -> Leaf \union {NoLeaf}]
  BY DEF CacheInv, Sound, CacheCoherent
<1>4. Cached(host)
  BY DEF Hit, Fresh
<1>5. leaf \in Leaf /\ leaf.host = host /\ \E i \in DOMAIN lru : lru[i] = leaf
  BY <1>3, <1>4 DEF Cached, CacheCoherent, Agree
<1>6. Bounded(leaf, high)
  BY <1>3, <1>5 DEF Sound
<1>7. Sound(w, m, since, served \ {host}, high) /\ \A j \in DOMAIN w : w[j].host # leaf.host
  BY <1>3, <1>5, DroppingIsSound
<1> DEFINE r == [h \in Allowed |-> IF h = leaf.host THEN {} ELSE since[h] \union {leaf.host}]
<1>8. Sound(<<leaf>> \o w, [m EXCEPT ![leaf.host] = leaf], r,
            (served \ {host}) \union {leaf.host}, high)
  <2> HIDE DEF w, m, leaf
  <2> QED BY <1>5, <1>6, <1>7, PushingIsSound
<1>9. /\ lru' = <<leaf>> \o w
      /\ Len(w) = Len(lru) - 1
  BY <1>3, <1>4, ListWithoutElements DEF Hit
<1>10. cache' = [m EXCEPT ![leaf.host] = leaf] /\ cache' = cache
  BY <1>3, <1>5 DEF Hit, CacheWithout
<1>11. since' = r /\ served' = (served \ {host}) \union {leaf.host}
  BY <1>5 DEF Hit, Remember
<1>12. Sound(lru, cache, since, served, high)'
  <2>1. Sound(lru', cache', since', served', high')
    <3> HIDE DEF leaf, w, m, r
    <3> QED BY <1>1, <1>8, <1>9, <1>10, <1>11
  <2> QED BY <2>1 DEF Sound, Agree, InOrder, Bounded, Lifetime
<1>13. CacheBounded'
  <2>1. w \in Seq(Leaf)
    BY <1>7 DEF Sound
  <2>2. Len(lru') = Len(w) + 1
    BY <2>1, <1>5, <1>9, PushFrontElements
  <2>3. Len(lru) \in Nat
    BY <1>3, LeavesOfList
  <2> QED BY <1>9, <2>2, <2>3 DEF CacheInv, CacheBounded
<1>14. RecentlyUsedIsKept'
  <2> SUFFICES ASSUME NEW h \in served', ~Cached(h)'
               PROVE  Cardinality(since'[h]) >= CacheSize
    BY DEF RecentlyUsedIsKept
  <2>1. h \in served /\ h # host /\ ~Cached(h) /\ h \in Allowed
    BY <1>4, <1>10, <1>2 DEF Hit, Remember, Cached, HistoryInv
  <2>2. Cardinality(since[h]) >= CacheSize
    BY <2>1 DEF CacheInv, RecentlyUsedIsKept
  <2> QED BY <1>2, <2>1, <2>2, CacheSizePositive
<1> QED BY <1>1, <1>2, <1>12, <1>13, <1>14 DEF CacheInv

LEMMA IssueCacheInv ==
    ASSUME CacheInv, NEW host \in Allowed, Issue(host)
    PROVE  CacheInv'
<1> DEFINE leaf == IssuedLeaf(host, clock)
           w == ListWithout(host)
           m == CacheWithout(host)
           l == <<leaf>> \o w
           p == [m EXCEPT ![leaf.host] = leaf]
           r == [h \in Allowed |-> IF h = leaf.host THEN {} ELSE since[h] \union {leaf.host}]
           hosts == (served \ {host}) \union {leaf.host}
<1>1. ClockInv' /\ high' = high
  BY DEF Issue, CacheInv, ClockInv
<1>2. /\ HistoryInv'
      /\ \A h \in Allowed \ {host} : Cardinality(since[h]) <= Cardinality(since'[h])
      /\ \A h \in Allowed : Cardinality(since[h]) \in Nat /\ Cardinality(since'[h]) \in Nat
  BY RememberKeepsHistory DEF Issue, CacheInv
<1>3. Sound(lru, cache, since, served, high) /\ lru \in Seq(Leaf) /\ CacheCoherent
      /\ cache \in [Allowed -> Leaf \union {NoLeaf}]
  BY DEF CacheInv, Sound, CacheCoherent
<1>4. clock \in Int /\ high \in Int /\ clock <= high
  BY DEF CacheInv, ClockInv
<1>5. leaf \in Leaf /\ leaf.host = host /\ Bounded(leaf, clock)
  BY <1>4, IssuedLeafBounds DEF Issue
<1>6. Bounded(leaf, high)
  BY <1>4, <1>5, LeafDurations DEF Bounded, Leaf
<1>7. Sound(w, m, since, served \ {host}, high) /\ \A j \in DOMAIN w : w[j].host # leaf.host
  BY <1>3, <1>5, DroppingIsSound
<1> HIDE DEF leaf, w, m
<1>8. Sound(l, p, r, hosts, high)
  BY <1>5, <1>6, <1>7, PushingIsSound
<1>9. w \in Seq(Leaf) /\ Len(w) \in Nat /\ Len(w) <= CacheSize /\ m \in [Allowed -> Leaf \union {NoLeaf}]
  <2>1. Len(w) <= Len(lru) /\ w \in Seq(Leaf)
    BY <1>3, ListWithoutElements DEF w
  <2>2. Len(w) \in Nat /\ Len(lru) \in Nat
    BY <2>1, <1>3, LeavesOfList
  <2> QED BY <2>1, <2>2, <1>7, CacheSizePositive DEF CacheInv, CacheBounded, Sound
<1>10. Len(l) = Len(w) + 1 /\ l \in Seq(Leaf)
  BY <1>5, <1>9, PushFrontElements
<1>11. since' = r /\ served' = hosts
  BY <1>5 DEF Issue, Remember
<1>12. Push(leaf, w, m)
  BY DEF Issue, leaf, w, m
<1>13. \A h \in Allowed : h # host => m[h] = cache[h]
  BY <1>3 DEF m, CacheWithout
<1> HIDE DEF l, r, hosts
<1>14. CASE Len(w) + 1 > CacheSize
  <2> DEFINE oldest == Last(l)
  <2>1. lru' = Front(l) /\ cache' = [p EXCEPT ![oldest.host] = NoLeaf]
    BY <1>12, <1>14 DEF Push, l
  <2>2. Len(l) = CacheSize + 1
    BY <1>9, <1>10, <1>14, CacheSizePositive
  <2>3. Sound(Front(l), [p EXCEPT ![oldest.host] = NoLeaf], r, hosts, high)
    <3>1. Len(l) > 0
      BY <2>2, CacheSizePositive
    <3> HIDE DEF p
    <3> QED BY <1>8, <3>1, EvictingIsSound
  <2>4. Sound(lru, cache, since, served, high)'
    BY <1>1, <1>11, <2>1, <2>3 DEF Sound, Agree, InOrder, Bounded, Lifetime
  <2>5. CacheBounded'
    BY <1>10, <2>1, <2>2, CacheSizePositive, FrontElements DEF CacheBounded
  <2>6. oldest.host \in Allowed
    <3>1. Len(l) > 0 /\ Len(l) \in 1..Len(l)
      BY <2>2, CacheSizePositive
    <3>2. oldest = l[Len(l)]
      BY <1>10, <3>1, FrontElements
    <3> QED BY <1>10, <3>1, <3>2, LeavesOfList
  <2>7. Cardinality(since'[oldest.host]) >= CacheSize
    <3>1. IsFiniteSet(r[oldest.host])
      BY <1>2, <1>11, <2>6 DEF HistoryInv
    <3>2. Cardinality(r[oldest.host]) >= Len(l) - 1
      BY <1>8, <2>2, <3>1, CacheSizePositive, BackWasPassed
    <3> QED BY <1>11, <2>2, <3>2, CacheSizePositive
  <2>8. RecentlyUsedIsKept'
    <3> SUFFICES ASSUME NEW h \in served', ~Cached(h)'
                 PROVE  Cardinality(since'[h]) >= CacheSize
      BY DEF RecentlyUsedIsKept
    <3>1. h \in Allowed
      BY <1>2 DEF HistoryInv
    <3>2. CASE h = oldest.host
      BY <2>7, <3>2
    <3>3. CASE h # oldest.host
      <4>1. cache'[h] = p[h] /\ cache'[h] = NoLeaf
        BY <1>9, <2>1, <3>1, <3>3 DEF Cached
      <4>2. h # host
        BY <4>1, <1>5, <1>9, <3>1, NoLeafIsNoLeaf
      <4>3. cache[h] = NoLeaf
        BY <4>1, <4>2, <1>5, <1>9, <1>13, <3>1
      <4>4. h \in served
        BY <4>2, <1>5, <1>11 DEF hosts
      <4>5. Cardinality(since[h]) >= CacheSize
        BY <4>3, <4>4 DEF CacheInv, RecentlyUsedIsKept, Cached
      <4> QED BY <1>2, <3>1, <4>2, <4>5, CacheSizePositive
    <3> QED BY <3>2, <3>3
  <2> QED BY <1>1, <1>2, <2>4, <2>5, <2>8 DEF CacheInv
<1>15. CASE ~(Len(w) + 1 > CacheSize)
  <2>1. lru' = l /\ cache' = p
    BY <1>12, <1>15 DEF Push, l
  <2>2. Sound(lru, cache, since, served, high)'
    BY <1>1, <1>8, <1>11, <2>1 DEF Sound, Agree, InOrder, Bounded, Lifetime
  <2>3. CacheBounded'
    BY <1>9, <1>10, <1>15, <2>1, CacheSizePositive DEF CacheBounded
  <2>4. RecentlyUsedIsKept'
    <3> SUFFICES ASSUME NEW h \in served', ~Cached(h)'
                 PROVE  Cardinality(since'[h]) >= CacheSize
      BY DEF RecentlyUsedIsKept
    <3>1. h \in Allowed /\ p[h] = NoLeaf
      BY <1>2, <2>1 DEF HistoryInv, Cached
    <3>2. h # host
      BY <3>1, <1>5, <1>9, NoLeafIsNoLeaf
    <3>3. cache[h] = NoLeaf
      BY <3>1, <3>2, <1>5, <1>9, <1>13
    <3>4. h \in served
      BY <3>2, <1>5, <1>11 DEF hosts
    <3>5. Cardinality(since[h]) >= CacheSize
      BY <3>3, <3>4 DEF CacheInv, RecentlyUsedIsKept, Cached
    <3> QED BY <1>2, <3>1, <3>2, <3>5, CacheSizePositive
  <2> QED BY <1>1, <1>2, <2>2, <2>3, <2>4 DEF CacheInv
<1> QED BY <1>14, <1>15

LEMMA IssueFailsCacheInv ==
    ASSUME CacheInv, NEW host \in Allowed, IssueFails(host)
    PROVE  CacheInv'
<1> DEFINE w == ListWithout(host)
           m == CacheWithout(host)
           hosts == served \ {host}
<1>1. ClockInv' /\ high' = high
  BY DEF IssueFails, CacheInv, ClockInv
<1>2. HistoryInv' /\ since' = since
  BY DEF IssueFails, CacheInv, HistoryInv
<1>3. Sound(lru, cache, since, served, high) /\ lru \in Seq(Leaf) /\ CacheCoherent
      /\ cache \in [Allowed -> Leaf \union {NoLeaf}]
  BY DEF CacheInv, Sound, CacheCoherent
<1>4. Sound(w, m, since, hosts, high)
  BY <1>3, DroppingIsSound
<1>5. lru' = w /\ cache' = m /\ served' = hosts
  BY DEF IssueFails
<1>6. Len(w) <= CacheSize
  <2>1. Len(w) <= Len(lru) /\ w \in Seq(Leaf)
    BY <1>3, ListWithoutElements
  <2>2. Len(w) \in Nat /\ Len(lru) \in Nat
    BY <2>1, <1>3, LeavesOfList
  <2> QED BY <2>1, <2>2, CacheSizePositive DEF CacheInv, CacheBounded
<1>7. \A h \in Allowed : h # host => m[h] = cache[h]
  BY <1>3 DEF CacheWithout
<1> HIDE DEF w, m
<1>8. Sound(lru, cache, since, served, high)'
  <2>1. Sound(lru', cache', since', served', high')
    BY <1>1, <1>2, <1>4, <1>5
  <2> QED BY <2>1 DEF Sound, Agree, InOrder, Bounded, Lifetime
<1>9. CacheBounded'
  BY <1>5, <1>6 DEF CacheBounded
<1>10. RecentlyUsedIsKept'
  <2> SUFFICES ASSUME NEW h \in served', ~Cached(h)'
               PROVE  Cardinality(since'[h]) >= CacheSize
    BY DEF RecentlyUsedIsKept
  <2>1. h \in served /\ h # host /\ h \in Allowed
    BY <1>2, <1>5 DEF HistoryInv
  <2>2. ~Cached(h)
    BY <2>1, <1>5, <1>7 DEF Cached
  <2> QED BY <2>1, <2>2, <1>2 DEF CacheInv, RecentlyUsedIsKept
<1> QED BY <1>1, <1>2, <1>8, <1>9, <1>10 DEF CacheInv

\* The clock's steps, and the calls that return before they reach the cache.
LEMMA UntouchedCacheInv ==
    ASSUME CacheInv, UNCHANGED <<cache, lru, history>>, ClockInv', high <= high'
    PROVE  CacheInv'
<1>1. high \in Int /\ high' \in Int
  BY DEF CacheInv, ClockInv
<1>2. Sound(lru, cache, since, served, high')
  BY <1>1, SoundGrows DEF CacheInv
<1>3. Sound(lru', cache', since', served', high')
  BY <1>2 DEF history
<1>4. Sound(lru, cache, since, served, high)'
  BY <1>3 DEF Sound, Agree, InOrder, Bounded, Lifetime
<1>5. HistoryInv'
  BY DEF CacheInv, HistoryInv, history
<1>6. CacheBounded' /\ RecentlyUsedIsKept'
  BY DEF CacheInv, CacheBounded, RecentlyUsedIsKept, Cached, history
<1> QED BY <1>4, <1>5, <1>6 DEF CacheInv

LEMMA ClockMovesKeepCache ==
    ASSUME CacheInv, Tick \/ StepBack
    PROVE  /\ ClockInv'
           /\ high <= high'
           /\ UNCHANGED <<cache, lru, history>>
           /\ high' = IF clock' > high THEN clock' ELSE high
<1>1. CASE Tick
  BY <1>1, ClockSteps DEF Tick, CacheInv, ClockInv
<1>2. CASE StepBack
  <2>1. /\ clock \in Int /\ high \in Int /\ MaxSkew \in Int /\ MaxClock \in Int
        /\ clock <= high /\ high <= MaxClock /\ high >= 0
    BY ClockSteps DEF CacheInv, ClockInv
  <2>2. /\ clock' \in Int /\ high - MaxSkew <= clock' /\ clock' <= clock - 1
        /\ clock' >= 0 /\ high' = high
    BY <1>2, <2>1 DEF StepBack
  <2>3. ClockInv'
    <3>1. clock' \in 0..MaxClock /\ clock' <= high
      BY <2>1, <2>2
    <3>2. high \in 0..MaxClock
      BY <2>1
    <3>3. \A a, b, c \in Int : a - c <= b => a - b <= c
      OBVIOUS
    <3>4. high - clock' <= MaxSkew
      BY <2>1, <2>2, <3>3
    <3> QED BY <2>2, <3>1, <3>2, <3>4 DEF ClockInv
  <2>4. high <= high' /\ ~(clock' > high)
    BY <2>1, <2>2
  <2> QED BY <1>2, <2>2, <2>3, <2>4 DEF StepBack
<1> QED BY <1>1, <1>2

LEMMA NextCacheInv == CacheInv /\ [Next]_vars => CacheInv'
<1> SUFFICES ASSUME CacheInv, [Next]_vars PROVE CacheInv'
  OBVIOUS
<1>1. CASE Tick \/ StepBack
  BY <1>1, ClockMovesKeepCache, UntouchedCacheInv
<1>2. ASSUME NEW host \in SNI, GetCertificate(host)
      PROVE  CacheInv'
  <2>1. ClockInv
    BY DEF CacheInv
  <2>2. CASE Refuse(host) \/ NotReady(host)
    <3>1. UNCHANGED <<clock, high, cache, lru, history>>
      BY <2>2 DEF Refuse, NotReady
    <3>2. ClockInv' /\ high <= high'
      BY <2>1, <3>1 DEF ClockInv
    <3> QED BY <3>1, <3>2, UntouchedCacheInv
  <2>3. CASE Hit(host)
    <3>1. host \in Allowed
      BY <2>3 DEF Hit
    <3> QED BY <2>3, <3>1, HitCacheInv
  <2>4. CASE Issue(host)
    <3>1. host \in Allowed
      BY <2>4 DEF Issue
    <3> QED BY <2>4, <3>1, IssueCacheInv
  <2>5. CASE IssueFails(host)
    <3>1. host \in Allowed
      BY <2>5 DEF IssueFails
    <3> QED BY <2>5, <3>1, IssueFailsCacheInv
  <2> QED BY <1>2, <2>2, <2>3, <2>4, <2>5 DEF GetCertificate
<1>3. CASE UNCHANGED vars
  <2>1. UNCHANGED <<clock, high, cache, lru, history>>
    BY <1>3 DEF vars, history
  <2>2. ClockInv' /\ high <= high'
    BY <2>1 DEF CacheInv, ClockInv
  <2> QED BY <2>1, <2>2, UntouchedCacheInv
<1> QED BY <1>1, <1>2, <1>3 DEF Next

LEMMA CacheInvariant == Spec => []CacheInv
BY InitCacheInv, NextCacheInv, PTL DEF Spec

-------------------------------------------------------------------------------
(* Theorems. *)

(***************************************************************************)
(* The map and the list of the cache agree after every call.               *)
(***************************************************************************)
THEOREM CacheIsCoherent == Spec => []CacheCoherent
<1>1. CacheInv => CacheCoherent
  BY DEF CacheInv, Sound, CacheCoherent
<1> QED BY <1>1, CacheInvariant, PTL

(***************************************************************************)
(* The cache never holds more than i.cacheSize leaves.                     *)
(***************************************************************************)
THEOREM CacheIsBounded == Spec => []CacheBounded
<1>1. CacheInv => CacheBounded
  BY DEF CacheInv
<1> QED BY <1>1, CacheInvariant, PTL

(***************************************************************************)
(* Only a host that CacheSize others have passed since loses its leaf to   *)
(* the bound of the cache.                                                 *)
(***************************************************************************)
THEOREM CacheIsLeastRecentlyUsed == Spec => []RecentlyUsedIsKept
<1>1. CacheInv => RecentlyUsedIsKept
  BY DEF CacheInv
<1> QED BY <1>1, CacheInvariant, PTL

\* The service speaks of the same leaves and the same CA.
LEMMA ServiceLeaves ==
    /\ Service!Answer = Answer
    /\ Service!Silent = Silent
    /\ Service!NoLeaf = NoLeaf
    /\ \A h, o, l : Service!Returns(h, o, l) = Returns(h, o, l)
    /\ \A t : Service!ReadyAt(t) <=> ReadyAt(t)
    /\ \A l, t : Service!ValidAt(l, t) <=> ValidAt(l, t)
    /\ \A l, t : Service!NeedsRenewal(l, t) <=> NeedsRenewal(l, t)
<1>1. Service!NoLeaf = NoLeaf /\ Service!Leaf = Leaf /\ Service!Outcome = Outcome
  BY DEF Service!NoLeaf, NoLeaf, Service!Leaf, Leaf, Service!Outcome, Outcome
<1>2. Service!Silent = Silent /\ Service!Answer = Answer
  BY <1>1 DEF Service!Silent, Silent, Service!Answer, Answer
<1>3. \A h, o, l : Service!Returns(h, o, l) = Returns(h, o, l)
  BY DEF Service!Returns, Returns
<1>4. \A l, t : Service!ValidAt(l, t) <=> ValidAt(l, t)
  BY DEF Service!ValidAt, ValidAt
<1>5. \A t : Service!ReadyAt(t) <=> ReadyAt(t)
  BY <1>4 DEF Service!ReadyAt, ReadyAt
<1>6. \A l, t : Service!NeedsRenewal(l, t) <=> NeedsRenewal(l, t)
  BY DEF Service!NeedsRenewal, NeedsRenewal, Service!Lifetime, Lifetime
<1> QED BY <1>1, <1>2, <1>3, <1>4, <1>5, <1>6

\* What GetCertificate returns to its caller.
LEMMA Answers ==
    ASSUME CacheInv, NEW host \in SNI, GetCertificate(host)
    PROVE  Service!Serve \/ Service!Decline
<1>1. CASE Refuse(host) \/ NotReady(host) \/ IssueFails(host)
  BY <1>1, ServiceLeaves DEF Refuse, NotReady, IssueFails, Service!Decline
<1>2. Intermediate.notAfter <= Root.notAfter /\ clock \in Int /\ high \in Int
      /\ high - clock <= MaxSkew /\ Root.notAfter \in Int /\ Intermediate.notAfter \in Int
  BY CAWindows, ClockSteps DEF CacheInv, ClockInv
<1>3. ASSUME NEW leaf \in Leaf, NEW outcome,
             outcome \in {"cached", "issued"}, host \in Allowed, leaf.host = host, ReadyAt(clock),
             ValidAt(leaf, clock), leaf.notAfter <= Intermediate.notAfter,
             ~NeedsRenewal(leaf, clock) \/ leaf.notAfter = Intermediate.notAfter,
             answer' = Returns(host, outcome, leaf), UNCHANGED <<clock, high>>
      PROVE  Service!Serve
  <2>1. leaf.notAfter \in Int
    BY DEF Leaf
  <2>2. leaf.notAfter <= Root.notAfter
    BY <1>2, <1>3, <2>1
  <2>3. answer' \in Answer
    BY <1>3, NoLeafIsNoLeaf DEF Answer, Outcome, Returns
  <2>4. answer'.host = host /\ answer'.outcome = outcome /\ answer'.leaf = leaf
    BY <1>3 DEF Returns
  <2>5. answer' \in Service!Promised(clock)
    BY <1>3, <2>2, <2>3, <2>4, ServiceLeaves DEF Service!Promised
  <2> QED BY <1>3, <2>5, ServiceLeaves DEF Service!Serve
<1>4. CASE Hit(host)
  <2> DEFINE leaf == cache[host]
  <2>1. /\ host \in Allowed /\ ReadyAt(clock) /\ ~NeedsRenewal(leaf, clock)
        /\ answer' = Returns(host, "cached", leaf) /\ UNCHANGED <<clock, high>>
        /\ leaf # NoLeaf
    BY <1>4 DEF Hit, Fresh, Cached
  <2>2. leaf \in Leaf /\ leaf.host = host /\ Bounded(leaf, high)
    BY <2>1 DEF CacheInv, Sound, Agree
  <2>3. ValidAt(leaf, clock)
    BY <1>2, <2>1, <2>2, FreshLeafIsValid
  <2> HIDE DEF leaf
  <2> QED BY <1>3, <2>1, <2>2, <2>3 DEF Bounded
<1>5. CASE Issue(host)
  <2> DEFINE leaf == IssuedLeaf(host, clock)
  <2>1. /\ host \in Allowed /\ ReadyAt(clock) /\ IssuedUntil(clock) > clock
        /\ answer' = Returns(host, "issued", leaf) /\ UNCHANGED <<clock, high>>
    BY <1>5 DEF Issue
  <2>2. /\ leaf \in Leaf /\ leaf.host = host /\ Bounded(leaf, clock)
        /\ ValidAt(leaf, clock)
        /\ ~NeedsRenewal(leaf, clock) \/ leaf.notAfter = Intermediate.notAfter
    BY <1>2, <2>1, IssuedLeafBounds
  <2> HIDE DEF leaf
  <2> QED BY <1>3, <2>1, <2>2 DEF Bounded
<1> QED BY <1>1, <1>4, <1>5 DEF GetCertificate

(***************************************************************************)
(* The issuer with its cache implements the service without one: every     *)
(* leaf it hands out is for the right host, valid, within the CA and       *)
(* renewed in time.                                                        *)
(***************************************************************************)
THEOREM IssuerImplementsLeafService == Spec => ImplementsLeafService
<1>1. Init => Service!Init
  BY ServiceLeaves DEF Init, Service!Init
<1>2. CacheInv /\ CacheInv' /\ [Next]_vars => [Service!Next]_(Service!vars)
  <2> SUFFICES ASSUME CacheInv, CacheInv', [Next]_vars
               PROVE  [Service!Next]_(Service!vars)
    OBVIOUS
  <2>1. CASE Tick \/ StepBack
    <3>1. ClockInv' /\ high' = IF clock' > high THEN clock' ELSE high
      BY <2>1, ClockMovesKeepCache
    <3>2. answer' = Silent
      BY <2>1 DEF Tick, StepBack
    <3> QED BY <3>1, <3>2, ServiceLeaves DEF ClockInv, Service!ClockMoves, Service!Next
  <2>2. ASSUME NEW host \in SNI, GetCertificate(host)
        PROVE  Service!Serve \/ Service!Decline
    BY <2>2, Answers
  <2>3. CASE UNCHANGED vars
    BY <2>3 DEF vars, Service!vars
  <2> QED BY <2>1, <2>2, <2>3 DEF Next, Service!Next
<1> QED BY <1>1, <1>2, CacheInvariant, PTL
        DEF Spec, ImplementsLeafService, Service!Spec

(***************************************************************************)
(* Every variable of the issuer has its type.                              *)
(***************************************************************************)
THEOREM IssuerTypeOK == Spec => []TypeOK
<1> DEFINE Answered == answer \in Answer \union {Silent}
<1>1. Init => Answered
  BY DEF Init
<1>2. CacheInv /\ Answered /\ [Next]_vars => Answered'
  <2> SUFFICES ASSUME CacheInv, Answered, [Next]_vars PROVE Answered'
    OBVIOUS
  <2>1. CASE Tick \/ StepBack
    BY <2>1 DEF Tick, StepBack
  <2>2. ASSUME NEW host \in SNI, GetCertificate(host)
        PROVE  Answered'
    <3>1. CASE Service!Serve
      BY <3>1, ServiceLeaves DEF Service!Serve, Service!Promised
    <3>2. CASE Service!Decline
      <4>1. PICK h \in SNI, outcome \in {"refused", "not ready", "failed"} :
               answer' = Returns(h, outcome, NoLeaf)
        BY <3>2, ServiceLeaves DEF Service!Decline
      <4> QED BY <4>1, NoLeafIsNoLeaf DEF Returns, Answer, Outcome
    <3> QED BY <2>2, <3>1, <3>2, Answers
  <2>3. CASE UNCHANGED vars
    BY <2>3 DEF vars
  <2> QED BY <2>1, <2>2, <2>3 DEF Next
<1>3. CacheInv /\ Answered => TypeOK
  BY DEF CacheInv, ClockInv, HistoryInv, Sound, TypeOK
<1> QED BY <1>1, <1>2, <1>3, CacheInvariant, PTL DEF Spec

===============================================================================
