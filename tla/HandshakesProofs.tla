--------------------------- MODULE HandshakesProofs ---------------------------
(***************************************************************************)
(* Proofs about the connections that share one issuer, for any set of      *)
(* connections, any issuer and any number of handshakes.                   *)
(*                                                                         *)
(* A handshake is counted when it begins and when it ends, and the set of  *)
(* those in between is finite.  Whoever has had no company since it was    *)
(* let in has read the size that the cache still has.                      *)
(***************************************************************************)
EXTENDS Handshakes, Sequences, FiniteSetTheorems, TLAPS

IP == INSTANCE IssuerProofs

-------------------------------------------------------------------------------
(* The issuer. *)

\* The issuer's operators, as Handshakes and as IssuerProofs know them.
LEMMA SameLeaves ==
  /\ Pki!NoLeaf = IP!NoLeaf /\ Pki!Silent = IP!Silent
  /\ \A now : Pki!ReadyAt(now) <=> IP!ReadyAt(now)
  /\ \A leaf, now : Pki!NeedsRenewal(leaf, now) <=> IP!NeedsRenewal(leaf, now)
  /\ \A now : Pki!IssuedUntil(now) = IP!IssuedUntil(now)
  /\ \A host, now : Pki!IssuedLeaf(host, now) = IP!IssuedLeaf(host, now)
  /\ \A host, result, leaf :
        Pki!Returns(host, result, leaf) = IP!Returns(host, result, leaf)
<1>1. Pki!NoLeaf = IP!NoLeaf
  BY DEF Pki!NoLeaf, IP!NoLeaf
<1>2. Pki!Silent = IP!Silent
  BY <1>1 DEF Pki!Silent, IP!Silent
<1>3. \A now : Pki!ReadyAt(now) <=> IP!ReadyAt(now)
  BY DEF Pki!ReadyAt, IP!ReadyAt, Pki!ValidAt, IP!ValidAt
<1>4. \A leaf, now : Pki!NeedsRenewal(leaf, now) <=> IP!NeedsRenewal(leaf, now)
  BY DEF Pki!NeedsRenewal, IP!NeedsRenewal, Pki!Lifetime, IP!Lifetime
<1>5. \A now : Pki!IssuedUntil(now) = IP!IssuedUntil(now)
  BY DEF Pki!IssuedUntil, IP!IssuedUntil, Pki!Earlier, IP!Earlier
<1>6. \A host, now : Pki!IssuedLeaf(host, now) = IP!IssuedLeaf(host, now)
  BY <1>5 DEF Pki!IssuedLeaf, IP!IssuedLeaf, Pki!WholeSeconds, IP!WholeSeconds
<1>7. \A host, result, leaf :
        Pki!Returns(host, result, leaf) = IP!Returns(host, result, leaf)
  BY DEF Pki!Returns, IP!Returns
<1> QED BY <1>1, <1>2, <1>3, <1>4, <1>5, <1>6, <1>7

LEMMA SameLists ==
  /\ \A host : Pki!Cached(host) <=> IP!Cached(host)
  /\ \A host : Pki!Fresh(host) <=> IP!Fresh(host)
  /\ \A host : Pki!CacheWithout(host) = IP!CacheWithout(host)
  /\ \A host : Pki!Unlinked(host) = IP!Unlinked(host)
  /\ \A host : Pki!ListWithout(host) = IP!ListWithout(host)
<1>1. \A host : Pki!Cached(host) <=> IP!Cached(host)
  BY SameLeaves DEF Pki!Cached, IP!Cached
<1>2. \A host : Pki!Fresh(host) <=> IP!Fresh(host)
  BY <1>1, SameLeaves DEF Pki!Fresh, IP!Fresh
<1>3. \A host : Pki!CacheWithout(host) = IP!CacheWithout(host)
  BY SameLeaves DEF Pki!CacheWithout, IP!CacheWithout
<1>4. \A host : Pki!Unlinked(host) = IP!Unlinked(host)
  BY DEF Pki!Unlinked, IP!Unlinked, Pki!Position, IP!Position,
         Pki!RemoveAt, IP!RemoveAt
<1>5. \A host : Pki!ListWithout(host) = IP!ListWithout(host)
  BY <1>1, <1>4 DEF Pki!ListWithout, IP!ListWithout
<1> QED BY <1>1, <1>2, <1>3, <1>4, <1>5

LEMMA SamePush ==
  ASSUME NEW leaf, NEW list, NEW map
  PROVE Pki!Push(leaf, list, map) <=> IP!Push(leaf, list, map)
  BY SameLeaves DEF Pki!Push, IP!Push, Pki!Last, IP!Last, Pki!Front, IP!Front

LEMMA SameInit == Pki!Init => IP!Init
  BY SameLeaves DEF Pki!Init, IP!Init

LEMMA SameCall ==
  ASSUME NEW host
  PROVE  Pki!GetCertificate(host) <=> IP!GetCertificate(host)
<1>1. Pki!Refuse(host) <=> IP!Refuse(host)
  BY SameLeaves DEF Pki!Refuse, IP!Refuse, Pki!history, IP!history
<1>2. Pki!NotReady(host) <=> IP!NotReady(host)
  BY SameLeaves DEF Pki!NotReady, IP!NotReady, Pki!history, IP!history
<1>0. Pki!Remember(host) <=> IP!Remember(host)
  BY DEF Pki!Remember, IP!Remember
<1>3. Pki!Hit(host) <=> IP!Hit(host)
  BY <1>0, SameLeaves, SameLists DEF Pki!Hit, IP!Hit
<1>4. Pki!Issue(host) <=> IP!Issue(host)
  BY <1>0, SameLeaves, SameLists, SamePush DEF Pki!Issue, IP!Issue
<1>5. Pki!IssueFails(host) <=> IP!IssueFails(host)
  BY SameLeaves, SameLists DEF Pki!IssueFails, IP!IssueFails
<1> QED BY <1>1, <1>2, <1>3, <1>4, <1>5
        DEF Pki!GetCertificate, IP!GetCertificate

LEMMA SameNext == Pki!Next <=> IP!Next
  BY SameLeaves, SameCall DEF Pki!Next, IP!Next, Pki!Tick, IP!Tick,
     Pki!StepBack, IP!StepBack, Pki!history, IP!history

LEMMA IssuerInit == Pki!Init => IP!CacheInv
<1>1. /\ IP!Window = Window
      /\ \A t : IP!WholeSeconds(t) = WholeSeconds(t)
  BY DEF IP!Window, Window, IP!WholeSeconds, WholeSeconds
<1> QED BY <1>1, SameInit, IP!InitCacheInv, CertificatesLoaded, NamesAllowed,
           LeafDurations, ClockSteps, CacheSizePositive

LEMMA IssuerStep ==
  ASSUME IP!CacheInv, Pki!Next \/ UNCHANGED issuer
  PROVE  IP!CacheInv'
<1>1. /\ IP!Window = Window
      /\ \A t : IP!WholeSeconds(t) = WholeSeconds(t)
  BY DEF IP!Window, Window, IP!WholeSeconds, WholeSeconds
<1>2. [IP!Next]_(IP!vars)
  BY SameNext DEF issuer, IP!vars
<1> QED BY <1>1, <1>2, IP!NextCacheInv, CertificatesLoaded, NamesAllowed,
           LeafDurations, ClockSteps, CacheSizePositive

LEMMA CacheLenType == ASSUME IP!CacheInv PROVE Pki!CacheLen \in 0..CacheSize
<1>1. Len(lru) \in Nat /\ Len(lru) <= CacheSize
  BY DEF IP!CacheInv, IP!Sound, IP!CacheBounded
<1> QED BY <1>1, CacheSizePositive DEF Pki!CacheLen

\* Every answer has an outcome.
LEMMA AnswerHasOutcome ==
  ASSUME NEW host, Pki!GetCertificate(host)
  PROVE  answer'.outcome \in Outcome
<1>1. ASSUME NEW result \in Outcome, NEW leaf, answer' = Pki!Returns(host, result, leaf)
      PROVE  answer'.outcome \in Outcome
  BY <1>1 DEF Pki!Returns
<1>2. \E result \in Outcome : \E leaf : answer' = Pki!Returns(host, result, leaf)
  <2>1. {"refused", "not ready", "failed", "cached", "issued"} = Outcome
    BY DEF Outcome
  <2>2. CASE Pki!Refuse(host)
    BY <2>1, <2>2 DEF Pki!Refuse
  <2>3. CASE Pki!NotReady(host)
    BY <2>1, <2>3 DEF Pki!NotReady
  <2>4. CASE Pki!Hit(host)
    BY <2>1, <2>4 DEF Pki!Hit
  <2>5. CASE Pki!Issue(host)
    BY <2>1, <2>5 DEF Pki!Issue
  <2>6. CASE Pki!IssueFails(host)
    BY <2>1, <2>6 DEF Pki!IssueFails
  <2> QED BY <2>2, <2>3, <2>4, <2>5, <2>6 DEF Pki!GetCertificate
<1> QED BY <1>1, <1>2

-------------------------------------------------------------------------------
(* The invariant. *)

Active == {c \in Conn : pc[c] # "idle"}

Types ==
    /\ mu \in Conn \union {Free}
    /\ \A c \in Conn : mu = c <=> pc[c] = "certify"
    /\ pc \in [Conn -> Point]
    /\ sni \in [Conn -> SNI \union {""}]
    /\ \A c \in Conn : pc[c] # "idle" => sni[c] \in SNI
    /\ outcome \in [Conn -> Outcome \union {"silent"}]
    /\ entries \in [Conn -> 0..CacheSize]
    /\ gauge \in 0..CacheSize
    /\ alone \in BOOLEAN

Counts ==
    /\ failures \in [Reason -> Nat]
    /\ started \in 0..MaxHandshakes
    /\ completed \in Nat
    /\ IsFiniteSet(Active)
    /\ EveryHandshakeCounted

\* A handshake without company finds the cache as it left it.
AloneInv ==
    alone =>
        /\ \A c, d \in Conn : pc[c] # "idle" /\ pc[d] # "idle" => c = d
        /\ \A c \in Conn : pc[c] = "publish" => entries[c] = Pki!CacheLen
        /\ \A c \in Conn : pc[c] = "return" => gauge = Pki!CacheLen
        /\ Quiet => gauge = Pki!CacheLen

IInv == IP!CacheInv /\ Types /\ Counts /\ AloneInv

LEMMA InitInv == Init => IInv
<1> SUFFICES ASSUME Init PROVE IInv
  OBVIOUS
<1>1. IP!CacheInv
  BY IssuerInit DEF Init
<1>2. Pki!CacheLen = 0
  BY DEF Init, Pki!Init, Pki!CacheLen
<1>3. Types
  <2>1. 0 \in 0..CacheSize
    BY CacheSizePositive
  <2>2. /\ mu = Free /\ gauge \in 0..CacheSize /\ alone \in BOOLEAN
        /\ pc \in [Conn -> Point] /\ sni \in [Conn -> SNI \union {""}]
        /\ outcome \in [Conn -> Outcome \union {"silent"}]
        /\ entries \in [Conn -> 0..CacheSize]
    BY <2>1 DEF Init, Point
  <2>3. \A c \in Conn : pc[c] = "idle"
    BY DEF Init
  <2> QED BY <2>2, <2>3, FreeIsNoConn DEF Types
<1>4. Counts
  <2>1. Active = {}
    BY DEF Init, Active
  <2>2. IsFiniteSet(Active) /\ Cardinality(Active) = 0
    BY <2>1, FS_EmptySet
  <2>3. /\ failures \in [Reason -> Nat] /\ started = 0 /\ completed = 0
        /\ failures["unknown_sni"] = 0 /\ failures["other"] = 0
    BY DEF Init, Reason
  <2>4. EveryHandshakeCounted
    BY <2>2, <2>3 DEF EveryHandshakeCounted, Active
  <2> QED BY <2>2, <2>3, <2>4, HandshakesBounded DEF Counts
<1>5. AloneInv
  BY <1>2 DEF Init, AloneInv, Quiet
<1> QED BY <1>1, <1>3, <1>4, <1>5 DEF IInv

-------------------------------------------------------------------------------
(* One step. *)

LEMMA StepIssuer ==
  ASSUME IP!CacheInv, Types, [Next]_vars
  PROVE  IP!CacheInv'
<1>1. CASE UNCHANGED issuer
  BY <1>1, IssuerStep
<1>2. CASE Time
  BY <1>2, IssuerStep DEF Time, Pki!Next
<1>3. ASSUME NEW c \in Conn, Certify(c) PROVE IP!CacheInv'
  <2>1. sni[c] \in SNI /\ Pki!GetCertificate(sni[c])
    BY <1>3 DEF Certify, Goes, Types
  <2> QED BY <2>1, IssuerStep DEF Pki!Next
<1>4. UNCHANGED issuer \/ Time \/ \E c \in Conn : Certify(c)
  BY DEF Next, Over, Step, Lock, Measure, Publish, Return, Reject, Admit, vars
<1> QED BY <1>1, <1>2, <1>3, <1>4

\* Only the own connection moves.
LEMMA Moves ==
  ASSUME Types, NEW c \in Conn, NEW a, NEW b, Goes(c, a, b)
  PROVE  /\ pc[c] = a /\ pc'[c] = b
         /\ \A d \in Conn \ {c} : pc'[d] = pc[d]
         /\ b \in Point => pc' \in [Conn -> Point]
  BY DEF Types, Goes

LEMMA StepTypes ==
  ASSUME Types, IP!CacheInv, Next
  PROVE  Types'
<1>0. /\ mu \in Conn \union {Free} /\ Free \notin Conn
      /\ \A c \in Conn : mu = c <=> pc[c] = "certify"
      /\ \A c \in Conn : pc[c] # "idle" => sni[c] \in SNI
      /\ pc \in [Conn -> Point] /\ sni \in [Conn -> SNI \union {""}]
      /\ outcome \in [Conn -> Outcome \union {"silent"}]
      /\ entries \in [Conn -> 0..CacheSize]
      /\ gauge \in 0..CacheSize /\ alone \in BOOLEAN
  BY FreeIsNoConn DEF Types
<1>a. {"idle", "lock", "certify", "measure", "publish", "return"} \subseteq Point
  BY DEF Point
<1>1. CASE Time \/ Over
  BY <1>0, <1>1 DEF Time, Over, vars, local, Types
<1>2. ASSUME NEW c \in Conn, Lock(c) PROVE Types'
  <2>1. /\ pc[c] = "lock" /\ pc'[c] = "certify" /\ pc' \in [Conn -> Point]
        /\ \A d \in Conn \ {c} : pc'[d] = pc[d]
    BY <1>2, <1>a, Moves DEF Lock
  <2> QED BY <1>0, <1>2, <2>1 DEF Lock, local, Types
<1>3. ASSUME NEW c \in Conn, Certify(c) PROVE Types'
  <2>1. /\ pc[c] = "certify" /\ pc'[c] = "measure" /\ pc' \in [Conn -> Point]
        /\ \A d \in Conn \ {c} : pc'[d] = pc[d]
    BY <1>3, <1>a, Moves DEF Certify
  <2>2. outcome' \in [Conn -> Outcome \union {"silent"}]
    BY <1>0, <1>3, AnswerHasOutcome DEF Certify
  <2> QED BY <1>0, <1>3, <2>1, <2>2 DEF Certify, Types
<1>4. ASSUME NEW c \in Conn, Measure(c) PROVE Types'
  <2>1. /\ pc[c] = "measure" /\ pc'[c] = "publish" /\ pc' \in [Conn -> Point]
        /\ \A d \in Conn \ {c} : pc'[d] = pc[d]
    BY <1>4, <1>a, Moves DEF Measure
  <2>2. entries' \in [Conn -> 0..CacheSize]
    BY <1>0, <1>4, CacheLenType DEF Measure
  <2> QED BY <1>0, <1>4, <2>1, <2>2 DEF Measure, Types
<1>5. ASSUME NEW c \in Conn, Publish(c) PROVE Types'
  <2>1. /\ pc[c] = "publish" /\ pc'[c] = "return" /\ pc' \in [Conn -> Point]
        /\ \A d \in Conn \ {c} : pc'[d] = pc[d]
    BY <1>5, <1>a, Moves DEF Publish
  <2>2. gauge' \in 0..CacheSize
    BY <1>0, <1>5 DEF Publish
  <2> QED BY <1>0, <1>5, <2>1, <2>2 DEF Publish, local, Types
<1>6. ASSUME NEW c \in Conn, Return(c) PROVE Types'
  <2>1. /\ pc[c] = "return" /\ pc'[c] = "idle" /\ pc' \in [Conn -> Point]
        /\ \A d \in Conn \ {c} : pc'[d] = pc[d]
    BY <1>6, <1>a, Moves DEF Return
  <2> QED BY <1>0, <1>6, <2>1 DEF Return, local, Types
<1>7. ASSUME NEW c \in Conn, NEW host \in SNI, Reject(c, host) PROVE Types'
  <2>1. /\ pc[c] = "idle" /\ pc'[c] = "idle" /\ pc' \in [Conn -> Point]
        /\ \A d \in Conn \ {c} : pc'[d] = pc[d]
    BY <1>7, <1>a, Moves DEF Reject
  <2> QED BY <1>0, <1>7, <2>1 DEF Reject, local, Types
<1>8. ASSUME NEW c \in Conn, NEW host \in SNI, Admit(c, host) PROVE Types'
  <2>1. /\ pc[c] = "idle" /\ pc'[c] = "lock" /\ pc' \in [Conn -> Point]
        /\ \A d \in Conn \ {c} : pc'[d] = pc[d]
    BY <1>8, <1>a, Moves DEF Admit
  <2>2. /\ sni' \in [Conn -> SNI \union {""}] /\ sni'[c] = host
        /\ \A d \in Conn \ {c} : sni'[d] = sni[d]
    BY <1>0, <1>8 DEF Admit
  <2>3. alone' \in BOOLEAN
    BY <1>8 DEF Admit, Quiet
  <2> QED BY <1>0, <1>8, <2>1, <2>2, <2>3 DEF Admit, Types
<1> QED BY <1>1, <1>2, <1>3, <1>4, <1>5, <1>6, <1>7, <1>8 DEF Next, Step


-------------------------------------------------------------------------------
(* Counting. *)

\* A connection enters or leaves the set of those that are on their way.
LEMMA OneMore ==
  ASSUME Types, IsFiniteSet(Active), NEW c \in Conn, pc[c] = "idle", pc'[c] # "idle",
         \A d \in Conn \ {c} : pc'[d] = pc[d]
  PROVE  IsFiniteSet(Active') /\ Cardinality(Active') = Cardinality(Active) + 1
<1>1. Active' = Active \union {c} /\ c \notin Active
  BY DEF Active
<1> QED BY <1>1, FS_AddElement

LEMMA OneLess ==
  ASSUME Types, IsFiniteSet(Active), NEW c \in Conn, pc[c] # "idle", pc'[c] = "idle",
         \A d \in Conn \ {c} : pc'[d] = pc[d]
  PROVE  IsFiniteSet(Active') /\ Cardinality(Active') = Cardinality(Active) - 1
<1>1. Active' = Active \ {c} /\ c \in Active
  BY DEF Active
<1> QED BY <1>1, FS_RemoveElement

LEMMA AsMany ==
  ASSUME NEW c \in Conn, pc[c] = "idle" <=> pc'[c] = "idle",
         \A d \in Conn \ {c} : pc'[d] = pc[d]
  PROVE  Active' = Active
  BY DEF Active

\* A failure is one failure more.
LEMMA OneFailure ==
  ASSUME failures \in [Reason -> Nat], NEW reason \in Reason, Fails(reason)
  PROVE  /\ failures' \in [Reason -> Nat]
         /\ failures'["unknown_sni"] + failures'["other"] =
              failures["unknown_sni"] + failures["other"] + 1
<1>1. /\ failures' = [failures EXCEPT ![reason] = failures[reason] + 1]
      /\ failures["unknown_sni"] \in Nat /\ failures["other"] \in Nat
      /\ reason = "unknown_sni" \/ reason = "other"
  BY DEF Fails, Reason
<1>2. failures' \in [Reason -> Nat]
  BY <1>1
<1>3. CASE reason = "unknown_sni"
  <2>1. failures'["unknown_sni"] = failures["unknown_sni"] + 1 /\ failures'["other"] = failures["other"]
    BY <1>1, <1>3 DEF Reason
  <2> QED BY <1>1, <1>2, <2>1
<1>4. CASE reason = "other"
  <2>1. failures'["other"] = failures["other"] + 1 /\ failures'["unknown_sni"] = failures["unknown_sni"]
    BY <1>1, <1>4 DEF Reason
  <2> QED BY <1>1, <1>2, <2>1
<1> QED BY <1>1, <1>3, <1>4

LEMMA StepCounts ==
  ASSUME Types, Counts, Next
  PROVE  Counts'
<1>0. /\ failures \in [Reason -> Nat] /\ started \in 0..MaxHandshakes /\ completed \in Nat
      /\ MaxHandshakes \in Nat /\ IsFiniteSet(Active) /\ Cardinality(Active) \in Nat
      /\ failures["unknown_sni"] \in Nat /\ failures["other"] \in Nat
      /\ started = completed + failures["unknown_sni"] + failures["other"]
                   + Cardinality(Active)
  BY HandshakesBounded, FS_CardinalityType
     DEF Counts, EveryHandshakeCounted, Active, Reason
<1>9. ASSUME failures' \in [Reason -> Nat], started' \in 0..MaxHandshakes,
             completed' \in Nat, IsFiniteSet(Active'),
             started' = completed' + failures'["unknown_sni"] + failures'["other"]
                        + Cardinality(Active')
      PROVE  Counts'
  BY <1>9 DEF Counts, EveryHandshakeCounted, Active
<1>1. CASE UNCHANGED <<pc, failures, counts>>
  <2>1. Active' = Active
    BY <1>1 DEF Active
  <2> QED BY <1>0, <1>1, <1>9, <2>1 DEF counts
<1>2. ASSUME NEW c \in Conn, Lock(c) \/ Certify(c) \/ Measure(c) \/ Publish(c)
      PROVE  Counts'
  <2>1. Active' = Active
    <3>1. /\ pc[c] # "idle" /\ pc'[c] # "idle"
          /\ \A d \in Conn \ {c} : pc'[d] = pc[d]
      BY <1>2, Moves DEF Lock, Certify, Measure, Publish
    <3> QED BY <3>1, AsMany
  <2>2. UNCHANGED <<failures, counts>>
    BY <1>2 DEF Lock, Certify, Measure, Publish
  <2> QED BY <1>0, <1>9, <2>1, <2>2 DEF counts
<1>3. ASSUME NEW c \in Conn, Return(c) PROVE Counts'
  <2>1. IsFiniteSet(Active') /\ Cardinality(Active') = Cardinality(Active) - 1
    <3>1. /\ pc[c] = "return" /\ pc'[c] = "idle"
          /\ \A d \in Conn \ {c} : pc'[d] = pc[d]
      BY <1>3, Moves DEF Return
    <3> QED BY <3>1, <1>0, OneLess
  <2>2. CASE completed' = completed + 1 /\ UNCHANGED failures
    BY <1>0, <1>3, <1>9, <2>1, <2>2 DEF Return
  <2>3. CASE Fails("other") /\ UNCHANGED completed
    <3>1. /\ failures' \in [Reason -> Nat]
          /\ failures'["unknown_sni"] + failures'["other"] =
               failures["unknown_sni"] + failures["other"] + 1
      BY <1>0, <2>3, OneFailure DEF Reason
    <3>2. failures'["unknown_sni"] \in Nat /\ failures'["other"] \in Nat
      BY <3>1 DEF Reason
    <3> QED BY <1>0, <1>3, <1>9, <2>1, <2>3, <3>1, <3>2 DEF Return
  <2> QED BY <1>3, <2>2, <2>3 DEF Return
<1>4. ASSUME NEW c \in Conn, NEW host \in SNI, Reject(c, host) PROVE Counts'
  <2>1. Active' = Active
    <3>1. /\ pc[c] = "idle" /\ pc'[c] = "idle"
          /\ \A d \in Conn \ {c} : pc'[d] = pc[d]
      BY <1>4, Moves DEF Reject
    <3> QED BY <3>1, AsMany
  <2>2. /\ failures' \in [Reason -> Nat]
        /\ failures'["unknown_sni"] + failures'["other"] =
             failures["unknown_sni"] + failures["other"] + 1
    BY <1>0, <1>4, OneFailure DEF Reason, Reject
  <2>3. failures'["unknown_sni"] \in Nat /\ failures'["other"] \in Nat
    BY <2>2 DEF Reason
  <2>4. started' = started + 1 /\ started < MaxHandshakes /\ completed' = completed
    BY <1>4 DEF Reject
  <2> QED BY <1>0, <1>9, <2>1, <2>2, <2>3, <2>4
<1>5. ASSUME NEW c \in Conn, NEW host \in SNI, Admit(c, host) PROVE Counts'
  <2>1. IsFiniteSet(Active') /\ Cardinality(Active') = Cardinality(Active) + 1
    <3>1. /\ pc[c] = "idle" /\ pc'[c] = "lock"
          /\ \A d \in Conn \ {c} : pc'[d] = pc[d]
      BY <1>5, Moves DEF Admit
    <3> QED BY <3>1, <1>0, OneMore
  <2>2. /\ started' = started + 1 /\ started < MaxHandshakes
        /\ completed' = completed /\ failures' = failures
    BY <1>5 DEF Admit
  <2>3. started' \in 0..MaxHandshakes
    BY <1>0, <2>2
  <2>4. started' = completed' + failures'["unknown_sni"] + failures'["other"]
                   + Cardinality(Active')
    BY <1>0, <2>1, <2>2
  <2> QED BY <1>0, <1>9, <2>1, <2>2, <2>3, <2>4
<1> QED BY <1>1, <1>2, <1>3, <1>4, <1>5 DEF Next, Step, Time, Over, vars

-------------------------------------------------------------------------------
(* The gauge. *)

LEMMA StepAlone ==
  ASSUME Types, AloneInv, Next
  PROVE  AloneInv'
<1> SUFFICES ASSUME alone'
             PROVE  /\ \A c, d \in Conn : pc'[c] # "idle" /\ pc'[d] # "idle" => c = d
                    /\ \A c \in Conn : pc'[c] = "publish" => entries'[c] = Pki!CacheLen'
                    /\ \A c \in Conn : pc'[c] = "return" => gauge' = Pki!CacheLen'
                    /\ Quiet' => gauge' = Pki!CacheLen'
  BY DEF AloneInv
<1>0. /\ pc \in [Conn -> Point] /\ entries \in [Conn -> 0..CacheSize]
  BY DEF Types
<1>a. alone =>
        /\ \A c, d \in Conn : pc[c] # "idle" /\ pc[d] # "idle" => c = d
        /\ \A c \in Conn : pc[c] = "publish" => entries[c] = Pki!CacheLen
        /\ \A c \in Conn : pc[c] = "return" => gauge = Pki!CacheLen
        /\ Quiet => gauge = Pki!CacheLen
  BY DEF AloneInv
<1>1. CASE Time \/ Over
  <2>1. /\ lru' = lru /\ UNCHANGED <<pc, entries, gauge, alone>>
    BY <1>1 DEF Time, Over, Pki!Tick, Pki!StepBack, vars, issuer, local
  <2> QED BY <1>a, <2>1 DEF Pki!CacheLen, Quiet
<1>2. ASSUME NEW c \in Conn, Lock(c) \/ Certify(c) \/ Measure(c) \/ Publish(c) \/ Return(c)
      PROVE  /\ alone /\ pc[c] # "idle"
             /\ \A d \in Conn \ {c} : pc[d] = "idle" /\ pc'[d] = "idle"
  <2>1. alone' = alone
    BY <1>2 DEF Lock, Certify, Measure, Publish, Return
  <2>2. pc[c] # "idle" /\ \A d \in Conn \ {c} : pc'[d] = pc[d]
    <3>1. ASSUME NEW a \in Point \ {"idle"}, NEW b, Goes(c, a, b)
          PROVE  pc[c] # "idle" /\ \A d \in Conn \ {c} : pc'[d] = pc[d]
      BY <3>1, Moves
    <3>2. \/ Goes(c, "lock", "certify") \/ Goes(c, "certify", "measure")
          \/ Goes(c, "measure", "publish") \/ Goes(c, "publish", "return")
          \/ Goes(c, "return", "idle")
      BY <1>2 DEF Lock, Certify, Measure, Publish, Return
    <3>3. {"lock", "certify", "measure", "publish", "return"} \subseteq Point \ {"idle"}
      BY DEF Point
    <3> QED BY <3>1, <3>2, <3>3
  <2>3. \A d \in Conn \ {c} : pc[d] = "idle"
    BY <1>a, <2>1, <2>2
  <2> QED BY <2>1, <2>2, <2>3
<1>3. ASSUME NEW c \in Conn, Lock(c) \/ Certify(c)
      PROVE  AloneInv'
  <2>1. pc'[c] \in {"certify", "measure"}
    BY <1>3, Moves DEF Lock, Certify
  <2> QED BY <1>2, <1>3, <2>1 DEF AloneInv, Quiet
<1>4. ASSUME NEW c \in Conn, Measure(c) PROVE AloneInv'
  <2>1. /\ pc'[c] = "publish" /\ entries'[c] = Pki!CacheLen /\ lru' = lru
    BY <1>0, <1>4, Moves DEF Measure, issuer
  <2> QED BY <1>2, <1>4, <2>1 DEF AloneInv, Quiet, Pki!CacheLen
<1>5. ASSUME NEW c \in Conn, Publish(c) PROVE AloneInv'
  <2>1. /\ pc[c] = "publish" /\ pc'[c] = "return" /\ gauge' = entries[c] /\ lru' = lru
    BY <1>5, Moves DEF Publish, issuer
  <2>2. gauge' = Pki!CacheLen'
    BY <1>a, <1>2, <1>5, <2>1 DEF Pki!CacheLen
  <2> QED BY <1>2, <1>5, <2>1, <2>2 DEF AloneInv, Quiet
<1>6. ASSUME NEW c \in Conn, Return(c) PROVE AloneInv'
  <2>1. /\ pc[c] = "return" /\ pc'[c] = "idle" /\ gauge' = gauge /\ lru' = lru
    BY <1>6, Moves DEF Return, issuer
  <2>2. gauge' = Pki!CacheLen'
    BY <1>a, <1>2, <1>6, <2>1 DEF Pki!CacheLen
  <2> QED BY <1>2, <1>6, <2>1, <2>2 DEF AloneInv, Quiet
<1>7. ASSUME NEW c \in Conn, NEW host \in SNI, Reject(c, host) PROVE AloneInv'
  <2>1. /\ pc[c] = "idle" /\ pc'[c] = "idle" /\ \A d \in Conn \ {c} : pc'[d] = pc[d]
    BY <1>7, Moves DEF Reject
  <2>2. /\ lru' = lru /\ UNCHANGED <<entries, gauge, alone>>
        /\ \A d \in Conn : pc'[d] = pc[d]
    BY <1>7, <2>1 DEF Reject, issuer, local
  <2> QED BY <1>a, <2>2 DEF AloneInv, Quiet, Pki!CacheLen
<1>8. ASSUME NEW c \in Conn, NEW host \in SNI, Admit(c, host) PROVE AloneInv'
  <2>1. /\ pc'[c] = "lock" /\ \A d \in Conn \ {c} : pc'[d] = pc[d]
        /\ Quiet
    BY <1>8, Moves DEF Admit
  <2> QED BY <2>1 DEF AloneInv, Quiet
<1>9. AloneInv'
  BY <1>1, <1>3, <1>4, <1>5, <1>6, <1>7, <1>8 DEF Next, Step, AloneInv
<1> QED BY <1>9 DEF AloneInv

LEMMA Inductive == Spec => []IInv
<1>1. IInv /\ [Next]_vars => IInv'
  <2> SUFFICES ASSUME IInv, [Next]_vars PROVE IInv'
    OBVIOUS
  <2>1. IP!CacheInv'
    BY StepIssuer DEF IInv
  <2>2. CASE Next
    BY <2>1, <2>2, StepTypes, StepCounts, StepAlone DEF IInv
  <2>3. CASE UNCHANGED vars
    <3>1. Types'
      BY <2>3 DEF vars, local, IInv, Types
    <3>3. AloneInv'
      BY <2>3 DEF vars, issuer, local, IInv, AloneInv, Quiet, Pki!CacheLen
    <3>2. Counts'
      BY <2>3 DEF vars, counts, IInv, Counts, Active, EveryHandshakeCounted
    <3> QED BY <2>1, <3>1, <3>2, <3>3 DEF IInv
  <2> QED BY <2>2, <2>3
<1> QED BY <1>1, InitInv, PTL DEF Spec

-------------------------------------------------------------------------------

\* EveryHandshakeCounted: the two layers of TLSConfig's callback count every
\* handshake once, however many run at the same time.
THEOREM HandshakesEveryHandshakeCounted == Spec => []EveryHandshakeCounted
<1>1. IInv => EveryHandshakeCounted
  BY DEF IInv, Counts
<1> QED BY <1>1, Inductive, PTL

\* TypeOK: the mutex is held by the one connection that certifies, and neither
\* the gauge nor what is on its way to it exceeds the size of the cache.
THEOREM HandshakesTypeOK == Spec => []TypeOK
<1>1. IInv => TypeOK
  <2> SUFFICES ASSUME IInv PROVE TypeOK
    OBVIOUS
  <2>1. /\ failures \in [Reason -> Nat] /\ started \in 0..MaxHandshakes
        /\ completed \in Nat /\ Cardinality(Active) \in Nat /\ MaxHandshakes \in Nat
        /\ started = completed + failures["unknown_sni"] + failures["other"]
                     + Cardinality(Active)
    BY HandshakesBounded, FS_CardinalityType
       DEF IInv, Counts, EveryHandshakeCounted, Active
  <2>2. failures["unknown_sni"] \in Nat /\ failures["other"] \in Nat
    BY <2>1 DEF Reason
  <2>3. /\ completed \in 0..MaxHandshakes
        /\ failures["unknown_sni"] \in 0..MaxHandshakes
        /\ failures["other"] \in 0..MaxHandshakes
    BY <2>1, <2>2
  <2>4. failures \in [Reason -> 0..MaxHandshakes]
    BY <2>1, <2>3 DEF Reason
  <2> QED BY <2>1, <2>3, <2>4 DEF IInv, Types, TypeOK
<1> QED BY <1>1, Inductive, PTL

\* GaugeExactWhenAlone: certSource sets the gauge to the size of the cache
\* unless handshakes overlap.
THEOREM HandshakesGaugeExactWhenAlone == Spec => []GaugeExactWhenAlone
<1>1. IInv => GaugeExactWhenAlone
  BY DEF IInv, AloneInv, GaugeExactWhenAlone
<1> QED BY <1>1, Inductive, PTL

===============================================================================
