----------------------------- MODULE StatusProofs -----------------------------
(***************************************************************************)
(* Proofs about /readyz and /status, for any number of probers and any     *)
(* issuer.                                                                 *)
(*                                                                         *)
(* What a request has read was so when it was read, and the span that it   *)
(* has seen only grows; between the look at the drain and the verdict, an  *)
(* issuer that was not ready can only become so in sight of the request.   *)
(* That the size of the cache is a size comes from module IssuerProofs.    *)
(***************************************************************************)
EXTENDS Status, TLAPS

IP == INSTANCE IssuerProofs

-------------------------------------------------------------------------------
(* The issuer. *)

\* The issuer's operators, as Status and as IssuerProofs know them.
LEMMA SameLeaves ==
  /\ Pki!NoLeaf = IP!NoLeaf /\ Pki!Silent = IP!Silent
  /\ \A now : Pki!ReadyAt(now) <=> IP!ReadyAt(now)
  /\ \A leaf, now : Pki!NeedsRenewal(leaf, now) <=> IP!NeedsRenewal(leaf, now)
  /\ \A now : Pki!IssuedUntil(now) = IP!IssuedUntil(now)
  /\ \A host, now : Pki!IssuedLeaf(host, now) = IP!IssuedLeaf(host, now)
  /\ \A host, result, leaf :
        Pki!Returns(host, result, leaf) = IP!Returns(host, result, leaf)
<1>1. Pki!NoLeaf = IP!NoLeaf
  BY DEF Pki!NoLeaf, IP!NoLeaf
<1>2. Pki!Silent = IP!Silent
  BY <1>1 DEF Pki!Silent, IP!Silent
<1>3. \A now : Pki!ReadyAt(now) <=> IP!ReadyAt(now)
  BY DEF Pki!ReadyAt, IP!ReadyAt, Pki!ValidAt, IP!ValidAt
<1>4. \A leaf, now : Pki!NeedsRenewal(leaf, now) <=> IP!NeedsRenewal(leaf, now)
  BY DEF Pki!NeedsRenewal, IP!NeedsRenewal, Pki!Lifetime, IP!Lifetime
<1>5. \A now : Pki!IssuedUntil(now) = IP!IssuedUntil(now)
  BY DEF Pki!IssuedUntil, IP!IssuedUntil, Pki!Earlier, IP!Earlier
<1>6. \A host, now : Pki!IssuedLeaf(host, now) = IP!IssuedLeaf(host, now)
  BY <1>5 DEF Pki!IssuedLeaf, IP!IssuedLeaf, Pki!WholeSeconds, IP!WholeSeconds
<1>7. \A host, result, leaf :
        Pki!Returns(host, result, leaf) = IP!Returns(host, result, leaf)
  BY DEF Pki!Returns, IP!Returns
<1> QED BY <1>1, <1>2, <1>3, <1>4, <1>5, <1>6, <1>7

LEMMA SameLists ==
  /\ \A host : Pki!Cached(host) <=> IP!Cached(host)
  /\ \A host : Pki!Fresh(host) <=> IP!Fresh(host)
  /\ \A host : Pki!CacheWithout(host) = IP!CacheWithout(host)
  /\ \A host : Pki!Unlinked(host) = IP!Unlinked(host)
  /\ \A host : Pki!ListWithout(host) = IP!ListWithout(host)
<1>1. \A host : Pki!Cached(host) <=> IP!Cached(host)
  BY SameLeaves DEF Pki!Cached, IP!Cached
<1>2. \A host : Pki!Fresh(host) <=> IP!Fresh(host)
  BY <1>1, SameLeaves DEF Pki!Fresh, IP!Fresh
<1>3. \A host : Pki!CacheWithout(host) = IP!CacheWithout(host)
  BY SameLeaves DEF Pki!CacheWithout, IP!CacheWithout
<1>4. \A host : Pki!Unlinked(host) = IP!Unlinked(host)
  BY DEF Pki!Unlinked, IP!Unlinked, Pki!Position, IP!Position,
         Pki!RemoveAt, IP!RemoveAt
<1>5. \A host : Pki!ListWithout(host) = IP!ListWithout(host)
  BY <1>1, <1>4 DEF Pki!ListWithout, IP!ListWithout
<1> QED BY <1>1, <1>2, <1>3, <1>4, <1>5

LEMMA SamePush ==
  ASSUME NEW leaf, NEW list, NEW map
  PROVE Pki!Push(leaf, list, map) <=> IP!Push(leaf, list, map)
  BY SameLeaves DEF Pki!Push, IP!Push, Pki!Last, IP!Last, Pki!Front, IP!Front

LEMMA SameInit == Pki!Init => IP!Init
  BY SameLeaves DEF Pki!Init, IP!Init

LEMMA SameCall ==
  ASSUME NEW host
  PROVE  Pki!GetCertificate(host) <=> IP!GetCertificate(host)
<1>1. Pki!Refuse(host) <=> IP!Refuse(host)
  BY SameLeaves DEF Pki!Refuse, IP!Refuse, Pki!history, IP!history
<1>2. Pki!NotReady(host) <=> IP!NotReady(host)
  BY SameLeaves DEF Pki!NotReady, IP!NotReady, Pki!history, IP!history
<1>0. Pki!Remember(host) <=> IP!Remember(host)
  BY DEF Pki!Remember, IP!Remember
<1>3. Pki!Hit(host) <=> IP!Hit(host)
  BY <1>0, SameLeaves, SameLists DEF Pki!Hit, IP!Hit
<1>4. Pki!Issue(host) <=> IP!Issue(host)
  BY <1>0, SameLeaves, SameLists, SamePush DEF Pki!Issue, IP!Issue
<1>5. Pki!IssueFails(host) <=> IP!IssueFails(host)
  BY SameLeaves, SameLists DEF Pki!IssueFails, IP!IssueFails
<1> QED BY <1>1, <1>2, <1>3, <1>4, <1>5
        DEF Pki!GetCertificate, IP!GetCertificate

LEMMA SameNext == Pki!Next <=> IP!Next
  BY SameLeaves, SameCall DEF Pki!Next, IP!Next, Pki!Tick, IP!Tick,
     Pki!StepBack, IP!StepBack, Pki!history, IP!history

LEMMA IssuerInit == Pki!Init => IP!CacheInv
<1>1. /\ IP!Window = Window
      /\ \A t : IP!WholeSeconds(t) = WholeSeconds(t)
  BY DEF IP!Window, Window, IP!WholeSeconds, WholeSeconds
<1> QED BY <1>1, SameInit, IP!InitCacheInv, CertificatesLoaded, NamesAllowed,
           LeafDurations, ClockSteps, CacheSizePositive

LEMMA IssuerStep ==
  ASSUME IP!CacheInv, Pki!Next \/ UNCHANGED issuer
  PROVE  IP!CacheInv'
<1>1. /\ IP!Window = Window
      /\ \A t : IP!WholeSeconds(t) = WholeSeconds(t)
  BY DEF IP!Window, Window, IP!WholeSeconds, WholeSeconds
<1>2. [IP!Next]_(IP!vars)
  BY SameNext DEF issuer, IP!vars
<1> QED BY <1>1, <1>2, IP!NextCacheInv, CertificatesLoaded, NamesAllowed,
           LeafDurations, ClockSteps, CacheSizePositive

LEMMA CacheLenType == ASSUME IP!CacheInv PROVE Pki!CacheLen \in Nat
  BY DEF IP!CacheInv, IP!Sound, Pki!CacheLen

-------------------------------------------------------------------------------
(* One prober. *)

\* A request has seen what is so now.
SeesNow(p) == Running(p) => /\ Pki!CacheLen \in saw[p].sizes
                            /\ Ready \in saw[p].ready
                            /\ draining \in saw[p].draining
                            /\ Sound \in saw[p].sound
                            /\ verdict[p] = "none"

\* What it holds was so.
Holds(p) ==
    /\ pc[p] \in {"pki", "draining", "issuer"} /\ entries[p] # NotRead =>
          entries[p] \in saw[p].sizes
    /\ pc[p] \in {"draining", "issuer"} =>
          /\ pkiReady[p] \/ saw[p].recovered \/ ~Ready
          /\ entries[p] # NotRead => pkiReady[p] \in saw[p].ready

\* It has passed the look at the drain.
PassedDrain(p) ==
    pc[p] = "issuer" => /\ FALSE \in saw[p].draining
                        /\ TRUE \in saw[p].sound \/ saw[p].recovered \/ ~Ready

\* The two properties, of one prober.
Held(p) ==
    /\ verdict[p] = "ok" => TRUE \in saw[p].sound \/ saw[p].recovered
    /\ verdict[p] = "not ok" => FALSE \in saw[p].sound
    /\ verdict[p] = "ok" => FALSE \in saw[p].draining

Differ(p) ==
    verdict[p] # "none" =>
        /\ verdict[p] = "ok" /\ ~pkiReady[p] => saw[p].recovered
        /\ verdict[p] = "not ok" /\ pkiReady[p] =>
              FALSE \in saw[p].ready \/ TRUE \in saw[p].draining
        /\ entries[p] # NotRead => /\ entries[p] \in saw[p].sizes
                                   /\ pkiReady[p] \in saw[p].ready

ProberInv(p) == SeesNow(p) /\ Holds(p) /\ PassedDrain(p) /\ Held(p) /\ Differ(p)

Types == /\ draining \in BOOLEAN
         /\ pc \in [Prober -> {"idle", "entries", "pki", "draining", "issuer"}]
         /\ entries \in [Prober -> Nat \union {NotRead}]
         /\ pkiReady \in [Prober -> BOOLEAN]
         /\ verdict \in [Prober -> {"none", "ok", "not ok"}]
         /\ saw \in [Prober -> Span]

IInv == IP!CacheInv /\ Types /\ \A p \in Prober : ProberInv(p)

\* The step is not prober p's own.
Frame(p) == /\ pc'[p] = pc[p] /\ entries'[p] = entries[p]
            /\ pkiReady'[p] = pkiReady[p] /\ verdict'[p] = verdict[p]
            /\ saw'[p] = IF Running(p) THEN Longer(saw[p]) ELSE saw[p]

LEMMA ReadyType == Ready \in BOOLEAN /\ (draining \in BOOLEAN => Sound \in BOOLEAN)
  BY DEF Ready, ReadyAt, ValidAt, Sound

LEMMA InitInv == Init => IInv
<1> SUFFICES ASSUME Init PROVE IInv
  OBVIOUS
<1>1. IP!CacheInv
  BY IssuerInit DEF Init
<1>2. Moment \in Span
  BY <1>1, CacheLenType, ReadyType DEF Init, Moment, Span
<1>3. Types
  BY <1>2 DEF Init, Types
<1>4. ASSUME NEW p \in Prober PROVE ProberInv(p)
  <2>1. pc[p] = "idle" /\ verdict[p] = "none"
    BY DEF Init
  <2> QED BY <2>1 DEF ProberInv, SeesNow, Holds, PassedDrain, Held, Differ, Running
<1> QED BY <1>1, <1>3, <1>4 DEF IInv

LEMMA LongerType ==
  ASSUME IP!CacheInv', draining' \in BOOLEAN, NEW span \in Span
  PROVE  Longer(span) \in Span
<1>1. Pki!CacheLen' \in Nat
  BY DEF IP!CacheInv, IP!Sound, Pki!CacheLen
<1> QED BY <1>1 DEF Longer, Span, Ready, ReadyAt, ValidAt, Sound


-------------------------------------------------------------------------------
(* One step. *)

\* A span that grows loses nothing, sees the new moment, and an issuer that
\* becomes ready shows in it.
LEMMA LongerGrows ==
  ASSUME NEW span \in Span
  PROVE  /\ span.sizes \subseteq Longer(span).sizes
         /\ span.ready \subseteq Longer(span).ready
         /\ span.draining \subseteq Longer(span).draining
         /\ span.sound \subseteq Longer(span).sound
         /\ Pki!CacheLen' \in Longer(span).sizes
         /\ Ready' \in Longer(span).ready
         /\ draining' \in Longer(span).draining
         /\ Sound' \in Longer(span).sound
         /\ span.recovered => Longer(span).recovered
         /\ ~Ready /\ Ready' => Longer(span).recovered
<1>1. /\ Longer(span).sizes = span.sizes \union {Pki!CacheLen'}
      /\ Longer(span).ready = span.ready \union {Ready'}
      /\ Longer(span).draining = span.draining \union {draining'}
      /\ Longer(span).sound = span.sound \union {Sound'}
      /\ Longer(span).recovered = (span.recovered \/ (~Ready /\ Ready'))
  BY DEF Longer
<1> QED BY <1>1

\* What others do changes nothing for a prober but its span.
LEMMA FrameKeeps ==
  ASSUME Types, NEW p \in Prober, ProberInv(p), Frame(p)
  PROVE  ProberInv(p)'
<1>0. saw[p] \in Span
  BY DEF Types
<1>1. CASE Running(p)
  <2>1. Running(p)' /\ saw'[p] = Longer(saw[p]) /\ verdict[p] = "none"
    BY <1>1 DEF Frame, Running, ProberInv, SeesNow
  <2>2. SeesNow(p)'
    BY <1>0, <2>1, LongerGrows DEF Frame, SeesNow
  <2>3. Holds(p)'
    BY <1>0, <2>1, LongerGrows DEF Frame, ProberInv, Holds
  <2>4. PassedDrain(p)'
    BY <1>0, <2>1, LongerGrows DEF Frame, ProberInv, PassedDrain
  <2>5. Held(p)' /\ Differ(p)'
    BY <2>1 DEF Frame, Held, Differ
  <2> QED BY <2>2, <2>3, <2>4, <2>5 DEF ProberInv
<1>2. CASE ~Running(p)
  <2>1. ~Running(p)' /\ saw'[p] = saw[p] /\ pc'[p] = "idle"
    BY <1>2 DEF Frame, Running
  <2> QED BY <2>1 DEF Frame, ProberInv, SeesNow, Holds, PassedDrain, Held, Differ
<1> QED BY <1>1, <1>2

LEMMA EnvironmentFrames ==
  ASSUME Handshake \/ Drain, NEW p \in Prober
  PROVE  Frame(p)
  BY DEF Handshake, Drain, Watch, Frame

LEMMA OthersFrame ==
  ASSUME Types, NEW q \in Prober, NEW p \in Prober \ {q},
         Look(q) \/ (\E endpoint \in {"/readyz", "/status"} : Ask(q, endpoint))
  PROVE  Frame(p)
<1>0. /\ pc' = [pc EXCEPT ![q] = pc'[q]] => pc'[p] = pc[p]
      /\ entries' = [entries EXCEPT ![q] = entries'[q]] => entries'[p] = entries[p]
  BY DEF Types
<1>1. CASE LookAtCache(q)
  BY <1>1 DEF LookAtCache, Goes, Watch, Frame, Types
<1>2. CASE LookAtIssuer(q)
  BY <1>2 DEF LookAtIssuer, Goes, Watch, Frame, Types
<1>3. CASE LookAtDrain(q)
  BY <1>3 DEF LookAtDrain, Goes, Watch, Frame, Types
<1>4. CASE Verdict(q)
  BY <1>4 DEF Verdict, Goes, Watch, Frame, Types
<1>5. ASSUME NEW endpoint \in {"/readyz", "/status"}, Ask(q, endpoint)
      PROVE  Frame(p)
  BY <1>5 DEF Ask, Goes, Frame, Types
<1> QED BY <1>1, <1>2, <1>3, <1>4, <1>5 DEF Look

LEMMA LookKeeps ==
  ASSUME Types, NEW p \in Prober, ProberInv(p), Look(p)
  PROVE  ProberInv(p)'
<1>0. /\ saw[p] \in Span /\ pkiReady[p] \in BOOLEAN /\ draining \in BOOLEAN
      /\ pc \in [Prober -> {"idle", "entries", "pki", "draining", "issuer"}]
      /\ entries \in [Prober -> Nat \union {NotRead}]
      /\ pkiReady \in [Prober -> BOOLEAN]
      /\ verdict \in [Prober -> {"none", "ok", "not ok"}]
  BY DEF Types
<1>1. /\ Running(p) /\ saw'[p] = Longer(saw[p]) /\ UNCHANGED <<issuer, draining>>
  BY DEF Look, LookAtCache, LookAtIssuer, LookAtDrain, Verdict, Goes, Watch, Running
<1>2. /\ Pki!CacheLen' = Pki!CacheLen /\ Ready' = Ready /\ Sound' = Sound
  BY <1>1 DEF issuer, Pki!CacheLen, Ready, Sound
<1>3. /\ Pki!CacheLen \in saw[p].sizes /\ Ready \in saw[p].ready
      /\ draining \in saw[p].draining /\ Sound \in saw[p].sound
      /\ verdict[p] = "none"
  BY <1>1 DEF ProberInv, SeesNow
<1>4. /\ saw[p].sizes \subseteq saw'[p].sizes
      /\ saw[p].ready \subseteq saw'[p].ready
      /\ saw[p].draining \subseteq saw'[p].draining
      /\ saw[p].sound \subseteq saw'[p].sound
      /\ saw[p].recovered => saw'[p].recovered
  BY <1>0, <1>1, LongerGrows
<1>5. CASE LookAtCache(p)
  <2>1. /\ pc'[p] = "pki" /\ entries'[p] = Pki!CacheLen /\ verdict'[p] = verdict[p]
    BY <1>0, <1>5 DEF LookAtCache, Goes
  <2> QED BY <1>1, <1>2, <1>3, <1>4, <2>1
          DEF ProberInv, SeesNow, Holds, PassedDrain, Held, Differ
<1>6. CASE LookAtIssuer(p)
  <2>1. /\ pc[p] = "pki" /\ pc'[p] = "draining" /\ entries'[p] = entries[p]
        /\ pkiReady'[p] = Ready /\ verdict'[p] = verdict[p]
    BY <1>0, <1>6 DEF LookAtIssuer, Goes
  <2>2. SeesNow(p)'
    BY <1>1, <1>2, <1>3, <1>4, <2>1 DEF SeesNow
  <2>3. Holds(p)'
    BY <1>2, <1>3, <1>4, <2>1 DEF ProberInv, Holds
  <2> QED BY <1>3, <2>1, <2>2, <2>3 DEF ProberInv, PassedDrain, Held, Differ
<1>7. CASE LookAtDrain(p)
  <2>1. /\ pc[p] = "draining" /\ pc'[p] = IF draining THEN "idle" ELSE "issuer"
        /\ entries'[p] = entries[p] /\ pkiReady'[p] = pkiReady[p]
        /\ verdict'[p] = IF draining THEN "not ok" ELSE "none"
    BY <1>0, <1>7 DEF LookAtDrain, Goes
  <2>2. Holds(p)'
    BY <1>2, <1>4, <2>1 DEF ProberInv, Holds
  <2>3. CASE draining
    <3>1. ~Sound
      BY <2>3 DEF Sound
    <3>2. FALSE \in saw'[p].sound /\ TRUE \in saw'[p].draining
      BY <1>3, <1>4, <2>3, <3>1 DEF Sound
    <3>3. entries'[p] # NotRead => /\ entries'[p] \in saw'[p].sizes
                                   /\ pkiReady'[p] \in saw'[p].ready
      BY <1>4, <2>1 DEF ProberInv, Holds
    <3> QED BY <2>1, <2>2, <2>3, <3>2, <3>3
            DEF ProberInv, SeesNow, Running, PassedDrain, Held, Differ
  <2>4. CASE ~draining
    <3>1. SeesNow(p)'
      BY <1>1, <1>2, <1>3, <1>4, <2>1, <2>4 DEF SeesNow
    <3>2. PassedDrain(p)'
      <4>1. FALSE \in saw[p].draining
        BY <1>0, <1>3, <2>4
      <4>2. Ready => TRUE \in saw[p].sound
        BY <1>3, <2>4, ReadyType, <1>0 DEF Sound
      <4> QED BY <1>2, <1>4, <2>1, <4>1, <4>2 DEF PassedDrain
    <3> QED BY <2>1, <2>2, <2>4, <3>1, <3>2 DEF ProberInv, Held, Differ
  <2> QED BY <2>3, <2>4
<1>8. CASE Verdict(p)
  <2>1. /\ pc[p] = "issuer" /\ pc'[p] = "idle"
        /\ entries'[p] = entries[p] /\ pkiReady'[p] = pkiReady[p]
        /\ verdict'[p] = IF Ready THEN "ok" ELSE "not ok"
    BY <1>0, <1>8 DEF Verdict, Goes
  <2>2. /\ ~Ready => FALSE \in saw[p].sound /\ FALSE \in saw[p].ready
    BY <1>0, <1>3, ReadyType DEF Sound
  <2>3. Held(p)'
    BY <1>4, <2>1, <2>2 DEF ProberInv, PassedDrain, Held
  <2>4. Differ(p)'
    BY <1>4, <2>1, <2>2 DEF ProberInv, Holds, Differ
  <2> QED BY <2>1, <2>3, <2>4 DEF ProberInv, SeesNow, Running, Holds, PassedDrain
<1> QED BY <1>5, <1>6, <1>7, <1>8 DEF Look

LEMMA AskKeeps ==
  ASSUME Types, NEW p \in Prober, NEW endpoint \in {"/readyz", "/status"},
         Ask(p, endpoint)
  PROVE  ProberInv(p)'
<1>1. /\ pc'[p] \in {"entries", "draining"} /\ entries'[p] = NotRead
      /\ pkiReady'[p] = TRUE /\ verdict'[p] = "none" /\ saw'[p] = Moment
      /\ UNCHANGED <<issuer, draining>>
  BY DEF Types, Ask, Goes
<1>2. /\ Pki!CacheLen' = Pki!CacheLen /\ Ready' = Ready /\ Sound' = Sound
  BY <1>1 DEF issuer, Pki!CacheLen, Ready, Sound
<1>3. /\ Moment.sizes = {Pki!CacheLen} /\ Moment.ready = {Ready}
      /\ Moment.draining = {draining} /\ Moment.sound = {Sound}
  BY DEF Moment
<1> QED BY <1>1, <1>2, <1>3 DEF ProberInv, SeesNow, Holds, PassedDrain, Held, Differ

LEMMA StepTypes ==
  ASSUME IInv, Next, IP!CacheInv'
  PROVE  Types'
<1>0. Types /\ Pki!CacheLen \in Nat /\ Ready \in BOOLEAN
  BY CacheLenType, ReadyType DEF IInv
<1>1. draining' \in BOOLEAN
  BY <1>0 DEF Next, Handshake, Drain, Look, LookAtCache, LookAtIssuer, LookAtDrain,
              Verdict, Ask, Types
<1>2. \A span \in Span : Longer(span) \in Span
  BY <1>1, LongerType
<1>3. Moment \in Span
  BY <1>0, ReadyType DEF Moment, Span, Types
<1>4. saw' \in [Prober -> Span]
  <2>1. CASE Watch
    BY <1>0, <1>2, <2>1 DEF Watch, Types
  <2>2. ASSUME NEW p \in Prober, NEW endpoint \in {"/readyz", "/status"}, Ask(p, endpoint)
        PROVE  saw' \in [Prober -> Span]
    BY <1>0, <1>2, <1>3, <2>2 DEF Ask, Types
  <2> QED BY <2>1, <2>2 DEF Next, Handshake, Drain, Look, LookAtCache, LookAtIssuer,
                            LookAtDrain, Verdict
<1>5. CASE Handshake \/ Drain
  BY <1>0, <1>1, <1>4, <1>5 DEF Handshake, Drain, Types
<1>6. ASSUME NEW p \in Prober, LookAtCache(p) PROVE Types'
  BY <1>0, <1>1, <1>4, <1>6 DEF LookAtCache, Goes, Types
<1>7. ASSUME NEW p \in Prober, LookAtIssuer(p) PROVE Types'
  BY <1>0, <1>1, <1>4, <1>7 DEF LookAtIssuer, Goes, Types
<1>8. ASSUME NEW p \in Prober, LookAtDrain(p) PROVE Types'
  BY <1>0, <1>1, <1>4, <1>8 DEF LookAtDrain, Goes, Types
<1>9. ASSUME NEW p \in Prober, Verdict(p) PROVE Types'
  BY <1>0, <1>1, <1>4, <1>9 DEF Verdict, Goes, Types
<1>10. ASSUME NEW p \in Prober, NEW endpoint \in {"/readyz", "/status"}, Ask(p, endpoint)
       PROVE  Types'
  BY <1>0, <1>1, <1>4, <1>10 DEF Ask, Goes, Types, NotRead
<1> QED BY <1>5, <1>6, <1>7, <1>8, <1>9, <1>10 DEF Next, Look

LEMMA StepIssuer ==
  ASSUME IInv, [Next]_vars
  PROVE  IP!CacheInv'
<1>1. Pki!Next \/ UNCHANGED issuer
  BY DEF Next, Handshake, Drain, Look, LookAtCache, LookAtIssuer, LookAtDrain, Verdict,
         Ask, vars
<1> QED BY <1>1, IssuerStep DEF IInv

LEMMA Inductive == Spec => []IInv
<1>1. IInv /\ [Next]_vars => IInv'
  <2> SUFFICES ASSUME IInv, [Next]_vars PROVE IInv'
    OBVIOUS
  <2>0. Types /\ IP!CacheInv' /\ \A p \in Prober : ProberInv(p)
    BY StepIssuer DEF IInv
  <2>1. CASE UNCHANGED vars
    <3>1. Types' /\ \A p \in Prober : ProberInv(p)'
      BY <2>0, <2>1 DEF vars, issuer, Types, ProberInv, SeesNow, Holds, PassedDrain, Held,
                        Differ, Running, Ready, Sound, Pki!CacheLen
    <3> QED BY <2>0, <3>1 DEF IInv
  <2>2. CASE Next
    <3>1. Types'
      BY <2>0, <2>2, StepTypes
    <3>2. ASSUME NEW p \in Prober PROVE ProberInv(p)'
      <4>1. CASE Handshake \/ Drain
        BY <2>0, <4>1, EnvironmentFrames, FrameKeeps
      <4>2. ASSUME NEW q \in Prober,
                   Look(q) \/ (\E endpoint \in {"/readyz", "/status"} : Ask(q, endpoint))
            PROVE  ProberInv(p)'
        <5>1. CASE p = q
          BY <2>0, <4>2, <5>1, LookKeeps, AskKeeps
        <5>2. CASE p # q
          BY <2>0, <4>2, <5>2, OthersFrame, FrameKeeps
        <5> QED BY <5>1, <5>2
      <4> QED BY <2>2, <4>1, <4>2 DEF Next
    <3> QED BY <2>0, <3>1, <3>2 DEF IInv
  <2> QED BY <2>1, <2>2
<1> QED BY <1>1, InitInv, PTL DEF Spec

-------------------------------------------------------------------------------

\* TypeOK: nobody has a verdict before the request has been answered.
THEOREM StatusTypeOK == Spec => []TypeOK
<1>1. IInv => TypeOK
  BY DEF IInv, Types, TypeOK, ProberInv, SeesNow
<1> QED BY <1>1, Inductive, PTL

\* VerdictHeld: what /readyz and /status say was so while they were asked,
\* whatever the issuer, the clock and the drain do between two looks.
THEOREM StatusVerdictHeld == Spec => []VerdictHeld
<1>1. IInv => VerdictHeld
  BY DEF IInv, ProberInv, Held, VerdictHeld
<1> QED BY <1>1, Inductive, PTL

\* FieldsDifferOverAChange: the fields of /status, read one after the other,
\* contradict each other only over a change that happened meanwhile.
THEOREM StatusFieldsDifferOverAChange == Spec => []FieldsDifferOverAChange
<1>1. IInv => FieldsDifferOverAChange
  BY DEF IInv, ProberInv, Differ, FieldsDifferOverAChange
<1> QED BY <1>1, Inductive, PTL

===============================================================================
