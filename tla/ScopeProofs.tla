------------------------------ MODULE ScopeProofs ------------------------------
(***************************************************************************)
(* Proofs about names and the components that compare them, for any        *)
(* labels, configured hosts, name constraints, routes and clients that the *)
(* assumptions of Names and Scope allow.                                   *)
(***************************************************************************)
EXTENDS Scope, Trust, SequenceTheorems, FiniteSetTheorems, WellFoundedInduction, TLAPS

-------------------------------------------------------------------------------
(* Label by label: what the operations on names do to the labels. *)

\* Two names with the same labels are the same name.
LEMMA SameLabels ==
    ASSUME NEW s \in Seq(STRING), NEW t \in Seq(STRING), Len(s) = Len(t),
           \A i \in 1..Len(s) : s[i] = t[i]
    PROVE  s = t
BY SeqEqual

\* A name has a first and a last label.
LEMMA NameHasLabels ==
    ASSUME NEW n \in Name
    PROVE  /\ n \in Seq(STRING) /\ Len(n) \in Nat \ {0} /\ DOMAIN n = 1..Len(n)
           /\ Head(n) = n[1] /\ Last(n) = n[Len(n)]
           /\ \A i \in 1..Len(n) : n[i] \in STRING
BY EmptySeq, LenProperties, ElementOfSeq DEF Name, Invalid, Last

\* strings.ToLower keeps the number of labels, and which are empty or "*".
LEMMA LowerLabels ==
    ASSUME NEW n \in Seq(STRING)
    PROVE  /\ Lower(n) \in Seq(STRING) /\ Len(Lower(n)) = Len(n)
           /\ \A i \in 1..Len(n) :
                 /\ Lower(n)[i] = IF n[i] \in DOMAIN LowerCase THEN LowerCase[n[i]]
                                  ELSE n[i]
                 /\ Lower(n)[i] \notin DOMAIN LowerCase
                 /\ Lower(n)[i] = NoLabel <=> n[i] = NoLabel
                 /\ Lower(n)[i] = "*" <=> n[i] = "*"
<1> DEFINE low(x) == IF x \in DOMAIN LowerCase THEN LowerCase[x] ELSE x
<1>1. Len(n) \in Nat /\ DOMAIN n = 1..Len(n) /\ \A i \in 1..Len(n) : n[i] \in STRING
  BY LenProperties, ElementOfSeq
<1>2. \A i \in 1..Len(n) : low(n[i]) \in STRING
  BY <1>1, LabelClasses
<1>3. Lower(n) = [i \in 1..Len(n) |-> low(n[i])]
  BY <1>1 DEF Lower
<1>4. Lower(n) \in [1..Len(n) -> STRING]
  BY <1>2, <1>3
<1>5. Lower(n) \in Seq(STRING)
  BY <1>1, <1>4, SeqDef
<1>6. Len(Lower(n)) = Len(n)
  <2>1. DOMAIN Lower(n) = 1..Len(n)
    BY <1>4
  <2> QED BY <1>1, <1>5, <2>1, LenProperties
<1>7. \A i \in 1..Len(n) : Lower(n)[i] = low(n[i])
  BY <1>3
<1>8. \A x : /\ low(x) \notin DOMAIN LowerCase
             /\ low(x) = NoLabel <=> x = NoLabel
             /\ low(x) = "*" <=> x = "*"
  BY LabelClasses
<1> QED BY <1>5, <1>6, <1>7, <1>8

\* strings.TrimSuffix(name, ".") takes an empty last label away, never the only one.
LEMMA TrimDotLabels ==
    ASSUME NEW n \in Name
    PROVE  /\ TrimDot(n) \in Name
           /\ Len(TrimDot(n)) = IF Len(n) > 1 /\ n[Len(n)] = NoLabel THEN Len(n) - 1 ELSE Len(n)
           /\ \A i \in 1..Len(TrimDot(n)) : TrimDot(n)[i] = n[i]
<1>1. /\ n \in Seq(STRING) /\ Len(n) \in Nat \ {0} /\ Last(n) = n[Len(n)]
      /\ \A i \in 1..Len(n) : n[i] \in STRING
  BY NameHasLabels
<1>2. CASE Len(n) > 1 /\ n[Len(n)] = NoLabel
  <2> DEFINE k == Len(n) - 1
             front == SubSeq(n, 1, k)
  <2>1. TrimDot(n) = front
    BY <1>1, <1>2 DEF TrimDot, Front
  <2>2. k \in Nat \ {0} /\ k \in Int /\ 1 \in Int /\ \A i \in 1..k : n[i] \in STRING
    <3>0. Len(n) \in Nat /\ Len(n) > 1
      BY <1>1, <1>2
    <3>1. k \in Nat \ {0} /\ k < Len(n)
      <4>1. \A x \in Nat : x > 1 => x - 1 \in Nat /\ x - 1 # 0 /\ x - 1 < x
        OBVIOUS
      <4> QED BY <3>0, <4>1
    <3> HIDE DEF k
    <3> QED BY <3>1, <1>1
  <2>3. /\ front \in Seq(STRING)
        /\ Len(front) = IF 1 <= k THEN k - 1 + 1 ELSE 0
        /\ \A i \in 1..k - 1 + 1 : front[i] = n[1 + i - 1]
    <3> HIDE DEF k
    <3> QED BY <2>2, SubSeqProperties
  <2>4. /\ front \in Seq(STRING) /\ Len(front) = k
        /\ \A i \in 1..k : front[i] = n[i]
    <3> HIDE DEF k, front
    <3> QED BY <2>2, <2>3
  <2>5. front # <<>>
    <3> HIDE DEF k, front
    <3> QED BY <2>2, <2>4, EmptySeq
  <2> HIDE DEF front
  <2> QED BY <2>1, <2>4, <2>5, <1>2 DEF Name, Invalid
<1>3. CASE ~(Len(n) > 1 /\ n[Len(n)] = NoLabel)
  BY <1>1, <1>3 DEF TrimDot
<1> QED BY <1>2, <1>3

\* strings.CutPrefix(name, "*.") leaves the labels behind the first.
LEMMA TailLabels ==
    ASSUME NEW n \in Name
    PROVE  /\ Tail(n) \in Seq(STRING) /\ Len(Tail(n)) = Len(n) - 1
           /\ \A i \in 1..Len(n) - 1 : Tail(n)[i] = n[i + 1]
           /\ Len(n) > 1 => Tail(n) \in Name
<1>1. n \in Seq(STRING) /\ n # <<>> /\ Len(n) \in Nat \ {0}
  BY NameHasLabels DEF Name, Invalid
<1>2. /\ Tail(n) \in Seq(STRING) /\ Len(Tail(n)) = Len(n) - 1
      /\ \A i \in 1..Len(Tail(n)) : Tail(n)[i] = n[i + 1]
  BY <1>1, HeadTailProperties
<1>3. Len(n) > 1 => Tail(n) # <<>>
  BY <1>1, <1>2, EmptySeq
<1> QED BY <1>2, <1>3 DEF Name, Invalid

\* A label in front of a name.
LEMMA WithLabel ==
    ASSUME NEW l \in STRING, NEW n \in Name
    PROVE  /\ <<l>> \o n \in Name /\ Len(<<l>> \o n) = Len(n) + 1
           /\ (<<l>> \o n)[1] = l /\ \A i \in 1..Len(n) : (<<l>> \o n)[i + 1] = n[i]
           /\ Head(<<l>> \o n) = l /\ Tail(<<l>> \o n) = n
<1>1. n \in Seq(STRING) /\ Len(n) \in Nat \ {0}
  BY NameHasLabels
<1>2. <<l>> \in Seq(STRING) /\ Len(<<l>>) = 1 /\ <<l>>[1] = l
  <2>1. <<>> \in Seq(STRING) /\ Append(<<>>, l) = <<l>>
    OBVIOUS
  <2> QED BY <2>1, AppendProperties
<1>3. /\ <<l>> \o n \in Seq(STRING) /\ Len(<<l>> \o n) = 1 + Len(n)
      /\ \A i \in 1..1 + Len(n) : (<<l>> \o n)[i] = IF i <= 1 THEN <<l>>[i] ELSE n[i - 1]
  BY <1>1, <1>2, ConcatProperties
<1>4. (<<l>> \o n)[1] = l /\ \A i \in 1..Len(n) : (<<l>> \o n)[i + 1] = n[i]
  BY <1>1, <1>2, <1>3
<1>5. <<l>> \o n # <<>>
  BY <1>1, <1>3, EmptySeq
<1>6. <<l>> \o n \in Name
  BY <1>3, <1>5 DEF Name, Invalid
<1>7. /\ Head(<<l>> \o n) = l /\ Tail(<<l>> \o n) \in Seq(STRING)
      /\ Len(Tail(<<l>> \o n)) = Len(n)
      /\ \A i \in 1..Len(n) : Tail(<<l>> \o n)[i] = n[i]
  <2> DEFINE w == <<l>> \o n
  <2>1. w \in Name /\ Len(w) = Len(n) + 1 /\ w[1] = l /\ \A i \in 1..Len(n) : w[i + 1] = n[i]
    BY <1>1, <1>3, <1>4, <1>6
  <2> HIDE DEF w
  <2>2. Head(w) = w[1]
    BY <2>1, NameHasLabels
  <2>3. /\ Tail(w) \in Seq(STRING) /\ Len(Tail(w)) = Len(w) - 1
        /\ \A i \in 1..Len(w) - 1 : Tail(w)[i] = w[i + 1]
    BY <2>1, TailLabels
  <2>4. Len(w) - 1 = Len(n)
    BY <1>1, <2>1
  <2>5. Len(Tail(w)) = Len(n) /\ \A i \in 1..Len(n) : Tail(w)[i] = w[i + 1]
    BY <2>3, <2>4
  <2>6. Head(w) = l /\ Tail(w) \in Seq(STRING) /\ Len(Tail(w)) = Len(n)
        /\ \A i \in 1..Len(n) : Tail(w)[i] = n[i]
    BY <2>1, <2>2, <2>3, <2>5
  <2> QED BY <2>6 DEF w
<1>8. Tail(<<l>> \o n) = n
  BY <1>1, <1>7, SameLabels
<1> QED BY <1>1, <1>3, <1>4, <1>6, <1>7, <1>8

\* strings.HasSuffix(host, "." + suffix), label by label.
LEMMA BelowLabels ==
    ASSUME NEW host \in Seq(STRING), NEW suffix \in Seq(STRING)
    PROVE  Below(host, suffix) <=>
              /\ Len(host) > Len(suffix)
              /\ \A i \in 1..Len(suffix) : host[Len(host) - Len(suffix) + i] = suffix[i]
<1> DEFINE h == Len(host)
           k == Len(suffix)
           part == SubSeq(host, h - k + 1, h)
<1>1. h \in Nat /\ k \in Nat /\ \A i \in 1..h : host[i] \in STRING
  BY LenProperties, ElementOfSeq
<1>2. CASE h > k
  <2>1. /\ part \in Seq(STRING) /\ Len(part) = k
        /\ \A i \in 1..k : part[i] = host[h - k + i]
    <3>1. h - k + 1 \in Int /\ h \in Int /\ \A i \in h - k + 1..h : host[i] \in STRING
      BY <1>1, <1>2
    <3>2. /\ part \in Seq(STRING)
          /\ Len(part) = IF h - k + 1 <= h THEN h - (h - k + 1) + 1 ELSE 0
          /\ \A i \in 1..h - (h - k + 1) + 1 : part[i] = host[(h - k + 1) + i - 1]
      BY <3>1, SubSeqProperties
    <3> QED BY <3>2, <1>1, <1>2
  <2>2. part = suffix <=> \A i \in 1..k : host[h - k + i] = suffix[i]
    BY <2>1, SameLabels
  <2> QED BY <2>2, <1>2 DEF Below
<1>3. CASE ~(h > k)
  BY <1>3 DEF Below
<1> QED BY <1>2, <1>3

-------------------------------------------------------------------------------
(* Hosts and patterns: what the normalisations return, they leave alone. *)

\* What ExactHost can return besides an error.
Host == Seq(Plain) \ {Invalid}

\* What NormalizePattern can return besides an error.
Pattern == Host \union {<<"*">> \o h : h \in Host}

\* A host is a name of plain labels.
LEMMA HostLabels ==
    /\ Host \subseteq Name
    /\ \A n \in Name : n \in Host <=> \A i \in 1..Len(n) : n[i] \in Plain
<1>1. Plain \subseteq STRING
  BY LabelClasses
<1>2. Host \subseteq Name
  BY <1>1, SeqMonotonic DEF Host, Name
<1>3. ASSUME NEW n \in Name
      PROVE  n \in Host <=> \A i \in 1..Len(n) : n[i] \in Plain
  <2>1. n # <<>> /\ Len(n) \in Nat /\ n \in Seq(STRING)
    BY NameHasLabels DEF Name, Invalid
  <2>2. n \in [1..Len(n) -> STRING]
    BY <2>1, LenProperties
  <2>3. ASSUME n \in Host
        PROVE  \A i \in 1..Len(n) : n[i] \in Plain
    BY <2>3, ElementOfSeq DEF Host
  <2>4. ASSUME \A i \in 1..Len(n) : n[i] \in Plain
        PROVE  n \in Host
    <3>1. n \in [1..Len(n) -> Plain]
      BY <2>2, <2>4
    <3>2. n \in Seq(Plain)
      BY <2>1, <3>1, SeqDef
    <3> QED BY <2>1, <3>2 DEF Host, Invalid
  <2> QED BY <2>3, <2>4
<1> QED BY <1>2, <1>3

\* The two normalisations do the same in another order.
LEMMA TrimLower ==
    ASSUME NEW n \in Name
    PROVE  /\ Lower(n) \in Name /\ Lower(TrimDot(n)) \in Name
           /\ TrimDot(Lower(n)) = Lower(TrimDot(n))
<1> DEFINE k == IF Len(n) > 1 /\ n[Len(n)] = NoLabel THEN Len(n) - 1 ELSE Len(n)
<1>1. n \in Seq(STRING) /\ Len(n) \in Nat \ {0}
  BY NameHasLabels
<1>2. /\ Lower(n) \in Seq(STRING) /\ Len(Lower(n)) = Len(n)
      /\ Lower(n)[Len(n)] = NoLabel <=> n[Len(n)] = NoLabel
  <2>1. Len(n) \in 1..Len(n)
    BY <1>1
  <2> QED BY <1>1, <2>1, LowerLabels
<1>3. Lower(n) \in Name
  BY <1>1, <1>2, EmptySeq DEF Name, Invalid
<1>4. k \in Nat \ {0} /\ k <= Len(n)
  <2>1. \A x \in Nat \ {0} : /\ x <= x
                              /\ x > 1 => x - 1 \in Nat /\ x - 1 # 0 /\ x - 1 <= x
    OBVIOUS
  <2>2. CASE Len(n) > 1 /\ n[Len(n)] = NoLabel
    <3>1. k = Len(n) - 1 /\ Len(n) > 1
      BY <2>2
    <3> HIDE DEF k
    <3> QED BY <1>1, <2>1, <3>1
  <2>3. CASE ~(Len(n) > 1 /\ n[Len(n)] = NoLabel)
    <3>1. k = Len(n)
      BY <2>3
    <3> HIDE DEF k
    <3> QED BY <1>1, <2>1, <3>1
  <2> QED BY <2>2, <2>3
<1>5. /\ TrimDot(n) \in Name /\ TrimDot(n) \in Seq(STRING) /\ Len(TrimDot(n)) = k
      /\ \A i \in 1..k : TrimDot(n)[i] = n[i]
  BY TrimDotLabels, NameHasLabels
<1>6. /\ TrimDot(Lower(n)) \in Seq(STRING) /\ Len(TrimDot(Lower(n))) = k
      /\ \A i \in 1..k : TrimDot(Lower(n))[i] = Lower(n)[i]
  BY <1>2, <1>3, TrimDotLabels, NameHasLabels
<1> HIDE DEF k
<1>7. /\ Lower(TrimDot(n)) \in Seq(STRING) /\ Len(Lower(TrimDot(n))) = k
      /\ \A i \in 1..k : Lower(TrimDot(n))[i] = Lower(n)[i]
  <2>1. \A i \in 1..k : i \in 1..Len(n)
    BY <1>1, <1>4
  <2>2. /\ Lower(TrimDot(n)) \in Seq(STRING) /\ Len(Lower(TrimDot(n))) = k
        /\ \A i \in 1..k : Lower(TrimDot(n))[i] =
              IF TrimDot(n)[i] \in DOMAIN LowerCase THEN LowerCase[TrimDot(n)[i]]
              ELSE TrimDot(n)[i]
    BY <1>5, LowerLabels
  <2>3. \A i \in 1..Len(n) : Lower(n)[i] =
              IF n[i] \in DOMAIN LowerCase THEN LowerCase[n[i]] ELSE n[i]
    BY <1>1, LowerLabels
  <2>4. ASSUME NEW i \in 1..k
        PROVE  Lower(TrimDot(n))[i] = Lower(n)[i]
    BY <1>5, <2>1, <2>2, <2>3
  <2> QED BY <2>2, <2>4
<1>8. Lower(TrimDot(n)) \in Name
  BY <1>4, <1>7, EmptySeq DEF Name, Invalid
<1>9. TrimDot(Lower(n)) = Lower(TrimDot(n))
  BY <1>6, <1>7, SameLabels
<1> QED BY <1>3, <1>8, <1>9

\* Every host is normal for both packages and for the patterns.
LEMMA HostStays ==
    ASSUME NEW h \in Host
    PROVE  /\ h \in Name /\ h # Invalid
           /\ Lower(h) = h /\ TrimDot(h) = h
           /\ NormalizeHost(h) = h /\ ExactHost(h) = h
           /\ ~IsWildcard(h) /\ NormalizePattern(h) = h /\ Sample(h) = h
<1>1. /\ h \in Name /\ h \in Seq(STRING) /\ Len(h) \in Nat \ {0} /\ Head(h) = h[1]
      /\ DOMAIN h = 1..Len(h) /\ h # Invalid /\ Last(h) = h[Len(h)]
      /\ \A i \in 1..Len(h) : h[i] \in Plain
  BY HostLabels, NameHasLabels DEF Host
<1>2. 1 \in 1..Len(h) /\ Len(h) \in 1..Len(h)
  BY <1>1
<1>3. \A x \in Plain : x \notin DOMAIN LowerCase /\ x # NoLabel /\ x # "*" /\ x \notin NonAscii
  BY LabelClasses
<1>4. Lower(h) = h
  <2>1. /\ Lower(h) \in Seq(STRING) /\ Len(Lower(h)) = Len(h)
        /\ \A i \in 1..Len(h) : Lower(h)[i] =
              IF h[i] \in DOMAIN LowerCase THEN LowerCase[h[i]] ELSE h[i]
    BY <1>1, LowerLabels
  <2>2. \A i \in 1..Len(h) : Lower(h)[i] = h[i]
    BY <1>1, <1>3, <2>1
  <2> QED BY <1>1, <2>1, <2>2, SameLabels
<1>5. TrimDot(h) = h
  BY <1>1, <1>2, <1>3 DEF TrimDot
<1>6. ExactHost(h) = h
  BY <1>1, <1>4, <1>5 DEF ExactHost
<1>7. NormalizeHost(h) = h
  <2>1. h # <<NoLabel>>
    <3>1. <<NoLabel>>[1] = NoLabel
      OBVIOUS
    <3>2. h[1] # NoLabel
      BY <1>1, <1>2, <1>3
    <3> QED BY <3>1, <3>2
  <2> QED BY <1>1, <1>3, <1>4, <1>5, <2>1 DEF NormalizeHost
<1>8. ~IsWildcard(h)
  BY <1>1, <1>2, <1>3 DEF IsWildcard
<1> QED BY <1>1, <1>4, <1>5, <1>6, <1>7, <1>8 DEF NormalizePattern, Sample

\* Both normalisations agree on every exact name, and ExactHost refuses the rest.
LEMMA ExactIsNormal ==
    ASSUME NEW n \in Name
    PROVE  /\ NormalizeHost(n) \in {Invalid, Lower(TrimDot(n))}
           /\ ExactHost(n) = IF NormalizeHost(n) \in Host THEN NormalizeHost(n) ELSE Invalid
<1> DEFINE t == Lower(TrimDot(n))
<1>1. t \in Name /\ TrimDot(Lower(n)) = t
  BY TrimLower
<1>2. ExactHost(n) = IF \A i \in DOMAIN t : t[i] \in Plain THEN t ELSE Invalid
  BY <1>1 DEF ExactHost
<1>3. NormalizeHost(n) = IF t = <<NoLabel>> \/ \E i \in DOMAIN t : t[i] \in NonAscii
                         THEN Invalid ELSE t
  BY DEF NormalizeHost
<1> HIDE DEF t
<1>4. DOMAIN t = 1..Len(t) /\ Invalid \notin Host
  BY <1>1, NameHasLabels DEF Host
<1>5. t \in Host <=> \A i \in DOMAIN t : t[i] \in Plain
  BY <1>1, <1>4, HostLabels
<1>6. t \in Host => t # <<NoLabel>> /\ \A i \in DOMAIN t : t[i] \notin NonAscii
  <2>1. <<NoLabel>>[1] = NoLabel /\ DOMAIN <<NoLabel>> = 1..1
    OBVIOUS
  <2>2. NoLabel \notin Plain /\ Plain \intersect NonAscii = {}
    BY LabelClasses
  <2>3. ASSUME t \in Host, t = <<NoLabel>> PROVE FALSE
    <3>1. 1 \in DOMAIN t
      <4>1. DOMAIN t = 1..1
        BY <2>1, <2>3
      <4> QED BY <4>1
    <3>2. t[1] \in Plain
      BY <1>5, <2>3, <3>1
    <3> QED BY <2>1, <2>2, <2>3, <3>2
  <2> QED BY <1>5, <2>2, <2>3
<1> QED BY <1>2, <1>3, <1>4, <1>5, <1>6 DEF t

\* The pattern of a host, and the host that stands for it.
LEMMA WildcardStays ==
    ASSUME NEW h \in Host, NEW w, w = <<"*">> \o h
    PROVE  /\ w \in Name /\ Len(w) = Len(h) + 1 /\ w # Invalid /\ w \notin Host
           /\ IsWildcard(w) /\ Head(w) = "*" /\ Tail(w) = h
           /\ NormalizePattern(w) = w
           /\ Sample(w) \in Host /\ Below(Sample(w), h)
<1>1. h \in Name /\ h \in Seq(STRING) /\ Len(h) \in Nat \ {0} /\ \A i \in 1..Len(h) : h[i] \in Plain
  BY HostLabels, NameHasLabels
<1>2. /\ w \in Name /\ Len(w) = Len(h) + 1 /\ w # Invalid
      /\ w[1] = "*" /\ Head(w) = "*" /\ Tail(w) = h
  <2>1. "*" \in STRING
    BY LabelClasses
  <2> QED BY <1>1, <2>1, WithLabel DEF Name
<1>3. IsWildcard(w)
  BY <1>1, <1>2 DEF IsWildcard
<1>4. NormalizePattern(w) = w
  BY <1>2, <1>3, HostStays DEF NormalizePattern
<1>5. w \notin Host
  BY <1>3, HostStays
<1> DEFINE s == <<"subdomain">> \o h
<1>6. Sample(w) = s
  BY <1>2, <1>3 DEF Sample
<1>7. /\ s \in Name /\ s \in Seq(STRING) /\ Len(s) = Len(h) + 1
      /\ s[1] = "subdomain" /\ \A i \in 1..Len(h) : s[i + 1] = h[i]
  <2>1. "subdomain" \in STRING
    BY LabelClasses
  <2>2. /\ s \in Name /\ Len(s) = Len(h) + 1
        /\ s[1] = "subdomain" /\ \A i \in 1..Len(h) : s[i + 1] = h[i]
    BY <1>1, <2>1, WithLabel
  <2> QED BY <2>2, NameHasLabels
<1> HIDE DEF s
<1>8. s \in Host
  <2>1. ASSUME NEW i \in 1..Len(s) PROVE s[i] \in Plain
    <3>1. CASE i = 1
      BY <1>7, <3>1, LabelClasses
    <3>2. CASE i # 1
      <4>1. i - 1 \in 1..Len(h) /\ i - 1 + 1 = i
        BY <1>1, <1>7, <3>2
      <4> QED BY <1>1, <1>7, <4>1
    <3> QED BY <3>1, <3>2
  <2> QED BY <1>7, <2>1, HostLabels
<1>9. Below(s, h)
  <2>1. Len(s) > Len(h) /\ Len(s) - Len(h) = 1
    BY <1>1, <1>7
  <2>2. \A i \in 1..Len(h) : s[Len(s) - Len(h) + i] = h[i]
    <3>1. \A i \in 1..Len(h) : 1 + i = i + 1
      BY <1>1
    <3> QED BY <1>7, <2>1, <3>1
  <2> QED BY <1>1, <1>7, <2>1, <2>2, BelowLabels
<1> QED BY <1>2, <1>3, <1>4, <1>5, <1>6, <1>8, <1>9

\* normalizePattern is idempotent, and its result matches the host it stands for.
LEMMA PatternStays ==
    ASSUME NEW p \in Pattern
    PROVE  /\ p \in Name /\ p # Invalid /\ NormalizePattern(p) = p
           /\ Sample(p) \in Host /\ Matches(p, Sample(p))
           /\ IsWildcard(p) => Tail(p) \in Host /\ Head(p) = "*"
           /\ ~IsWildcard(p) => p \in Host
<1>1. CASE p \in Host
  BY <1>1, HostStays DEF Matches
<1>2. CASE p \notin Host
  <2>1. PICK h \in Host : p = <<"*">> \o h
    BY <1>2 DEF Pattern
  <2> QED BY <2>1, WildcardStays DEF Matches
<1> QED BY <1>1, <1>2

\* normalizePattern returns a pattern or an error.
LEMMA NormalizePatternReturns ==
    ASSUME NEW n \in Name
    PROVE  NormalizePattern(n) \in Pattern \union {Invalid}
<1>1. CASE ~IsWildcard(n)
  BY <1>1, ExactIsNormal DEF NormalizePattern, Pattern
<1>2. CASE IsWildcard(n)
  <2>1. Tail(n) \in Name
    BY <1>2, TailLabels DEF IsWildcard
  <2> QED BY <1>2, <2>1, ExactIsNormal DEF NormalizePattern, Pattern
<1> QED BY <1>1, <1>2

\* ExactHost, by what it makes of the name.
LEMMA ExactMeans ==
    ASSUME NEW n \in Name
    PROVE  ExactHost(n) = IF Lower(TrimDot(n)) \in Host THEN Lower(TrimDot(n)) ELSE Invalid
<1> DEFINE t == Lower(TrimDot(n))
<1>1. t \in Name /\ TrimDot(Lower(n)) = t
  BY TrimLower
<1>2. ExactHost(n) = IF \A i \in DOMAIN t : t[i] \in Plain THEN t ELSE Invalid
  BY <1>1 DEF ExactHost
<1> HIDE DEF t
<1>3. t \in Host <=> \A i \in DOMAIN t : t[i] \in Plain
  BY <1>1, HostLabels, NameHasLabels
<1> QED BY <1>2, <1>3 DEF t

\* What is in lower case and without a trailing dot stays as it is.
LEMMA SettledName ==
    ASSUME NEW t \in Name, Last(t) # NoLabel,
           \A i \in 1..Len(t) : t[i] \notin DOMAIN LowerCase
    PROVE  /\ Lower(t) = t /\ TrimDot(t) = t
           /\ ExactHost(t) = IF t \in Host THEN t ELSE Invalid
<1>1. t \in Seq(STRING) 
  BY NameHasLabels
<1>2. Lower(t) = t
  <2>1. /\ Lower(t) \in Seq(STRING) /\ Len(Lower(t)) = Len(t)
        /\ \A i \in 1..Len(t) : Lower(t)[i] =
              IF t[i] \in DOMAIN LowerCase THEN LowerCase[t[i]] ELSE t[i]
    BY <1>1, LowerLabels
  <2> QED BY <1>1, <2>1, SameLabels
<1>3. TrimDot(t) = t
  BY <1>1 DEF TrimDot
<1> QED BY <1>2, <1>3, ExactMeans

(***************************************************************************)
(* A configured host goes through profile.NormalizeHost and then through   *)
(* pki's normalizePattern: the second changes nothing that the first has   *)
(* left, short of refusing it, and would give the same without the first,  *)
(* unless a second trailing dot is there to be trimmed.                    *)
(***************************************************************************)
LEMMA NormalTwice ==
    ASSUME NEW c \in Name, NEW n \in Name, n = NormalizeHost(c), Last(n) # NoLabel
    PROVE  /\ n = Lower(TrimDot(c))
           /\ NormalizePattern(n) \in {n, Invalid}
           /\ NormalizePattern(c) = NormalizePattern(n)
<1>1. n = Lower(TrimDot(c)) /\ n \in Name
  BY TrimLower, ExactIsNormal DEF Name
<1>2. /\ c \in Seq(STRING) /\ Len(c) \in Nat \ {0} /\ Head(c) = c[1]
      /\ n \in Seq(STRING) /\ Len(n) \in Nat \ {0} /\ Head(n) = n[1]
      /\ 1 \in 1..Len(c) /\ 1 \in 1..Len(n) /\ Len(n) \in 1..Len(n)
      /\ n[Len(n)] # NoLabel
  BY <1>1, NameHasLabels
<1>3. /\ TrimDot(c) \in Name /\ TrimDot(c) \in Seq(STRING) /\ Len(TrimDot(c)) = Len(n)
      /\ Len(n) = Len(c) \/ (Len(n) = Len(c) - 1 /\ c[Len(c)] = NoLabel /\ Len(c) > 1)
      /\ \A i \in 1..Len(n) : TrimDot(c)[i] = c[i]
  <2>1. /\ TrimDot(c) \in Name /\ TrimDot(c) \in Seq(STRING)
        /\ Len(TrimDot(c)) = IF Len(c) > 1 /\ c[Len(c)] = NoLabel THEN Len(c) - 1 ELSE Len(c)
        /\ \A i \in 1..Len(TrimDot(c)) : TrimDot(c)[i] = c[i]
    BY TrimDotLabels, NameHasLabels
  <2>2. Len(TrimDot(c)) = Len(n)
    BY <1>1, <2>1, LowerLabels
  <2> QED BY <2>1, <2>2
<1>4. \A i \in 1..Len(n) : /\ n[i] = IF c[i] \in DOMAIN LowerCase THEN LowerCase[c[i]] ELSE c[i]
                           /\ n[i] \notin DOMAIN LowerCase
                           /\ n[i] = NoLabel <=> c[i] = NoLabel
                           /\ n[i] = "*" <=> c[i] = "*"
  BY <1>1, <1>3, LowerLabels
<1>5. Lower(n) = n /\ TrimDot(n) = n /\ ExactHost(n) = IF n \in Host THEN n ELSE Invalid
  BY <1>1, <1>4, SettledName
<1>6. CASE ~IsWildcard(c)
  <2>1. ~IsWildcard(n)
    <3>1. Len(n) <= Len(c)
      BY <1>2, <1>3
    <3>2. Len(n) > 1 => Len(c) > 1
      BY <1>2, <3>1
    <3> QED BY <1>2, <1>4, <1>6, <3>2 DEF IsWildcard
  <2>2. ExactHost(c) = IF n \in Host THEN n ELSE Invalid
    BY <1>1, ExactMeans
  <2> QED BY <1>1, <1>5, <1>6, <2>1, <2>2 DEF NormalizePattern
<1>7. CASE IsWildcard(c) /\ Len(n) = 1
  <2>1. n \notin Host /\ ~IsWildcard(n)
    <3>1. n[1] = "*"
      BY <1>2, <1>4, <1>7 DEF IsWildcard
    <3>2. "*" \notin Plain
      BY LabelClasses
    <3> QED BY <1>1, <1>2, <1>7, <3>1, <3>2, HostLabels DEF IsWildcard
  <2>2. Len(c) = 2 /\ c[2] = NoLabel
    <3>1. Len(c) > 1
      BY <1>7 DEF IsWildcard
    <3>2. Len(n) # Len(c)
      <4>1. \A x, y \in Nat : x = 1 /\ y > 1 => x # y
        OBVIOUS
      <4> QED BY <1>2, <1>7, <3>1, <4>1
    <3>3. Len(n) = Len(c) - 1 /\ c[Len(c)] = NoLabel
      BY <1>3, <3>2
    <3>4. Len(c) = 2
      <4>1. \A x, y \in Nat : x = 1 /\ x = y - 1 => y = 2
        OBVIOUS
      <4> QED BY <1>2, <1>7, <3>3, <4>1
    <3> QED BY <3>3, <3>4
  <2>3. Tail(c) \in Name /\ Len(Tail(c)) = 1 /\ Tail(c)[1] = NoLabel
    <3>1. 2 > 1 /\ 2 - 1 = 1 /\ 1 \in 1..1 /\ 1 + 1 = 2
      OBVIOUS
    <3> QED BY <2>2, <3>1, TailLabels
  <2>4. TrimDot(Tail(c)) = Tail(c)
    <3>1. ~(1 > 1)
      OBVIOUS
    <3> QED BY <2>3, <3>1 DEF TrimDot
  <2>5. Lower(Tail(c)) \in Name /\ Len(Lower(Tail(c))) = 1 /\ Lower(Tail(c))[1] = NoLabel
    <3>1. 1 \in 1..1
      OBVIOUS
    <3> QED BY <2>3, <3>1, TrimLower, NameHasLabels, LowerLabels
  <2>6. Lower(Tail(c)) \notin Host
    <3>1. 1 \in 1..1 /\ NoLabel \notin Plain
      BY LabelClasses
    <3> QED BY <2>5, <3>1, HostLabels
  <2>7. ExactHost(Tail(c)) = Invalid
    BY <2>3, <2>4, <2>6, ExactMeans
  <2> QED BY <1>1, <1>5, <1>7, <2>1, <2>7 DEF NormalizePattern
<1>8. CASE IsWildcard(c) /\ Len(n) # 1
  <2>1. Len(n) > 1 /\ Len(c) > 1 /\ Len(n) - 1 \in Nat \ {0} /\ Len(c) - 1 \in Nat \ {0}
    <3>1. Len(n) \in Nat \ {0} /\ Len(n) # 1 /\ Len(c) \in Nat /\ Len(c) > 1
      BY <1>2, <1>8 DEF IsWildcard
    <3>2. Len(n) > 1
      <4>1. \A x \in Nat : x # 0 /\ x # 1 => x > 1
        OBVIOUS
      <4> QED BY <3>1, <4>1
    <3>3. \A x \in Nat : x > 1 => x - 1 \in Nat /\ x - 1 # 0
      OBVIOUS
    <3> QED BY <3>1, <3>2, <3>3
  <2>2. IsWildcard(n) /\ n[1] = "*"
    BY <1>2, <1>4, <1>8, <2>1 DEF IsWildcard
  <2>3. /\ Tail(n) \in Name /\ Tail(n) \in Seq(STRING) /\ Len(Tail(n)) = Len(n) - 1
        /\ \A i \in 1..Len(n) - 1 : Tail(n)[i] = n[i + 1]
        /\ Tail(c) \in Name /\ Tail(c) \in Seq(STRING) /\ Len(Tail(c)) = Len(c) - 1
        /\ \A i \in 1..Len(c) - 1 : Tail(c)[i] = c[i + 1]
    BY <1>1, <2>1, TailLabels
  <2>4. Last(Tail(n)) # NoLabel /\ \A i \in 1..Len(n) - 1 : Tail(n)[i] \notin DOMAIN LowerCase
    <3>1. Len(n) - 1 \in 1..Len(n) - 1 /\ Len(n) - 1 + 1 = Len(n)
      BY <1>2, <2>1
    <3>2. \A i \in 1..Len(n) - 1 : i + 1 \in 1..Len(n)
      BY <1>2
    <3>3. Last(Tail(n)) = n[Len(n)]
      BY <2>3, <3>1 DEF Last
    <3> QED BY <1>2, <1>4, <2>3, <3>2, <3>3
  <2>5. ExactHost(Tail(n)) = IF Tail(n) \in Host THEN Tail(n) ELSE Invalid
    BY <2>3, <2>4, SettledName
  <2>6. Lower(TrimDot(Tail(c))) = Tail(n)
    <3> DEFINE t == TrimDot(Tail(c))
    <3>1. /\ t \in Name /\ t \in Seq(STRING)
          /\ Len(t) = IF Len(c) - 1 > 1 /\ Tail(c)[Len(c) - 1] = NoLabel THEN Len(c) - 1 - 1 ELSE Len(c) - 1
          /\ \A i \in 1..Len(t) : t[i] = Tail(c)[i]
      BY <2>3, TrimDotLabels, NameHasLabels
    <3>2. Tail(c)[Len(c) - 1] = c[Len(c)]
      <4>1. Len(c) - 1 \in 1..Len(c) - 1 /\ Len(c) - 1 + 1 = Len(c)
        BY <1>2, <2>1
      <4> QED BY <2>3, <4>1
    <3>3. Len(t) = Len(n) - 1
      <4>1. CASE Len(n) = Len(c)
        <5>1. c[Len(c)] # NoLabel
          BY <1>2, <1>4, <4>1
        <5>2. Len(t) = Len(c) - 1
          <6> HIDE DEF t
          <6> QED BY <3>1, <3>2, <5>1
        <5> HIDE DEF t
        <5> QED BY <4>1, <5>2
      <4>2. CASE Len(n) # Len(c)
        <5>1. Len(n) = Len(c) - 1 /\ c[Len(c)] = NoLabel
          BY <1>3, <4>2
        <5>2. Len(c) - 1 > 1
          BY <1>2, <2>1, <5>1
        <5>3. Len(t) = Len(c) - 1 - 1
          <6> HIDE DEF t
          <6> QED BY <3>1, <3>2, <5>1, <5>2
        <5> HIDE DEF t
        <5> QED BY <5>1, <5>3
      <4> QED BY <4>1, <4>2
    <3>4. ASSUME NEW i \in 1..Len(n) - 1 PROVE Lower(t)[i] = Tail(n)[i]
      <4> HIDE DEF t
      <4>1. i \in 1..Len(c) - 1 /\ i + 1 \in 1..Len(n)
        BY <1>2, <1>3
      <4>2. t[i] = c[i + 1]
        BY <2>3, <3>1, <3>3, <4>1
      <4>3. Lower(t)[i] = IF t[i] \in DOMAIN LowerCase THEN LowerCase[t[i]] ELSE t[i]
        BY <3>1, <3>3, LowerLabels
      <4>4. Tail(n)[i] = n[i + 1]
        BY <2>3
      <4> QED BY <1>4, <4>1, <4>2, <4>3, <4>4
    <3>5. Lower(t) \in Seq(STRING) /\ Len(Lower(t)) = Len(n) - 1
      BY <3>1, <3>3, LowerLabels
    <3> HIDE DEF t
    <3>6. Lower(t) = Tail(n)
      BY <2>3, <3>4, <3>5, SameLabels
    <3> QED BY <3>6 DEF t
  <2>7. ExactHost(Tail(c)) = ExactHost(Tail(n))
    BY <2>3, <2>5, <2>6, ExactMeans
  <2>8. <<"*">> \o Tail(n) = n
    <3>1. "*" \in STRING
      BY LabelClasses
    <3> DEFINE w == <<"*">> \o Tail(n)
    <3>2. /\ w \in Seq(STRING) /\ Len(w) = Len(n) - 1 + 1 /\ w[1] = "*"
          /\ \A i \in 1..Len(n) - 1 : w[i + 1] = Tail(n)[i]
      BY <2>3, <3>1, WithLabel, NameHasLabels
    <3> HIDE DEF w
    <3>3. ASSUME NEW i \in 1..Len(n) PROVE w[i] = n[i]
      <4>1. CASE i = 1
        BY <2>2, <3>2, <4>1
      <4>2. CASE i # 1
        <5>1. i - 1 \in 1..Len(n) - 1 /\ i - 1 + 1 = i
          BY <1>2, <4>2
        <5> QED BY <2>3, <3>2, <5>1
      <4> QED BY <4>1, <4>2
    <3>4. Len(w) = Len(n)
      BY <1>2, <3>2
    <3>5. w = n
      BY <1>2, <3>2, <3>3, <3>4, SameLabels
    <3> QED BY <3>5 DEF w
  <2>9. Tail(n) # Invalid
    BY <2>3 DEF Name
  <2> QED BY <1>1, <1>8, <2>2, <2>5, <2>7, <2>8, <2>9 DEF NormalizePattern
<1> QED BY <1>6, <1>7, <1>8

\* No host of a route ends with a dot, and nothing that it matches does.
LEMMA RouteHostsEnd ==
    ASSUME NEW h \in Name, NormalizeHost(h) = h, NEW n \in Name, Matches(h, n)
    PROVE  Last(n) # NoLabel
<1>1. /\ h \in Seq(STRING) /\ n \in Seq(STRING) /\ h # Invalid
      /\ Len(h) \in Nat \ {0} /\ Len(n) \in Nat \ {0}
      /\ Last(h) = h[Len(h)] /\ Last(n) = n[Len(n)]
  BY NameHasLabels DEF Name
<1>2. h = Lower(TrimDot(h)) /\ h # <<NoLabel>>
  BY <1>1 DEF NormalizeHost
<1>3. Last(h) # NoLabel
  <2>1. CASE Len(h) > 1
    <3>1. Len(h) = Len(TrimDot(h))
      BY <1>2, TrimDotLabels, LowerLabels, NameHasLabels
    <3>2. Len(h) # Len(h) - 1
      BY <1>1
    <3> QED BY <1>1, <2>1, <3>1, <3>2, TrimDotLabels
  <2>2. CASE ~(Len(h) > 1)
    <3>1. Len(h) = 1
      <4>1. \A x \in Nat \ {0} : ~(x > 1) => x = 1
        OBVIOUS
      <4> QED BY <1>1, <2>2, <4>1
    <3>2. ASSUME h[1] = NoLabel PROVE FALSE
      <4>1. h[1] \in STRING
        <5>1. 1 \in 1..1
          OBVIOUS
        <5> QED BY <3>1, <5>1, NameHasLabels
      <4>2. <<NoLabel>> \in Seq(STRING) /\ Len(<<NoLabel>>) = 1 /\ <<NoLabel>>[1] = NoLabel
        <5>1. NoLabel \in STRING
          BY <3>2, <4>1
        <5>2. <<>> \in Seq(STRING) /\ Append(<<>>, NoLabel) = <<NoLabel>>
          OBVIOUS
        <5> QED BY <5>1, <5>2, AppendProperties
      <4>3. \A i \in 1..Len(h) : h[i] = <<NoLabel>>[i]
        <5>1. \A i \in 1..1 : i = 1
          OBVIOUS
        <5> QED BY <3>1, <3>2, <4>2, <5>1
      <4>4. h = <<NoLabel>>
        BY <1>1, <3>1, <4>2, <4>3, SameLabels
      <4> QED BY <1>2, <4>4
    <3> QED BY <1>1, <3>1, <3>2
  <2> QED BY <2>1, <2>2
<1>4. CASE h = n
  BY <1>3, <1>4
<1>5. CASE IsWildcard(h) /\ Below(n, Tail(h))
  <2>1. Len(h) > 1
    BY <1>5 DEF IsWildcard
  <2>2. /\ Tail(h) \in Seq(STRING) /\ Len(Tail(h)) = Len(h) - 1
        /\ \A i \in 1..Len(h) - 1 : Tail(h)[i] = h[i + 1]
    BY TailLabels
  <2>3. \A i \in 1..Len(h) - 1 : n[Len(n) - (Len(h) - 1) + i] = Tail(h)[i]
    <3>1. \A i \in 1..Len(Tail(h)) : n[Len(n) - Len(Tail(h)) + i] = Tail(h)[i]
      BY <1>1, <1>5, <2>2, BelowLabels
    <3> QED BY <2>2, <3>1
  <2>4. Len(h) - 1 \in 1..Len(h) - 1
    BY <1>1, <2>1
  <2>5. Len(n) - (Len(h) - 1) + (Len(h) - 1) = Len(n) /\ Len(h) - 1 + 1 = Len(h)
    BY <1>1
  <2> QED BY <1>1, <1>3, <2>2, <2>3, <2>4, <2>5
<1> QED BY <1>4, <1>5 DEF Matches

\* A pattern for a host below a pattern's domain is covered by that pattern.
LEMMA MatchesCompose ==
    ASSUME NEW r \in Name, NEW p \in Name, NEW host \in Name,
           Matches(r, p), Matches(p, host)
    PROVE  Matches(r, host)
<1>1. CASE p = host \/ r = p
  BY <1>1
<1>2. CASE ~(p = host \/ r = p)
  <2>1. /\ IsWildcard(r) /\ Below(p, Tail(r))
        /\ IsWildcard(p) /\ Below(host, Tail(p))
    BY <1>2 DEF Matches
  <2> DEFINE k == Len(r) - 1
             m == Len(p) - 1
             h == Len(host)
  <2>2. /\ Len(r) \in Nat \ {0} /\ Len(p) \in Nat \ {0} /\ h \in Nat \ {0}
        /\ p \in Seq(STRING) /\ host \in Seq(STRING)
    BY NameHasLabels
  <2>3. /\ Tail(r) \in Seq(STRING) /\ Len(Tail(r)) = k
        /\ Tail(p) \in Seq(STRING) /\ Len(Tail(p)) = m
        /\ \A i \in 1..m : Tail(p)[i] = p[i + 1]
    BY TailLabels
  <2>4. Len(p) > k /\ \A i \in 1..k : p[Len(p) - k + i] = Tail(r)[i]
    <3>1. /\ Len(p) > Len(Tail(r))
          /\ \A i \in 1..Len(Tail(r)) : p[Len(p) - Len(Tail(r)) + i] = Tail(r)[i]
      BY <2>1, <2>2, <2>3, BelowLabels
    <3> QED BY <2>3, <3>1
  <2>5. h > m /\ \A i \in 1..m : host[h - m + i] = Tail(p)[i]
    <3>1. /\ h > Len(Tail(p))
          /\ \A i \in 1..Len(Tail(p)) : host[h - Len(Tail(p)) + i] = Tail(p)[i]
      BY <2>1, <2>2, <2>3, BelowLabels
    <3> QED BY <2>3, <3>1
  <2>6. Len(p) = m + 1 /\ k \in Nat /\ m \in Nat /\ h \in Nat
    <3>1. \A x \in Nat \ {0} : x = x - 1 + 1 /\ x - 1 \in Nat
      OBVIOUS
    <3> QED BY <2>2, <3>1
  <2> HIDE DEF k, m, h
  <2>7. h > k
    BY <2>4, <2>5, <2>6
  <2>8. ASSUME NEW i \in 1..k PROVE host[h - k + i] = Tail(r)[i]
    <3> DEFINE j == m - k + i
    <3>1. j \in 1..m
      BY <2>4, <2>6
    <3>2. host[h - m + j] = p[j + 1]
      <4> HIDE DEF j
      <4> QED BY <2>3, <2>5, <3>1
    <3>3. h - m + j = h - k + i /\ j + 1 = Len(p) - k + i
      BY <2>6
    <3> QED BY <2>4, <3>2, <3>3
  <2>9. Below(host, Tail(r))
    BY <2>2, <2>3, <2>7, <2>8, BelowLabels DEF h
  <2> QED BY <2>1, <2>9 DEF Matches
<1> QED BY <1>1, <1>2

-------------------------------------------------------------------------------
(* The code's comparisons are those of the references. *)

\* The domains above a host are what it is below of.
LEMMA LineageIsAbove ==
    ASSUME NEW host \in Name, NEW s \in Seq(STRING)
    PROVE  /\ s \in Lineage(host) <=> s # <<>> /\ (s = host \/ Below(host, s))
           /\ s \in Lineage(host) \ {host} <=> s # <<>> /\ Below(host, s)
<1> DEFINE h == Len(host)
<1>1. /\ host \in Seq(STRING) /\ h \in Nat \ {0} /\ DOMAIN host = 1..h
      /\ \A i \in 1..h : host[i] \in STRING /\ Len(s) \in Nat
  BY NameHasLabels, LenProperties
<1>2. ASSUME NEW i \in 1..h
      PROVE  /\ SubSeq(host, i, h) \in Seq(STRING) /\ Len(SubSeq(host, i, h)) = h - i + 1
             /\ \A j \in 1..h - i + 1 : SubSeq(host, i, h)[j] = host[i + j - 1]
  <2>1. i \in Int /\ h \in Int /\ i <= h /\ \A j \in i..h : host[j] \in STRING
    BY <1>1
  <2> HIDE DEF h
  <2>2. /\ SubSeq(host, i, h) \in Seq(STRING)
        /\ Len(SubSeq(host, i, h)) = IF i <= h THEN h - i + 1 ELSE 0
        /\ \A j \in 1..h - i + 1 : SubSeq(host, i, h)[j] = host[i + j - 1]
    BY <2>1, SubSeqProperties
  <2> QED BY <2>1, <2>2
<1>3. SubSeq(host, 1, h) = host
  BY <1>1, SubSeqFull
<1>4. Lineage(host) = {SubSeq(host, i, h) : i \in 1..h}
  BY <1>1 DEF Lineage
<1>5. s # <<>> <=> Len(s) # 0
  BY EmptySeq
<1>6. ASSUME s \in Lineage(host), s # host PROVE s # <<>> /\ Below(host, s)
  <2>1. PICK i \in 1..h : s = SubSeq(host, i, h)
    BY <1>4, <1>6
  <2>2. i # 1
    BY <1>3, <1>6, <2>1
  <2> HIDE DEF h
  <2>3. /\ Len(s) = h - i + 1 /\ Len(s) < h /\ Len(s) # 0
        /\ \A j \in 1..Len(s) : s[j] = host[i + j - 1]
    BY <1>1, <1>2, <2>1, <2>2
  <2>4. \A j \in 1..Len(s) : h - Len(s) + j = i + j - 1
    BY <1>1, <2>3
  <2> QED BY <1>1, <1>5, <2>3, <2>4, BelowLabels DEF h
<1>7. ASSUME s # <<>>, Below(host, s) PROVE s \in Lineage(host) /\ s # host
  <2>1. h > Len(s) /\ \A j \in 1..Len(s) : host[h - Len(s) + j] = s[j]
    BY <1>1, <1>7, BelowLabels
  <2>2. s # host
    <3>1. ~(h > h)
      BY <1>1
    <3> QED BY <2>1, <3>1
  <2> DEFINE i == h - Len(s) + 1
  <2> HIDE DEF h
  <2>3. i \in 1..h /\ h - i + 1 = Len(s) /\ \A j \in 1..Len(s) : i + j - 1 = h - Len(s) + j
    BY <1>1, <1>5, <1>7, <2>1
  <2> HIDE DEF i
  <2>4. /\ SubSeq(host, i, h) \in Seq(STRING) /\ Len(SubSeq(host, i, h)) = Len(s)
        /\ \A j \in 1..Len(s) : SubSeq(host, i, h)[j] = host[h - Len(s) + j]
    BY <1>2, <2>3
  <2>5. SubSeq(host, i, h) = s
    BY <2>1, <2>4, SameLabels
  <2> QED BY <1>4, <2>2, <2>3, <2>5
<1>8. host \in Lineage(host) /\ host # <<>>
  <2>1. 1 \in 1..h
    BY <1>1
  <2> QED BY <1>3, <1>4, <2>1 DEF Name, Invalid
<1> QED BY <1>6, <1>7, <1>8

\* The reference, for a name that begins with no dot: lower case, one dot less.
LEMMA BareOfName ==
    ASSUME NEW c \in Name, Head(c) # NoLabel
    PROVE  Bare(c) = Lower(TrimDot(c))
<1> DEFINE t == Lower(TrimDot(c))
           k == IF Len(c) > 1 /\ c[Len(c)] = NoLabel THEN Len(c) - 1 ELSE Len(c)
<1>1. /\ c \in Seq(STRING) /\ Len(c) \in Nat \ {0} /\ Head(c) = c[1]
      /\ Last(c) = c[Len(c)]
  BY NameHasLabels
<1>2. /\ Lower(c) \in Seq(STRING) /\ Len(Lower(c)) = Len(c)
      /\ \A i \in 1..Len(c) : Lower(c)[i] \in STRING
  BY <1>1, LowerLabels, ElementOfSeq
<1>3. k = IF Last(c) = NoLabel THEN Len(c) - 1 ELSE Len(c)
  <2>1. CASE Len(c) > 1
    BY <1>1, <2>1
  <2>2. CASE ~(Len(c) > 1)
    <3>1. Len(c) = 1
      <4>1. \A x \in Nat \ {0} : ~(x > 1) => x = 1
        OBVIOUS
      <4> QED BY <1>1, <2>2, <4>1
    <3>2. Last(c) # NoLabel
      BY <1>1, <3>1
    <3> QED BY <1>1, <2>2, <3>2
  <2> QED BY <2>1, <2>2
<1>4. /\ TrimDot(c) \in Seq(STRING) /\ Len(TrimDot(c)) = k
      /\ \A i \in 1..k : TrimDot(c)[i] = c[i]
  BY TrimDotLabels, NameHasLabels
<1>5. Bare(c) = SubSeq(Lower(c), 1, k)
  BY <1>3 DEF Bare
<1> HIDE DEF k
<1>6. k \in Nat /\ k <= Len(c)
  <2>1. \A x \in Nat \ {0} : x - 1 \in Nat /\ x - 1 <= x /\ x <= x
    OBVIOUS
  <2>2. k = Len(c) - 1 \/ k = Len(c)
    BY <1>3
  <2> QED BY <1>1, <2>1, <2>2
<1>7. /\ SubSeq(Lower(c), 1, k) \in Seq(STRING) /\ Len(SubSeq(Lower(c), 1, k)) = k
      /\ \A i \in 1..k : SubSeq(Lower(c), 1, k)[i] = Lower(c)[i]
  <2>1. 1 \in Int /\ k \in Int /\ \A i \in 1..k : i \in 1..Len(c)
    BY <1>1, <1>6
  <2>2. /\ SubSeq(Lower(c), 1, k) \in Seq(STRING)
        /\ Len(SubSeq(Lower(c), 1, k)) = IF 1 <= k THEN k - 1 + 1 ELSE 0
        /\ \A i \in 1..k - 1 + 1 : SubSeq(Lower(c), 1, k)[i] = Lower(c)[1 + i - 1]
    BY <1>2, <2>1, SubSeqProperties
  <2> QED BY <1>6, <2>2
<1>8. t \in Seq(STRING) /\ Len(t) = k
  BY <1>4, LowerLabels
<1>9. ASSUME NEW i \in 1..k PROVE t[i] = Lower(c)[i]
  <2>1. t[i] = IF TrimDot(c)[i] \in DOMAIN LowerCase THEN LowerCase[TrimDot(c)[i]]
               ELSE TrimDot(c)[i]
    BY <1>4, LowerLabels
  <2>2. i \in 1..Len(c)
    BY <1>1, <1>6
  <2>3. Lower(c)[i] = IF c[i] \in DOMAIN LowerCase THEN LowerCase[c[i]] ELSE c[i]
    BY <1>1, <2>2, LowerLabels
  <2> QED BY <1>4, <2>1, <2>3
<1> HIDE DEF t
<1>10. SubSeq(Lower(c), 1, k) = t
  BY <1>7, <1>8, <1>9, SameLabels
<1> QED BY <1>5, <1>10 DEF t

\* The reference, for a constraint that begins with a dot.
LEMMA BareOfDotted ==
    ASSUME NEW d \in Name, Head(d) = NoLabel, NEW t \in Name, t = Lower(TrimDot(d))
    PROVE  /\ Head(t) = NoLabel
           /\ Len(t) > 1 => Bare(d) = Tail(t)
           /\ ~(Len(t) > 1) => Bare(d) = <<>>
<1> DEFINE k == IF Last(d) = NoLabel THEN Len(d) - 1 ELSE Len(d)
<1>1. /\ d \in Seq(STRING) /\ Len(d) \in Nat \ {0} /\ Head(d) = d[1] /\ Last(d) = d[Len(d)]
      /\ t \in Seq(STRING) /\ Len(t) \in Nat \ {0} /\ Head(t) = t[1]
  BY NameHasLabels
<1>2. /\ Lower(d) \in Seq(STRING) /\ Len(Lower(d)) = Len(d)
      /\ \A i \in 1..Len(d) : Lower(d)[i] \in STRING
  BY <1>1, LowerLabels, ElementOfSeq
<1>3. /\ TrimDot(d) \in Seq(STRING) /\ Len(t) = Len(TrimDot(d))
      /\ \A i \in 1..Len(t) : /\ TrimDot(d)[i] = d[i]
                              /\ t[i] = NoLabel <=> TrimDot(d)[i] = NoLabel
      /\ Len(t) = IF Len(d) > 1 /\ d[Len(d)] = NoLabel THEN Len(d) - 1 ELSE Len(d)
  <2>1. /\ TrimDot(d) \in Seq(STRING)
        /\ Len(TrimDot(d)) = IF Len(d) > 1 /\ d[Len(d)] = NoLabel THEN Len(d) - 1 ELSE Len(d)
        /\ \A i \in 1..Len(TrimDot(d)) : TrimDot(d)[i] = d[i]
    BY TrimDotLabels, NameHasLabels
  <2>2. Len(t) = Len(TrimDot(d))
    BY <2>1, LowerLabels
  <2>3. \A i \in 1..Len(TrimDot(d)) : t[i] = NoLabel <=> TrimDot(d)[i] = NoLabel
    BY <2>1, LowerLabels
  <2> QED BY <2>1, <2>2, <2>3
<1>4. \A i \in 1..Len(t) : t[i] = Lower(d)[i]
  <2> TAKE i \in 1..Len(t)
  <2>1. t[i] = IF TrimDot(d)[i] \in DOMAIN LowerCase THEN LowerCase[TrimDot(d)[i]]
               ELSE TrimDot(d)[i]
    BY <1>3, LowerLabels
  <2>2. i \in 1..Len(d)
    <3>1. \A x \in Nat \ {0} : x - 1 <= x /\ x <= x
      OBVIOUS
    <3>2. Len(t) <= Len(d)
      BY <1>1, <1>3, <3>1
    <3> QED BY <1>1, <3>2
  <2>3. Lower(d)[i] = IF d[i] \in DOMAIN LowerCase THEN LowerCase[d[i]] ELSE d[i]
    BY <1>1, <2>2, LowerLabels
  <2> QED BY <1>3, <2>1, <2>3
<1>5. Head(t) = NoLabel
  <2>1. 1 \in 1..Len(t)
    BY <1>1
  <2> QED BY <1>1, <1>3, <2>1
<1>6. Bare(d) = SubSeq(Lower(d), 2, k)
  BY DEF Bare
<1>7. CASE Len(t) > 1
  <2>1. k = Len(t)
    <3>1. Len(d) > 1
      <4>1. \A x, y \in Nat \ {0} : y > 1 /\ (y = x - 1 \/ y = x) => x > 1
        OBVIOUS
      <4>2. Len(t) = Len(d) - 1 \/ Len(t) = Len(d)
        BY <1>3
      <4> QED BY <1>1, <1>7, <4>1, <4>2
    <3> QED BY <1>1, <1>3, <3>1
  <2> HIDE DEF k
  <2>2. k <= Len(d)
    <3>1. \A x \in Nat \ {0} : x - 1 <= x /\ x <= x
      OBVIOUS
    <3> QED BY <1>1, <1>3, <2>1, <3>1
  <2>3. 2 \in Int /\ k \in Int /\ \A i \in 2..k : Lower(d)[i] \in STRING
    <3>1. \A i \in 2..k : i \in 1..Len(d)
      BY <1>1, <2>1, <2>2
    <3> QED BY <1>1, <1>2, <2>1, <3>1
  <2>4. /\ SubSeq(Lower(d), 2, k) \in Seq(STRING)
        /\ Len(SubSeq(Lower(d), 2, k)) = IF 2 <= k THEN k - 2 + 1 ELSE 0
        /\ \A i \in 1..k - 2 + 1 : SubSeq(Lower(d), 2, k)[i] = Lower(d)[2 + i - 1]
    BY <2>3, SubSeqProperties
  <2>5. k \in Nat /\ k > 1
    BY <1>1, <1>7, <2>1
  <2>6. /\ Len(SubSeq(Lower(d), 2, k)) = k - 1
        /\ \A i \in 1..k - 1 : SubSeq(Lower(d), 2, k)[i] = Lower(d)[i + 1]
    BY <2>4, <2>5
  <2>7. /\ Tail(t) \in Seq(STRING) /\ Len(Tail(t)) = k - 1
        /\ \A i \in 1..k - 1 : Tail(t)[i] = t[i + 1]
    BY <2>1, TailLabels
  <2>8. \A i \in 1..k - 1 : i + 1 \in 1..Len(t)
    BY <2>1, <2>5
  <2>9. \A i \in 1..k - 1 : SubSeq(Lower(d), 2, k)[i] = Tail(t)[i]
    BY <1>4, <2>6, <2>7, <2>8
  <2>10. SubSeq(Lower(d), 2, k) = Tail(t)
    BY <2>4, <2>6, <2>7, <2>9, SameLabels
  <2> QED BY <1>5, <1>6, <1>7, <2>10
<1>8. CASE ~(Len(t) > 1)
  <2>1. k \in Int /\ k < 2
    <3>1. Len(t) = 1
      <4>1. \A x \in Nat \ {0} : ~(x > 1) => x = 1
        OBVIOUS
      <4> QED BY <1>1, <1>8, <4>1
    <3>2. CASE Len(d) = 1
      <4>1. k = 0
        BY <1>1, <3>2
      <4> HIDE DEF k
      <4> QED BY <4>1
    <3>3. CASE Len(d) # 1
      <4>1. Len(d) > 1
        <5>1. \A x \in Nat \ {0} : x # 1 => x > 1
          OBVIOUS
        <5> QED BY <1>1, <3>3, <5>1
      <4>2. k = Len(t)
        BY <1>1, <1>3, <4>1
      <4> HIDE DEF k
      <4>3. k = 1
        BY <3>1, <4>2
      <4> QED BY <4>3
    <3> QED BY <3>2, <3>3
  <2> HIDE DEF k
  <2>2. SubSeq(Lower(d), 2, k) = <<>>
    BY <2>1, SubSeqEmpty
  <2> QED BY <1>5, <1>6, <1>8, <2>2
<1> QED BY <1>7, <1>8

(***************************************************************************)
(* domainMatches takes exactly the hosts in the constraint's domain, by    *)
(* the reference, whatever dots and capitals the constraint is spelled     *)
(* with.                                                                   *)
(***************************************************************************)
LEMMA DomainMatchesIsInDomain ==
    ASSUME NEW d \in Name, NEW host \in Host
    PROVE  DomainMatches(d, host) <=> InDomain(d, host)
<1> DEFINE t == Lower(TrimDot(d))
<1>1. /\ t \in Name /\ t \in Seq(STRING) /\ Len(t) \in Nat \ {0} /\ Head(t) = t[1] /\ t # <<>>
      /\ host \in Name /\ host \in Seq(STRING) /\ Len(host) \in Nat \ {0}
      /\ \A i \in 1..Len(host) : host[i] # NoLabel
  <2>1. t \in Name /\ host \in Name /\ \A i \in 1..Len(host) : host[i] \in Plain
    BY TrimLower, HostLabels
  <2>2. NoLabel \notin Plain
    BY LabelClasses
  <2> QED BY <2>1, <2>2, NameHasLabels DEF Name, Invalid
<1>2. DomainMatches(d, host) <=> IF Len(t) > 1 /\ Head(t) = NoLabel
                                 THEN Below(host, Tail(t)) ELSE host = t \/ Below(host, t)
  BY DEF DomainMatches
<1>3. CASE Head(d) # NoLabel
  <2>1. Bare(d) = t
    BY <1>3, BareOfName
  <2>2. Head(t) # NoLabel
    <3>1. TrimDot(d) \in Seq(STRING) /\ Len(TrimDot(d)) \in Nat \ {0} /\ TrimDot(d)[1] = d[1]
      <4>1. /\ TrimDot(d) \in Seq(STRING) /\ Len(TrimDot(d)) \in Nat \ {0}
            /\ \A i \in 1..Len(TrimDot(d)) : TrimDot(d)[i] = d[i]
        BY TrimDotLabels, NameHasLabels
      <4>2. 1 \in 1..Len(TrimDot(d))
        BY <4>1
      <4> QED BY <4>1, <4>2
    <3>2. 1 \in 1..Len(TrimDot(d))
      BY <3>1
    <3>3. t[1] = NoLabel <=> TrimDot(d)[1] = NoLabel
      BY <3>1, <3>2, LowerLabels
    <3> QED BY <1>1, <1>3, <3>1, <3>3, NameHasLabels
  <2>3. InDomain(d, host) <=> t \in Lineage(host)
    BY <1>3, <2>1 DEF InDomain
  <2> HIDE DEF t
  <2> QED BY <1>1, <1>2, <2>2, <2>3, LineageIsAbove
<1>4. CASE Head(d) = NoLabel
  <2>1. /\ Head(t) = NoLabel
        /\ Len(t) > 1 => Bare(d) = Tail(t)
        /\ ~(Len(t) > 1) => Bare(d) = <<>>
    BY <1>1, <1>4, BareOfDotted
  <2>2. InDomain(d, host) <=> Bare(d) \in Lineage(host) \ {host}
    BY <1>4 DEF InDomain
  <2> HIDE DEF t
  <2>3. CASE Len(t) > 1
    <3>1. Tail(t) \in Seq(STRING) /\ Tail(t) # <<>>
      BY <1>1, <2>3, TailLabels DEF Name, Invalid
    <3> QED BY <1>1, <1>2, <2>1, <2>2, <2>3, <3>1, LineageIsAbove
  <2>4. CASE ~(Len(t) > 1)
    <3>1. ~InDomain(d, host)
      <4>1. <<>> \in Seq(STRING)
        OBVIOUS
      <4> QED BY <1>1, <2>1, <2>2, <2>4, <4>1, LineageIsAbove
    <3>2. Len(t) = 1
      <4>1. \A x \in Nat \ {0} : ~(x > 1) => x = 1
        OBVIOUS
      <4> QED BY <1>1, <2>4, <4>1
    <3>3. host # t
      <4>1. 1 \in 1..Len(t)
        BY <3>2
      <4> QED BY <1>1, <2>1, <4>1
    <3>4. ~Below(host, t)
      <4>1. SUFFICES ASSUME Below(host, t) PROVE FALSE
        OBVIOUS
      <4>2. \A i \in 1..Len(t) : host[Len(host) - Len(t) + i] = t[i]
        BY <1>1, <4>1, BelowLabels
      <4>3. 1 \in 1..Len(t) /\ Len(host) - Len(t) + 1 = Len(host) /\ Len(host) \in 1..Len(host)
        BY <1>1, <3>2
      <4> QED BY <1>1, <2>1, <4>2, <4>3
    <3> QED BY <1>2, <2>4, <3>1, <3>3, <3>4
  <2> QED BY <2>3, <2>4
<1> QED BY <1>3, <1>4

\* hostAllowedByCertificate allows exactly the hosts within the constraints.
LEMMA AllowedIsWithin ==
    ASSUME NEW cert, cert.permitted \union cert.excluded \subseteq Name, NEW host \in Host
    PROVE  HostAllowedByCertificate(cert, host) <=> Within(cert, host)
BY DomainMatchesIsInDomain DEF HostAllowedByCertificate, Within

-------------------------------------------------------------------------------
(* Startup. *)

\* What Config.Validate makes of the configured hosts.
Normal == {NormalizeHost(c) : c \in configured}

(***************************************************************************)
(* How far startup has come, and what the checks behind it have shown of   *)
(* the hosts.  Provided is what keeps a host with two trailing dots away   *)
(* from pki's normalisation, which would make another name of it.          *)
(***************************************************************************)
StartInv ==
    /\ phase \in Phase \ {"load failed"}
    /\ root \in Certificates /\ intermediate \in Certificates
    /\ routes \in RouteTables
    /\ phase = "config" => hosts \in HostLists
    /\ phase \in {"valid", "filtered", "serving"} =>
          /\ configured \subseteq Name
          /\ \A n \in Normal : n # Invalid /\ Provided(n)
    /\ phase = "valid" => hosts = Normal
    /\ phase \in {"filtered", "serving"} =>
          LET patterns == {NormalizePattern(n) : n \in Normal}
          IN  /\ Invalid \notin patterns
              /\ hosts = {p \in patterns : Permitted(p)} /\ hosts # {}
              /\ skipped = patterns \ hosts

(***************************************************************************)
(* The connection has a leaf only for what the issuer allows, and what the *)
(* client was told last is the answer to a handshake or to a request.      *)
(***************************************************************************)
ConnInv ==
    /\ conn # Invalid => phase = "serving" /\ conn \in Host /\ Allows(conn)
    /\ \/ asked = Invalid /\ at = "none" /\ answer = "none" /\ offered = {}
       \/ \E name \in Asked :
             /\ phase = "serving" /\ asked = name /\ at = "none"
             /\ answer = Answer(name) /\ offered = {}
       \/ \E name \in Asked, m \in Methods, path \in Paths :
             /\ phase = "serving" /\ asked = name /\ at = path
             /\ answer = Response(name, m, path).answer
             /\ offered = Response(name, m, path).offered

ScopeInv == StartInv /\ ConnInv

\* The hosts of routes are normal names.
LEMMA RouteHostsAreNormal ==
    ASSUME routes \in RouteTables
    PROVE  /\ DOMAIN routes = 1..Len(routes) /\ Len(routes) \in Nat
           /\ \A i \in DOMAIN routes :
                 /\ routes[i] \in RouteOf
                 /\ \A h \in routes[i].hosts : h \in Name /\ NormalizeHost(h) = h
<1>1. routes \in Seq(RouteOf)
  BY RoutesAreValid
<1>2. DOMAIN routes = 1..Len(routes) /\ Len(routes) \in Nat
  BY <1>1, LenProperties
<1>3. \A i \in DOMAIN routes : routes[i] \in RouteOf
  BY <1>1, <1>2, ElementOfSeq
<1>4. \A i \in DOMAIN routes : \A h \in routes[i].hosts : h \in Name
  BY <1>3 DEF RouteOf
<1>5. \A i \in DOMAIN routes : \A h \in routes[i].hosts : NormalizeHost(h) = h
  BY RoutesAreValid DEF ValidHost
<1> QED BY <1>2, <1>3, <1>4, <1>5

\* What a profile provides ends with no dot, and covers what it matches itself.
LEMMA ProvidedNames ==
    ASSUME routes \in RouteTables, NEW n \in Name, Provided(n)
    PROVE  /\ Last(n) # NoLabel
           /\ \A host \in Name : Matches(n, host) => Provided(host)
<1>1. PICK i \in DOMAIN routes : \E p \in routes[i].hosts : Matches(p, n)
  BY DEF Provided, RouteHasHost
<1>2. PICK p \in routes[i].hosts : Matches(p, n)
  BY <1>1
<1>3. p \in Name /\ NormalizeHost(p) = p
  BY <1>1, <1>2, RouteHostsAreNormal
<1>4. Last(n) # NoLabel
  BY <1>2, <1>3, RouteHostsEnd
<1>5. \A host \in Name : Matches(n, host) => Matches(p, host)
  BY <1>2, <1>3, MatchesCompose
<1> QED BY <1>1, <1>2, <1>4, <1>5 DEF Provided, RouteHasHost

\* The two normalisations of a configured host, once Validate has passed.
LEMMA ConfiguredHosts ==
    ASSUME StartInv, phase \in {"valid", "filtered", "serving"}, NEW c \in configured
    PROVE  LET n == NormalizeHost(c)
           IN  /\ c \in Name /\ n \in Name /\ Provided(n) /\ n = Lower(TrimDot(c))
               /\ NormalizePattern(n) \in {n, Invalid}
               /\ NormalizePattern(c) = NormalizePattern(n)
               /\ NormalizePattern(n) \in Pattern \union {Invalid}
<1> DEFINE n == NormalizeHost(c)
<1>1. c \in Name /\ n # Invalid /\ Provided(n) /\ routes \in RouteTables
  BY DEF StartInv, Normal
<1>2. n \in Name
  BY <1>1, ExactIsNormal, TrimLower
<1>3. Last(n) # NoLabel
  <2> HIDE DEF n
  <2> QED BY <1>1, <1>2, ProvidedNames
<1>4. /\ n = Lower(TrimDot(c)) /\ NormalizePattern(n) \in {n, Invalid}
      /\ NormalizePattern(c) = NormalizePattern(n)
  BY <1>1, <1>2, <1>3, NormalTwice
<1>5. NormalizePattern(n) \in Pattern \union {Invalid}
  BY <1>2, NormalizePatternReturns
<1> QED BY <1>1, <1>2, <1>4, <1>5

\* The patterns of the running sink: what they are and where they come from.
LEMMA ServedPatterns ==
    ASSUME StartInv, phase \in {"filtered", "serving"}
    PROVE  /\ hosts \union skipped = {NormalizePattern(c) : c \in configured}
           /\ \A p \in hosts \union skipped :
                 /\ p \in Pattern /\ Provided(p)
                 /\ \E c \in configured : c \in Name /\ p = Lower(TrimDot(c))
                 /\ p \in hosts <=> Permitted(p)
<1> DEFINE patterns == {NormalizePattern(n) : n \in Normal}
<1>1. /\ Invalid \notin patterns /\ hosts = {p \in patterns : Permitted(p)}
      /\ skipped = patterns \ hosts
  BY DEF StartInv
<1>2. hosts \union skipped = patterns
  BY <1>1
<1>3. ASSUME NEW c \in configured
      PROVE  LET n == NormalizeHost(c)
             IN  /\ c \in Name /\ Provided(n) /\ n = Lower(TrimDot(c)) /\ n \in Normal
                 /\ NormalizePattern(n) \in {n, Invalid}
                 /\ NormalizePattern(c) = NormalizePattern(n)
                 /\ NormalizePattern(n) \in Pattern \union {Invalid}
  BY ConfiguredHosts DEF Normal
<1>4. patterns = {NormalizePattern(c) : c \in configured}
  <2>1. \A p \in patterns : \E c \in configured : p = NormalizePattern(c)
    BY <1>3 DEF Normal
  <2>2. \A c \in configured : NormalizePattern(c) \in patterns
    BY <1>3
  <2> QED BY <2>1, <2>2
<1>5. ASSUME NEW p \in patterns
      PROVE  /\ p \in Pattern /\ Provided(p)
             /\ \E c \in configured : c \in Name /\ p = Lower(TrimDot(c))
  <2>1. PICK n \in Normal : p = NormalizePattern(n)
    OBVIOUS
  <2>2. PICK c \in configured : n = NormalizeHost(c)
    BY DEF Normal
  <2>3. p # Invalid
    BY <1>1
  <2> HIDE DEF patterns
  <2>4. p = n /\ p \in Pattern
    BY <1>3, <2>1, <2>2, <2>3
  <2> QED BY <1>3, <2>2, <2>4
<1> HIDE DEF patterns
<1> QED BY <1>1, <1>2, <1>4, <1>5

\* A host that a pattern of the sink matches is one that the configuration names.
LEMMA MatchedIsConfigured ==
    ASSUME StartInv, phase \in {"filtered", "serving"},
           NEW p \in hosts, NEW host \in Name, Matches(p, host)
    PROVE  ConfiguredFor(host) /\ Provided(host)
<1>1. p \in Pattern /\ Provided(p) /\ routes \in RouteTables
  BY ServedPatterns DEF StartInv
<1>2. PICK c \in configured : c \in Name /\ p = Lower(TrimDot(c))
  BY ServedPatterns
<1>3. p \in Name /\ p \in Seq(STRING) /\ Len(p) \in Nat \ {0} /\ Head(p) = p[1] /\ Head(c) = c[1]
  BY <1>1, <1>2, PatternStays, NameHasLabels
<1>4. Provided(host)
  BY <1>1, <1>3, ProvidedNames
<1>5. 1 \in 1..Len(p)
  BY <1>3
<1>6. Head(p) = NoLabel <=> Head(c) = NoLabel
  <2>1. TrimDot(c) \in Seq(STRING) /\ Len(TrimDot(c)) = Len(p)
    BY <1>2, TrimDotLabels, NameHasLabels, LowerLabels
  <2>2. p[1] = NoLabel <=> TrimDot(c)[1] = NoLabel
    BY <1>2, <1>5, <2>1, LowerLabels
  <2> QED BY <1>2, <1>3, <1>5, <2>1, <2>2, TrimDotLabels
<1>7. Head(p) = "*" <=> Head(c) = "*"
  <2>1. TrimDot(c) \in Seq(STRING) /\ Len(TrimDot(c)) = Len(p)
    BY <1>2, TrimDotLabels, NameHasLabels, LowerLabels
  <2>2. p[1] = "*" <=> TrimDot(c)[1] = "*"
    BY <1>2, <1>5, <2>1, LowerLabels
  <2> QED BY <1>2, <1>3, <1>5, <2>1, <2>2, TrimDotLabels
<1>8. Head(p) # NoLabel
  <2>1. CASE IsWildcard(p)
    <3>1. Head(p) = "*" /\ NoLabel \notin Plain
      BY <1>1, <2>1, PatternStays, LabelClasses
    <3>2. "*" # NoLabel
      BY DEF NoLabel
    <3> QED BY <3>1, <3>2
  <2>2. CASE ~IsWildcard(p)
    <3>1. p \in Host /\ NoLabel \notin Plain
      BY <1>1, <2>2, PatternStays, LabelClasses
    <3> QED BY <1>3, <1>5, <3>1, HostLabels
  <2> QED BY <2>1, <2>2
<1>9. Bare(c) = p
  BY <1>2, <1>6, <1>8, BareOfName
<1>10. CASE p = host
  BY <1>2, <1>4, <1>9, <1>10 DEF ConfiguredFor
<1>11. CASE IsWildcard(p) /\ Below(host, Tail(p))
  <2>1. Tail(p) \in Seq(STRING) /\ Tail(p) # <<>> /\ Head(c) = "*"
    BY <1>1, <1>3, <1>7, <1>11, PatternStays, NameHasLabels, HostLabels DEF Host, Invalid
  <2>2. Tail(p) \in Lineage(host) \ {host}
    BY <1>11, <2>1, LineageIsAbove
  <2> QED BY <1>2, <1>4, <1>9, <2>1, <2>2 DEF ConfiguredFor
<1> QED BY <1>10, <1>11 DEF Matches

-------------------------------------------------------------------------------
(* Answers. *)

\* The last of several routes is one of them.
LEMMA MaxIsMember ==
    ASSUME NEW k \in Nat, NEW S \in SUBSET (1..k), S # {}
    PROVE  Max(S) \in S
<1> DEFINE R == OpToRel(<, Nat)
           T == {k - x : x \in S}
<1>1. T \subseteq Nat /\ T # {}
  <2>1. \A x \in S : k - x \in Nat
    OBVIOUS
  <2> QED BY <2>1
<1>2. IsWellFoundedOn(R, Nat)
  BY NatLessThanWellFounded
<1>3. \A u, t \in Nat : <<u, t>> \in R <=> u < t
  BY DEF OpToRel
<1>4. \E t \in T : \A u \in T : ~(<<u, t>> \in R)
  <2> HIDE DEF R, T
  <2> QED BY <1>1, <1>2, WFMin
<1>5. \E t \in T : \A u \in T : ~(u < t)
  <2> HIDE DEF R, T
  <2> QED BY <1>1, <1>3, <1>4
<1>6. PICK x \in S : \A y \in S : ~(k - y < k - x)
  BY <1>5
<1>7. \A y \in S : x >= y
  BY <1>6
<1> QED BY <1>7 DEF Max

Answers == {"none", "unknown_sni", "other", "certified", "misdirected",
            "not found", "not allowed", "preflight", "served"}

\* The answers that can be given to a handshake and to a request.
LEMMA AnswerReturns ==
    ASSUME NEW name, NEW method, NEW path
    PROVE  /\ Answer(name) \in {"unknown_sni", "other", "certified"}
           /\ Response(name, method, path).answer \in
                {"misdirected", "not found", "not allowed", "preflight", "served"}
<1>1. Answer(name) \in {"unknown_sni", "other", "certified"}
  BY DEF Answer
<1> DEFINE host == NormalizeHost(name)
           match == Match(host, method, path)
<1>2. CASE host = Invalid \/ ~AllowedHost(host)
  BY <1>1, <1>2 DEF Response
<1>3. CASE ~(host = Invalid \/ ~AllowedHost(host)) /\ match.result = "unknown_host"
  BY <1>1, <1>3 DEF Response
<1>4. CASE ~(host = Invalid \/ ~AllowedHost(host)) /\ match.result = "unknown_path"
  BY <1>1, <1>4 DEF Response
<1>5. CASE ~(host = Invalid \/ ~AllowedHost(host)) /\ match.result = "matched"
  BY <1>1, <1>5 DEF Response
<1>6. CASE /\ ~(host = Invalid \/ ~AllowedHost(host))
           /\ match.result \notin {"unknown_host", "unknown_path", "matched"}
  BY <1>1, <1>6 DEF Response
<1> QED BY <1>2, <1>3, <1>4, <1>5, <1>6

\* 421 is for names that the gate refuses and for hosts without a route.
LEMMA MisdirectedMeans ==
    ASSUME NEW name, NEW method, NEW path,
           NormalizeHost(name) # Invalid, AllowedHost(NormalizeHost(name)),
           Provided(NormalizeHost(name))
    PROVE  Response(name, method, path).answer # "misdirected"
<1> DEFINE host == NormalizeHost(name)
           match == Match(host, method, path)
<1>1. match.result \in {"matched", "method_not_allowed", "unknown_path"}
  <2> HIDE DEF host
  <2> QED BY DEF Match, host
<1>2. CASE match.result = "matched"
  BY <1>2 DEF Response
<1>3. CASE match.result = "method_not_allowed"
  BY <1>3 DEF Response
<1>4. CASE match.result = "unknown_path"
  BY <1>4 DEF Response
<1> QED BY <1>1, <1>2, <1>3, <1>4

\* Router.Match and the Allow header belong together.
LEMMA OfferedIsServed ==
    ASSUME routes \in RouteTables, NEW name, NEW method, NEW path,
           NEW m \in Response(name, method, path).offered
    PROVE  Response(name, m, path).answer \in {"served", "preflight"}
<1> DEFINE host == NormalizeHost(name)
           found == PathRoutes(host, path)
           k == Max(found)
<1>1. host # Invalid /\ AllowedHost(host)
  BY DEF Response
<1>2. /\ found # {} /\ {i \in found : Serves(i, method)} = {}
      /\ m \in Allow(k)
  <2> DEFINE match == Match(host, method, path)
  <2>1. match.result \notin {"unknown_host", "unknown_path", "matched"}
    BY DEF Response
  <2>2. m \in Allow(match.route)
    BY <1>1, <2>1 DEF Response
  <2>3. match = [result |-> "method_not_allowed", route |-> k]
        /\ found # {} /\ {i \in found : Serves(i, method)} = {}
    <3> HIDE DEF host
    <3> QED BY <2>1 DEF Match
  <2> QED BY <2>2, <2>3
<1>3. k \in found
  <2>1. DOMAIN routes = 1..Len(routes) /\ Len(routes) \in Nat
    BY RouteHostsAreNormal
  <2>2. found \in SUBSET (1..Len(routes))
    BY <2>1 DEF PathRoutes
  <2> HIDE DEF found
  <2> QED BY <1>2, <2>1, <2>2, MaxIsMember
<1> HIDE DEF host, found, k
<1>4. CASE \E i \in found : Serves(i, m)
  <2>1. Match(host, m, path).result = "matched"
    BY <1>4 DEF Match, found
  <2> QED BY <1>1, <2>1 DEF Response, host
<1>5. CASE ~\E i \in found : Serves(i, m)
  <2>1. Match(host, m, path) = [result |-> "method_not_allowed", route |-> k]
    BY <1>2, <1>5 DEF Match, found, k
  <2>2. m = "OPTIONS" /\ routes[k].cors
    <3>1. m \notin routes[k].methods
      BY <1>3, <1>5 DEF Serves
    <3> QED BY <1>2, <3>1 DEF Allow
  <2>3. Response(name, m, path).answer = "preflight"
    BY <1>1, <2>1, <2>2 DEF Response, host
  <2> QED BY <2>3
<1> QED BY <1>4, <1>5

-------------------------------------------------------------------------------
(* Every step keeps the invariant. *)

LEMMA InitEstablishes == Init => ScopeInv
BY DEF Init, ScopeInv, StartInv, ConnInv, Phase, Invalid

\* After startup nothing changes what a name is answered with.
LEMMA SameAnswers ==
    ASSUME UNCHANGED <<hosts, root, intermediate, routes>>,
           NEW name, NEW method, NEW path
    PROVE  /\ Answer(name)' = Answer(name)
           /\ Response(name, method, path)' = Response(name, method, path)
           /\ Allows(name)' = Allows(name)
<1>1. Allows(name)' = Allows(name)
  BY DEF Allows
<1>2. Answer(name)' = Answer(name)
  BY DEF Answer, Allows, AllowedHost
<1>3. Response(name, method, path)' = Response(name, method, path)
  BY DEF Response, AllowedHost, Match, PathRoutes, RouteHasHost, Serves, Provided, Allow
<1> QED BY <1>1, <1>2, <1>3

\* Before the sink serves, a step leaves the connection as it is: there is none.
LEMMA NoConnection ==
    ASSUME ScopeInv, phase # "serving", UNCHANGED connection
    PROVE  ConnInv'
BY DEF ScopeInv, ConnInv, connection

LEMMA ValidateKeeps ==
    ASSUME ScopeInv, Validate
    PROVE  ScopeInv'
<1> DEFINE given == IF hosts = {} THEN RouteHosts ELSE hosts
           normal == {NormalizeHost(h) : h \in given}
<1>1. /\ phase = "config" /\ configured' = given
      /\ phase' = IF Invalid \in normal \/ \E h \in normal : ~Provided(h)
                  THEN "invalid" ELSE "valid"
      /\ hosts' = IF phase' = "valid" THEN normal ELSE hosts
      /\ UNCHANGED <<skipped, root, intermediate, routes>> /\ UNCHANGED connection
  BY DEF Validate
<1>2. routes \in RouteTables /\ hosts \in HostLists
  BY <1>1 DEF ScopeInv, StartInv
<1>3. given \subseteq Name
  <2>1. hosts \subseteq Name
    BY <1>2, NamesHaveLabels
  <2>2. RouteHosts \subseteq Name
    BY <1>2, RouteHostsAreNormal DEF RouteHosts
  <2> QED BY <2>1, <2>2
<1>4. Normal' = normal
  BY <1>1 DEF Normal
<1> HIDE DEF given, normal
<1>5. phase' \in {"valid", "invalid"}
  BY <1>1
<1>6. phase' = "valid" => \A n \in normal : n # Invalid /\ Provided(n)
  BY <1>1
<1>7. \A n : Provided(n)' = Provided(n)
  BY <1>1 DEF Provided, RouteHasHost
<1>8. StartInv'
  BY <1>1, <1>3, <1>4, <1>5, <1>6, <1>7 DEF ScopeInv, StartInv, Phase
<1>9. ConnInv'
  BY <1>1, NoConnection
<1> QED BY <1>8, <1>9 DEF ScopeInv

LEMMA FilterKeeps ==
    ASSUME ScopeInv, Filter
    PROVE  ScopeInv'
<1> DEFINE patterns == {NormalizePattern(h) : h \in hosts}
           kept == {p \in patterns \ {Invalid} : Permitted(p)}
<1>1. /\ phase = "valid"
      /\ UNCHANGED setup /\ UNCHANGED connection
      /\ \/ phase' = "unknown pattern"
         \/ /\ Invalid \notin patterns
            /\ phase' = IF kept = {} THEN "none permitted" ELSE "filtered"
            /\ hosts' = kept /\ skipped' = patterns \ kept
  BY DEF Filter
<1>2. /\ hosts = Normal /\ configured \subseteq Name
      /\ \A n \in Normal : n # Invalid /\ Provided(n)
  BY <1>1 DEF ScopeInv, StartInv
<1>3. Normal' = Normal /\ UNCHANGED <<configured, root, intermediate, routes>>
  BY <1>1 DEF Normal, setup
<1>4. \A n : Provided(n)' = Provided(n) /\ Permitted(n)' = Permitted(n)
  BY <1>3 DEF Provided, RouteHasHost, Permitted
<1>5. patterns = {NormalizePattern(n) : n \in Normal}
  BY <1>2
<1>6. phase' = "filtered" =>
         /\ Invalid \notin patterns /\ hosts' = {p \in patterns : Permitted(p)} /\ hosts' # {}
         /\ skipped' = patterns \ hosts'
  <2> HIDE DEF patterns
  <2> QED BY <1>1
<1>7. phase' \in {"unknown pattern", "none permitted", "filtered"}
  BY <1>1
<1> HIDE DEF patterns, kept
<1>8. StartInv'
  <2>1. phase' = "filtered" =>
          LET now == {NormalizePattern(n) : n \in Normal'}
          IN  /\ Invalid \notin now
              /\ hosts' = {p \in now : Permitted(p)'} /\ hosts' # {}
              /\ skipped' = now \ hosts'
    BY <1>3, <1>4, <1>5, <1>6
  <2> QED BY <1>2, <1>3, <1>4, <1>7, <2>1 DEF ScopeInv, StartInv, Phase
<1>9. ConnInv'
  BY <1>1, NoConnection
<1> QED BY <1>8, <1>9 DEF ScopeInv

LEMMA LoadKeeps ==
    ASSUME ScopeInv, Load
    PROVE  ScopeInv'
<1>1. /\ phase = "filtered" /\ UNCHANGED <<hosts, skipped>>
      /\ UNCHANGED setup /\ UNCHANGED connection
      /\ phase' = IF \A p \in {NormalizePattern(h) : h \in hosts} : p # Invalid /\ Permitted(p)
                  THEN "serving" ELSE "load failed"
  BY DEF Load
<1>2. \A p \in hosts : NormalizePattern(p) = p /\ p # Invalid /\ Permitted(p)
  BY <1>1, ServedPatterns, PatternStays DEF ScopeInv
<1>3. phase' = "serving"
  BY <1>1, <1>2
<1>4. Normal' = Normal /\ UNCHANGED <<configured, root, intermediate, routes>>
  BY <1>1 DEF Normal, setup
<1>5. \A n : Provided(n)' = Provided(n) /\ Permitted(n)' = Permitted(n)
  BY <1>4 DEF Provided, RouteHasHost, Permitted
<1>6. StartInv'
  BY <1>1, <1>3, <1>4, <1>5 DEF ScopeInv, StartInv, Phase
<1>7. ConnInv'
  BY <1>1, NoConnection
<1> QED BY <1>6, <1>7 DEF ScopeInv

\* What startup has found out stays true while the sink serves.
LEMMA StartStays ==
    ASSUME StartInv, UNCHANGED <<phase, hosts, skipped, setup>>
    PROVE  StartInv'
<1>1. Normal' = Normal /\ UNCHANGED <<configured, root, intermediate, routes>>
  BY DEF Normal, setup
<1>2. \A n : Provided(n)' = Provided(n) /\ Permitted(n)' = Permitted(n)
  BY <1>1 DEF Provided, RouteHasHost, Permitted
<1> QED BY <1>1, <1>2 DEF StartInv

LEMMA HelloKeeps ==
    ASSUME ScopeInv, NEW name \in Asked, Hello(name)
    PROVE  ScopeInv'
<1>1. /\ phase = "serving" /\ asked = Invalid /\ asked' = name /\ answer' = Answer(name)
      /\ conn' = IF answer' = "certified" THEN ExactHost(name) ELSE Invalid
      /\ UNCHANGED <<phase, hosts, skipped, setup>> /\ UNCHANGED <<at, offered>>
      /\ UNCHANGED <<hosts, root, intermediate, routes>>
  BY DEF Hello, setup
<1>2. StartInv'
  BY <1>1, StartStays DEF ScopeInv
<1>3. name \in Name
  BY NamesHaveLabels
<1>4. answer' = "certified" => ExactHost(name) \in Host /\ Allows(ExactHost(name))
  BY <1>1, <1>3, ExactIsNormal DEF Answer
<1>5. conn' # Invalid => phase' = "serving" /\ conn' \in Host /\ Allows(conn)'
  <2> SUFFICES ASSUME conn' # Invalid
               PROVE  phase' = "serving" /\ conn' \in Host /\ Allows(conn)'
    OBVIOUS
  <2>1. conn' = ExactHost(name) /\ conn' \in Host /\ Allows(ExactHost(name))
    BY <1>1, <1>4
  <2>2. Allows(conn)'
    BY <1>1, <2>1 DEF Allows
  <2> QED BY <1>1, <2>1, <2>2
<1>6. answer' = Answer(name)'
  BY <1>1, SameAnswers
<1>7. at = "none" /\ offered = {}
  <2>1. Invalid \notin Asked
    BY NamesHaveLabels DEF Name
  <2> QED BY <1>1, <2>1 DEF ScopeInv, ConnInv
<1>8. ConnInv'
  BY <1>1, <1>5, <1>6, <1>7 DEF ConnInv
<1> QED BY <1>2, <1>8 DEF ScopeInv

LEMMA RequestKeeps ==
    ASSUME ScopeInv, NEW name \in Asked, NEW m \in Methods, NEW path \in Paths,
           Request(name, m, path)
    PROVE  ScopeInv'
<1>1. /\ conn # Invalid /\ conn' = conn /\ asked' = name /\ at' = path
      /\ answer' = Response(name, m, path).answer
      /\ offered' = Response(name, m, path).offered
      /\ UNCHANGED <<phase, hosts, skipped, setup>>
      /\ UNCHANGED <<hosts, root, intermediate, routes>>
  BY DEF Request, setup
<1>2. StartInv'
  BY <1>1, StartStays DEF ScopeInv
<1>3. phase = "serving" /\ conn \in Host /\ Allows(conn)
  BY <1>1 DEF ScopeInv, ConnInv
<1>4. Allows(conn)'
  BY <1>1, <1>3 DEF Allows
<1>5. Response(name, m, path)' = Response(name, m, path)
  BY <1>1, SameAnswers
<1>6. ConnInv'
  BY <1>1, <1>3, <1>4, <1>5 DEF ConnInv
<1> QED BY <1>2, <1>6 DEF ScopeInv

LEMMA HangUpKeeps ==
    ASSUME ScopeInv, HangUp
    PROVE  ScopeInv'
<1>1. /\ conn' = Invalid /\ asked' = Invalid
      /\ at' = "none" /\ answer' = "none" /\ offered' = {}
      /\ UNCHANGED <<phase, hosts, skipped, setup>>
  BY DEF HangUp
<1>2. StartInv'
  BY <1>1, StartStays DEF ScopeInv
<1>3. ConnInv'
  BY <1>1 DEF ConnInv
<1> QED BY <1>2, <1>3 DEF ScopeInv

LEMMA StutterKeeps ==
    ASSUME ScopeInv, UNCHANGED vars
    PROVE  ScopeInv'
<1>1. /\ UNCHANGED <<phase, hosts, skipped, setup>> /\ UNCHANGED connection
      /\ UNCHANGED <<hosts, root, intermediate, routes>>
      /\ UNCHANGED <<conn, asked, at, answer, offered>>
  BY DEF vars, setup, connection
<1>2. StartInv'
  BY <1>1, StartStays DEF ScopeInv
<1>3. \A name : Answer(name)' = Answer(name)
  BY <1>1, SameAnswers
<1>4. \A name, m, path : Response(name, m, path)' = Response(name, m, path)
  BY <1>1, SameAnswers
<1>5. conn' # Invalid => phase' = "serving" /\ conn' \in Host /\ Allows(conn)'
  <2>1. conn # Invalid => phase = "serving" /\ conn \in Host /\ Allows(conn)
    BY DEF ScopeInv, ConnInv
  <2>2. Allows(conn)' <=> Allows(conn)
    BY <1>1 DEF Allows
  <2> QED BY <1>1, <2>1, <2>2
<1>6. ConnInv'
  BY <1>1, <1>3, <1>4, <1>5 DEF ScopeInv, ConnInv
<1> QED BY <1>2, <1>6 DEF ScopeInv

LEMMA ScopeInvariant == Spec => []ScopeInv
<1>1. ScopeInv /\ [Next]_vars => ScopeInv'
  BY ValidateKeeps, FilterKeeps, LoadKeeps, HelloKeeps, RequestKeeps, HangUpKeeps,
     StutterKeeps DEF Next
<1> QED BY <1>1, InitEstablishes, PTL DEF Spec

-------------------------------------------------------------------------------
(* What follows from the invariant. *)

(***************************************************************************)
(* Every variable has its type, and what startup leaves to the running     *)
(* sink are patterns that normalise to themselves.                         *)
(***************************************************************************)
LEMMA InvImpliesTypeOK == ScopeInv => TypeOK
<1> SUFFICES ASSUME ScopeInv PROVE TypeOK
  OBVIOUS
<1>1. /\ phase \in Phase
      /\ root \in Certificates /\ intermediate \in Certificates
      /\ routes \in RouteTables
  BY DEF ScopeInv, StartInv
<1>2. asked \in Asked \union {Invalid} /\ at \in Paths \union {"none"}
  BY DEF ScopeInv, ConnInv
<1>3. answer \in Answers
  BY AnswerReturns DEF ScopeInv, ConnInv, Answers
<1>4. conn # Invalid => phase = "serving" /\ ExactHost(conn) = conn
  BY HostStays DEF ScopeInv, ConnInv
<1>5. phase \in {"filtered", "serving"} =>
         /\ hosts # {}
         /\ \A h \in hosts \union skipped : h # Invalid /\ NormalizePattern(h) = h
  BY ServedPatterns, PatternStays DEF ScopeInv, StartInv
<1> QED BY <1>1, <1>2, <1>3, <1>4, <1>5 DEF TypeOK, Answers

\* Type correctness.
THEOREM ScopeTypeOK == Spec => []TypeOK
BY ScopeInvariant, InvImpliesTypeOK, PTL

\* What the issuer allows is within both CAs, and matched by a configured pattern.
LEMMA AllowedMeans ==
    ASSUME ScopeInv, phase = "serving", NEW host \in Host
    PROVE  /\ Allows(host) => /\ Within(root, host) /\ Within(intermediate, host)
                              /\ AllowedHost(host)
           /\ AllowedHost(host) /\ Within(root, host) /\ Within(intermediate, host)
                 => Allows(host)
<1>1. /\ root.permitted \union root.excluded \subseteq Name
      /\ intermediate.permitted \union intermediate.excluded \subseteq Name
  BY NamesHaveLabels DEF ScopeInv, StartInv
<1>2. /\ HostAllowedByCertificate(root, host) <=> Within(root, host)
      /\ HostAllowedByCertificate(intermediate, host) <=> Within(intermediate, host)
  BY <1>1, AllowedIsWithin
<1>3. (host \in hosts \/ \E p \in hosts : IsWildcard(p) /\ Below(host, Tail(p)))
         <=> AllowedHost(host)
  BY DEF AllowedHost, Matches
<1> QED BY <1>2, <1>3 DEF Allows

(***************************************************************************)
(* A leaf is only issued for a host that the configuration names and that  *)
(* both CAs permit, however names and constraints are spelled.             *)
(***************************************************************************)
THEOREM ScopeCertifiedInScope == Spec => []CertifiedInScope
<1>1. ScopeInv => CertifiedInScope
  <2> SUFFICES ASSUME ScopeInv, conn # Invalid
               PROVE  /\ Within(root, conn) /\ Within(intermediate, conn)
                      /\ ConfiguredFor(conn)
    BY DEF CertifiedInScope
  <2>1. phase = "serving" /\ conn \in Host /\ Allows(conn) /\ conn \in Name
    BY HostLabels DEF ScopeInv, ConnInv
  <2>2. Within(root, conn) /\ Within(intermediate, conn) /\ AllowedHost(conn)
    BY <2>1, AllowedMeans
  <2>3. ConfiguredFor(conn)
    BY <2>1, <2>2, MatchedIsConfigured DEF AllowedHost, ScopeInv
  <2> QED BY <2>2, <2>3
<1> QED BY <1>1, ScopeInvariant, PTL

(***************************************************************************)
(* A client that got a leaf for a host and asks for that host, in whatever *)
(* spelling, is never told that it came to the wrong server.               *)
(***************************************************************************)
THEOREM ScopeOwnHostIsKnown == Spec => []OwnHostIsKnown
<1>1. ScopeInv => OwnHostIsKnown
  <2> SUFFICES ASSUME ScopeInv, conn # Invalid, NormalizeHost(asked) = conn
               PROVE  answer # "misdirected"
    BY DEF OwnHostIsKnown
  <2>1. phase = "serving" /\ conn \in Host /\ Allows(conn) /\ conn \in Name
    BY HostLabels DEF ScopeInv, ConnInv
  <2>2. AllowedHost(conn)
    BY <2>1, AllowedMeans
  <2>3. Provided(conn)
    BY <2>1, <2>2, MatchedIsConfigured DEF AllowedHost, ScopeInv
  <2>4. \A name, m, path : name = asked => Response(name, m, path).answer # "misdirected"
    BY <2>2, <2>3, MisdirectedMeans
  <2>5. \A name : Answer(name) # "misdirected"
    BY AnswerReturns
  <2> QED BY <2>4, <2>5 DEF ScopeInv, ConnInv
<1> QED BY <1>1, ScopeInvariant, PTL

(***************************************************************************)
(* The gate lets a name through that the issuer refuses only where a       *)
(* pattern is wider than what can be certified.                            *)
(***************************************************************************)
THEOREM ScopeOtherMeansUncertifiable == Spec => []OtherMeansUncertifiable
<1>1. ScopeInv => OtherMeansUncertifiable
  <2> DEFINE host == NormalizeHost(asked)
  <2> SUFFICES ASSUME ScopeInv, answer = "other"
               PROVE  /\ ConfiguredFor(host)
                      /\ \/ \E i \in DOMAIN host : host[i] \notin Plain
                         \/ ~Within(root, host) \/ ~Within(intermediate, host)
    BY DEF OtherMeansUncertifiable
  <2>1. phase = "serving" /\ asked \in Asked /\ Answer(asked) = "other"
    BY AnswerReturns DEF ScopeInv, ConnInv
  <2>2. asked \in Name
    BY <2>1, NamesHaveLabels
  <2>3. host # Invalid /\ AllowedHost(host)
    BY <2>1 DEF Answer
  <2>4. ExactHost(asked) = Invalid \/ ~Allows(ExactHost(asked))
    BY <2>1, <2>3 DEF Answer
  <2>5. host \in Name /\ ExactHost(asked) = IF host \in Host THEN host ELSE Invalid
    BY <2>2, <2>3, ExactIsNormal, TrimLower
  <2> HIDE DEF host
  <2>6. ConfiguredFor(host)
    BY <2>1, <2>3, <2>5, MatchedIsConfigured DEF AllowedHost, ScopeInv
  <2>7. CASE host \in Host
    <3>1. ~Allows(host)
      BY <2>3, <2>4, <2>5, <2>7
    <3> QED BY <2>1, <2>3, <2>6, <2>7, <3>1, AllowedMeans
  <2>8. CASE host \notin Host
    BY <2>5, <2>6, <2>8, HostLabels, NameHasLabels
  <2> QED BY <2>7, <2>8
<1> QED BY <1>1, ScopeInvariant, PTL

(***************************************************************************)
(* Startup sorts the configured hosts and loses none, Load refuses nothing *)
(* that FilterHosts has kept, every kept host can be certified and no      *)
(* skipped one.                                                            *)
(***************************************************************************)
THEOREM ScopeStartupSortsHosts == Spec => []StartupSortsHosts
<1>1. ScopeInv => StartupSortsHosts
  <2> SUFFICES ASSUME ScopeInv PROVE StartupSortsHosts
    OBVIOUS
  <2>1. phase # "load failed"
    BY DEF ScopeInv, StartInv
  <2> SUFFICES ASSUME phase = "serving"
               PROVE  /\ hosts \union skipped = {NormalizePattern(h) : h \in configured}
                      /\ \A h \in hosts : Answer(Sample(h)) = "certified"
                      /\ \A h \in skipped : Answer(Sample(h)) # "certified"
    BY <2>1 DEF StartupSortsHosts
  <2>2. ASSUME NEW h \in hosts \union skipped
        PROVE  /\ Sample(h) \in Host /\ Sample(h) # Invalid /\ Matches(h, Sample(h))
               /\ NormalizeHost(Sample(h)) = Sample(h) /\ ExactHost(Sample(h)) = Sample(h)
               /\ h \in hosts <=> Permitted(h)
    BY ServedPatterns, PatternStays, HostStays DEF ScopeInv
  <2>3. ASSUME NEW h \in hosts PROVE Answer(Sample(h)) = "certified"
    <3>1. AllowedHost(Sample(h))
      BY <2>2 DEF AllowedHost
    <3>2. Allows(Sample(h))
      <4>1. /\ HostAllowedByCertificate(root, Sample(h))
            /\ HostAllowedByCertificate(intermediate, Sample(h))
        BY <2>2 DEF Permitted, PatternAllowedByCertificate
      <4> QED BY <3>1, <4>1 DEF Allows, AllowedHost, Matches
    <3> QED BY <2>2, <3>1, <3>2 DEF Answer
  <2>4. ASSUME NEW h \in skipped PROVE Answer(Sample(h)) # "certified"
    <3>1. ~Permitted(h)
      <4>1. h \notin hosts
        BY DEF ScopeInv, StartInv
      <4> QED BY <2>2, <4>1
    <3>2. ~Allows(Sample(h))
      BY <3>1 DEF Allows, Permitted, PatternAllowedByCertificate
    <3> QED BY <2>2, <3>2 DEF Answer
  <2>5. hosts \union skipped = {NormalizePattern(h) : h \in configured}
    BY ServedPatterns DEF ScopeInv
  <2> QED BY <2>3, <2>4, <2>5
<1> QED BY <1>1, ScopeInvariant, PTL

(***************************************************************************)
(* Every method that an Allow header offers is served for that host and    *)
(* path.                                                                   *)
(***************************************************************************)
THEOREM ScopeAllowIsHonest == Spec => []AllowIsHonest
<1>1. ScopeInv => AllowIsHonest
  <2> SUFFICES ASSUME ScopeInv, NEW m \in offered
               PROVE  Response(asked, m, at).answer \in {"served", "preflight"}
    BY DEF AllowIsHonest
  <2>1. routes \in RouteTables
    BY DEF ScopeInv, StartInv
  <2>2. PICK name \in Asked, method \in Methods, path \in Paths :
           /\ asked = name /\ at = path
           /\ offered = Response(name, method, path).offered
    BY DEF ScopeInv, ConnInv
  <2> QED BY <2>1, <2>2, OfferedIsServed
<1> QED BY <1>1, ScopeInvariant, PTL

-------------------------------------------------------------------------------
(* The life of a CA: certificates, the files that are mounted, devices. *)

\* Certificates as they are encoded: windows of whole seconds.
Certificate ==
    {c \in [key : Nat, signer : Nat, permitted : SUBSET Name, excluded : SUBSET Name,
            ca : BOOLEAN, below : BOOLEAN, servers : BOOLEAN,
            notBefore : Int, notAfter : Int] :
       WholeSeconds(c.notAfter) = c.notAfter}

\* Keys are numbered, so a new one is new; what exists is signed with a key that
\* exists.
KeysInv ==
    /\ IsFiniteSet(Issued)
    /\ \A c \in Issued :
          c \in Certificate /\ c.key <= Cardinality(Issued) /\ c.signer \in Keys
    /\ trusted \subseteq Issued

\* The files of one `sink pki init` belong together.
Matching(i) ==
    /\ i.root.ca /\ i.intermediate.ca
    /\ i.intermediate.signer = i.root.key /\ i.intermediate.key # i.root.key
    /\ i.intermediate.notBefore = i.root.notBefore
    /\ i.intermediate.notAfter <= i.root.notAfter
    /\ i.hosts \subseteq Host
    /\ \A c \in {i.root, i.intermediate} : c.permitted = i.hosts /\ c.excluded = {}

\* What Load has checked of the files that the sink serves with.
SinkInv ==
    sink # Down =>
        /\ sink.root \in Issued /\ sink.intermediate \in Issued
        /\ sink.root.ca /\ sink.intermediate.ca
        /\ VerifiesAgainst(sink.intermediate, sink.root)
        /\ sink.intermediate.notAfter <= sink.root.notAfter
        /\ sink.hosts # {} /\ Invalid \notin sink.hosts
        /\ sink.since \in 0..clock

TrustInv ==
    /\ clock \in 0..MaxClock
    /\ KeysInv
    /\ \A i \in inits : Matching(i)
    /\ SinkInv
    /\ EnrolledDeviceAccepts
    /\ InitServesItsHosts

-------------------------------------------------------------------------------
(* Windows of whole seconds. *)

LEMMA SecondsDivide ==
    /\ Second \in Nat \ {0}
    /\ \A t \in Int : /\ t % Second \in 0..Second - 1 /\ t \div Second \in Int
                      /\ t = Second * (t \div Second) + (t % Second)
    /\ \A e \in Int : /\ Second * e \in Int
                      /\ e >= 1 => Second * e >= Second
                      /\ e <= -1 => Second * e <= -Second
    /\ \A a, b \in Int : Second * a - Second * b = Second * (a - b)
<1>1. Second \in Nat \ {0}
  BY Durations
<1>2. \A t \in Int : t % Second \in 0..Second - 1 /\ t \div Second \in Int
  BY <1>1
<1>3. \A t \in Int : t = Second * (t \div Second) + (t % Second)
  BY <1>1
<1>4. \A e \in Int : /\ Second * e \in Int
                     /\ e >= 1 => Second * e >= Second
                     /\ e <= -1 => Second * e <= -Second
  BY <1>1
<1>5. \A a, b \in Int : Second * a - Second * b = Second * (a - b)
  BY <1>1
<1> QED BY <1>1, <1>2, <1>3, <1>4, <1>5

\* A time loses less than a second, and nothing the second time.
LEMMA SecondsAreWhole ==
    ASSUME NEW t \in Int
    PROVE  /\ WholeSeconds(t) \in Int
           /\ WholeSeconds(t) <= t /\ WholeSeconds(t) > t - Second
           /\ WholeSeconds(WholeSeconds(t)) = WholeSeconds(t)
<1> DEFINE w == WholeSeconds(t)
           q == t \div Second
           d == w \div Second
           m == w % Second
<1>1. w \in Int /\ w <= t /\ w > t - Second
  BY Durations DEF WholeSeconds
<1>2. q \in Int /\ w = Second * q
  <2>1. q \in Int /\ t = Second * q + (t % Second) /\ t % Second \in Int
    BY SecondsDivide
  <2>2. Second * q \in Int /\ w = t - (t % Second)
    BY <2>1, SecondsDivide DEF WholeSeconds
  <2>3. \A x, y, z \in Int : x = y + z => x - z = y
    OBVIOUS
  <2>4. w = Second * q
    BY <2>1, <2>2, <2>3
  <2> QED BY <2>1, <2>4
<1>3. d \in Int /\ m \in 0..Second - 1 /\ w = Second * d + m
  BY <1>1, SecondsDivide
<1> HIDE DEF w, q, d, m
<1>4. /\ Second \in Nat \ {0} /\ m \in Int /\ m >= 0 /\ m < Second
      /\ Second * d \in Int /\ Second * q \in Int
  BY <1>2, <1>3, SecondsDivide
<1>5. m = Second * (q - d) /\ q - d \in Int
  BY <1>2, <1>3, <1>4, SecondsDivide
<1>6. q - d = 0
  <2> DEFINE e == q - d
  <2>1. e \in Int /\ m = Second * e
    BY <1>5
  <2> HIDE DEF e
  <2>2. (e >= 1 => Second * e >= Second) /\ (e <= -1 => Second * e <= -Second)
    BY <2>1, SecondsDivide
  <2>3. e = 0
    BY <1>4, <2>1, <2>2
  <2> QED BY <2>3 DEF e
<1>7. m = 0
  BY <1>4, <1>5, <1>6
<1>8. WholeSeconds(w) = w
  BY <1>1, <1>7 DEF WholeSeconds, m
<1> QED BY <1>1, <1>8 DEF w

\* A leaf that was issued since the start, and need not be renewed or was issued
\* just now, is valid for every device that takes the CAs for valid.
LEMMA LeafReachesDevices ==
    ASSUME TrustInv, sink # Down, NEW host, NEW leaf \in LeavesOf(host),
           NEW time \in (clock - Slow)..(clock + Fast),
           time <= sink.intermediate.notAfter
    PROVE  InWindow(leaf, time)
<1>1. PICK t \in sink.since..clock :
         /\ leaf = Pki!IssuedLeaf(host, t)
         /\ leaf = Pki!IssuedLeaf(host, clock) \/ ~Pki!NeedsRenewal(leaf, clock)
  BY DEF LeavesOf
<1>2. PICK t2 \in sink.since..clock :
         /\ leaf = Pki!IssuedLeaf(host, t2)
         /\ t2 = clock \/ ~Pki!NeedsRenewal(leaf, clock)
  <2>1. sink.since \in Int /\ clock \in Int /\ sink.since <= clock
    BY DEF TrustInv, SinkInv
  <2>2. clock \in sink.since..clock
    BY <2>1
  <2> QED BY <1>1, <2>2
<1> DEFINE ends == sink.intermediate.notAfter
           until == Pki!IssuedUntil(t2)
           nb == WholeSeconds(t2 - Backdate)
           na == WholeSeconds(until)
<1>3. /\ ends \in Int /\ sink.root.notAfter \in Int /\ ends <= sink.root.notAfter
      /\ WholeSeconds(ends) = ends
      /\ t2 \in Int /\ t2 <= clock /\ clock \in Int
  <2>1. sink.root \in Certificate /\ sink.intermediate \in Certificate
    BY DEF TrustInv, SinkInv, KeysInv
  <2>2. sink.since \in Int /\ clock \in Int
    BY DEF TrustInv, SinkInv
  <2> QED BY <2>1, <2>2 DEF TrustInv, SinkInv, Certificate
<1>4. /\ Second \in Nat \ {0} /\ Backdate \in Nat /\ LeafValidity \in Nat
      /\ 2 * LeafValidity >= Backdate + 4 * Second
      /\ Slow \in Int /\ Slow <= Backdate
      /\ Fast \in Int /\ Fast <= (LeafValidity - Second) \div 3
  BY Durations
<1>5. until \in Int /\ \/ until = ends
                       \/ until = t2 + LeafValidity /\ until <= ends
  BY <1>3, <1>4 DEF Pki!IssuedUntil, Pki!Earlier
<1>6. t2 - Backdate \in Int
  BY <1>3, <1>4
<1>7. leaf.notBefore = nb /\ leaf.notAfter = na
  BY <1>2 DEF Pki!IssuedLeaf, Pki!WholeSeconds, WholeSeconds
<1> HIDE DEF until
<1>8. /\ nb \in Int /\ nb <= t2 - Backdate /\ nb > t2 - Backdate - Second
      /\ na \in Int /\ na <= until /\ na > until - Second
      /\ until = ends => na = ends
  BY <1>3, <1>5, <1>6, SecondsAreWhole
<1>9. t2 = clock \/ ~(na - clock < (na - nb) \div 3)
  BY <1>2, <1>7 DEF Pki!NeedsRenewal, Pki!Lifetime
<1>10. time \in Int /\ time >= clock - Slow /\ time <= clock + Fast
  BY <1>3, <1>4
<1> HIDE DEF nb, na, ends
<1>11. time >= nb
  BY <1>3, <1>4, <1>8, <1>10
<1>12. time <= na
  <2>1. CASE until = ends
    BY <1>8, <2>1 DEF ends
  <2>2. CASE until = t2 + LeafValidity
    <3>1. na > t2 + LeafValidity - Second
      BY <1>3, <1>4, <1>5, <1>8, <2>2
    <3>2. CASE t2 = clock
      <4>1. (LeafValidity - Second) \div 3 <= LeafValidity - Second
        BY <1>4
      <4> QED BY <1>3, <1>4, <1>8, <1>10, <3>1, <3>2, <4>1
    <3>3. CASE ~(na - clock < (na - nb) \div 3)
      <4>1. na - nb >= LeafValidity - Second
        BY <1>3, <1>4, <1>8, <3>1
      <4>2. (na - nb) \div 3 >= (LeafValidity - Second) \div 3
        <5>1. \A x, y \in Int : x >= y => x \div 3 >= y \div 3
          OBVIOUS
        <5> QED BY <1>4, <1>8, <4>1, <5>1
      <4>3. (na - nb) \div 3 \in Int /\ (LeafValidity - Second) \div 3 \in Int
        BY <1>4, <1>8
      <4> DEFINE third == (na - nb) \div 3
                 least == (LeafValidity - Second) \div 3
      <4>4. third >= least /\ ~(na - clock < third) /\ Fast <= least
            /\ third \in Int /\ least \in Int
        BY <1>4, <3>3, <4>2, <4>3
      <4> HIDE DEF third, least
      <4> QED BY <1>3, <1>4, <1>8, <1>10, <4>4
    <3> QED BY <1>9, <3>2, <3>3
  <2> QED BY <1>5, <2>1, <2>2
<1> QED BY <1>7, <1>11, <1>12 DEF InWindow

-------------------------------------------------------------------------------
(* What the steps make of certificates and files. *)

\* What both CAs permit, devices take to be permitted, but for the constraints
\* that cover every name.
LEMMA PermittedIsAdmitted ==
    ASSUME NEW c, NEW host, HostAllowedByCertificate(c, host),
           c.excluded \intersect Everything = {}
    PROVE  Admits(c, host)
BY DEF HostAllowedByCertificate, Admits

\* A name that one of the hosts covers is permitted by a CA for these hosts.
LEMMA CoveredIsPermitted ==
    ASSUME NEW list \in SUBSET Host, NEW pattern, Covered(pattern, list),
           NEW c, c.permitted = list, c.excluded = {}
    PROVE  PatternAllowedByCertificate(c, pattern)
<1>1. PICK h \in list : Sample(pattern) = h \/ Below(Sample(pattern), h)
  BY DEF Covered
<1>2. h \in Host /\ h \in Name /\ TrimDot(h) = h /\ Lower(h) = h
  BY HostStays
<1>3. Head(h) # NoLabel
  <2>1. Head(h) = h[1] /\ Len(h) \in Nat \ {0} /\ \A i \in 1..Len(h) : h[i] \in Plain
    BY <1>2, HostLabels, NameHasLabels
  <2>2. h[1] \in Plain
    BY <2>1
  <2> QED BY <2>1, <2>2, LabelClasses
<1>4. DomainMatches(h, Sample(pattern))
  BY <1>1, <1>2, <1>3 DEF DomainMatches
<1> QED BY <1>4 DEF PatternAllowedByCertificate, HostAllowedByCertificate

\* A new certificate is counted, and no key gets lost.
LEMMA IssuedGrows ==
    ASSUME NEW set, IsFiniteSet(set), NEW c
    PROVE  /\ Cardinality(set) \in Nat /\ IsFiniteSet(set \union {c})
           /\ Cardinality(set \union {c}) \in Nat
           /\ Cardinality(set \union {c}) >= Cardinality(set)
           /\ c \notin set => Cardinality(set \union {c}) = Cardinality(set) + 1
<1>1. Cardinality(set) \in Nat
  BY FS_CardinalityType
<1>2. /\ IsFiniteSet(set \union {c})
      /\ Cardinality(set \union {c}) \in {Cardinality(set), Cardinality(set) + 1}
      /\ c \notin set => Cardinality(set \union {c}) = Cardinality(set) + 1
  BY FS_AddElement
<1> QED BY <1>1, <1>2

\* A certificate with a new key is a new certificate.
LEMMA NewKeyIsNew ==
    ASSUME KeysInv
    PROVE  /\ Cardinality(Issued) \in Nat /\ NewKey = Cardinality(Issued) + 1
           /\ NewKey \in Nat /\ NewKey # NewKey + 1
           /\ \A c \in Issued : c.key # NewKey /\ c.key # NewKey + 1
<1>1. Cardinality(Issued) \in Nat /\ NewKey = Cardinality(Issued) + 1
  BY FS_CardinalityType DEF KeysInv, NewKey
<1>2. \A c \in Issued : c.key \in Nat /\ c.key <= Cardinality(Issued)
  BY DEF KeysInv, Certificate
<1> QED BY <1>1, <1>2

LEMMA TrustStart == TrustInit => TrustInv
<1> SUFFICES ASSUME TrustInit PROVE TrustInv
  OBVIOUS
<1>1. Issued = {} /\ inits = {} /\ trusted = {}
  BY DEF TrustInit, Issued
<1>2. KeysInv
  BY <1>1, FS_EmptySet DEF KeysInv
<1>3. clock \in 0..MaxClock
  BY KindsOfInputs DEF TrustInit
<1>4. SinkInv /\ EnrolledDeviceAccepts /\ InitServesItsHosts
  BY DEF TrustInit, SinkInv, EnrolledDeviceAccepts, InitServesItsHosts
<1> QED BY <1>1, <1>2, <1>3, <1>4 DEF TrustInv

\* Neither a start nor a handshake has anything to answer for.
LEMMA QuietIsGood ==
    ASSUME Quiet
    PROVE  EnrolledDeviceAccepts' /\ InitServesItsHosts'
BY DEF Quiet, EnrolledDeviceAccepts, InitServesItsHosts

\* What depends on the files only.
LEMMA FilesStay ==
    ASSUME TrustInv, UNCHANGED files, trusted' \subseteq Issued
    PROVE  Issued' = Issued /\ KeysInv' /\ \A i \in inits' : Matching(i)'
<1>1. inits' = inits /\ rotated' = rotated
  BY DEF files
<1>2. Issued' = Issued /\ Keys' = Keys
  BY <1>1 DEF Issued, Keys
<1>3. \A i : Matching(i)' <=> Matching(i)
  BY DEF Matching
<1> QED BY <1>1, <1>2, <1>3 DEF TrustInv, KeysInv

LEMMA TickKeeps ==
    ASSUME TrustInv, Tick
    PROVE  TrustInv'
<1>1. Issued' = Issued /\ KeysInv' /\ \A i \in inits' : Matching(i)'
  BY FilesStay DEF Tick, TrustInv, KeysInv
<1>2. EnrolledDeviceAccepts' /\ InitServesItsHosts'
  BY QuietIsGood DEF Tick
<1>3. clock' \in 0..MaxClock
  BY KindsOfInputs DEF Tick, TrustInv
<1>4. SinkInv'
  <2>1. \A t \in 0..clock : t \in 0..clock'
    BY KindsOfInputs DEF Tick, TrustInv
  <2>2. sink' = sink
    BY DEF Tick
  <2> QED BY <1>1, <2>1, <2>2 DEF TrustInv, SinkInv, VerifiesAgainst
<1> QED BY <1>1, <1>2, <1>3, <1>4 DEF TrustInv

LEMMA StopKeeps ==
    ASSUME TrustInv, Stop
    PROVE  TrustInv'
<1>1. KeysInv' /\ \A i \in inits' : Matching(i)'
  BY FilesStay DEF Stop, TrustInv, KeysInv
<1>2. EnrolledDeviceAccepts' /\ InitServesItsHosts'
  BY QuietIsGood DEF Stop
<1>3. SinkInv' /\ clock' = clock
  BY DEF Stop, SinkInv
<1> QED BY <1>1, <1>2, <1>3 DEF TrustInv

LEMMA EnrollKeeps ==
    ASSUME TrustInv, Enroll
    PROVE  TrustInv'
<1>0. trusted' \subseteq Issued
  BY DEF Enroll, TrustInv, KeysInv, SinkInv
<1>1. Issued' = Issued /\ KeysInv' /\ \A i \in inits' : Matching(i)'
  BY <1>0, FilesStay DEF Enroll
<1>2. EnrolledDeviceAccepts' /\ InitServesItsHosts'
  BY QuietIsGood DEF Enroll
<1>3. SinkInv' /\ clock' = clock
  BY <1>1 DEF Enroll, TrustInv, SinkInv, VerifiesAgainst
<1> QED BY <1>1, <1>2, <1>3 DEF TrustInv

\* The certificates of `sink pki init` for these hosts.
LEMMA InitFiles ==
    ASSUME TrustInv, NEW hosts_ \in SUBSET Host
    PROVE  LET root_ == NewRoot(hosts_)
               intermediate_ == NewIntermediate(root_, hosts_)
           IN  /\ root_ \in Certificate /\ intermediate_ \in Certificate
               /\ root_.key = NewKey /\ root_.signer = NewKey
               /\ intermediate_.key = NewKey + 1 /\ intermediate_.signer = NewKey
               /\ root_.ca /\ intermediate_.ca
               /\ root_.permitted = hosts_ /\ root_.excluded = {}
               /\ intermediate_.permitted = hosts_ /\ intermediate_.excluded = {}
               /\ intermediate_.notBefore = root_.notBefore
               /\ intermediate_.notAfter <= root_.notAfter
<1> DEFINE root_ == NewRoot(hosts_)
           ends == IntermediateUntil(root_)
           intermediate_ == NewIntermediate(root_, hosts_)
<1>1. NewKey \in Nat /\ NewKey + 1 \in Nat
  BY NewKeyIsNew DEF TrustInv
<1>2. /\ clock \in Int /\ clock + RootLife \in Int /\ clock + IntermediateLife \in Int
      /\ hosts_ \in SUBSET Name /\ {} \in SUBSET Name
  BY KindsOfInputs, HostLabels DEF TrustInv
<1>3. /\ root_ \in Certificate /\ root_.key = NewKey /\ root_.signer = NewKey
      /\ root_.ca /\ root_.permitted = hosts_ /\ root_.excluded = {}
      /\ root_.notBefore = WholeSeconds(clock)
  <2>1. root_ = InitCert(NewKey, NewKey, hosts_, TRUE, clock + RootLife)
    BY DEF NewRoot
  <2> HIDE DEF root_
  <2>2. /\ WholeSeconds(clock) \in Int /\ WholeSeconds(clock + RootLife) \in Int
        /\ WholeSeconds(WholeSeconds(clock + RootLife)) = WholeSeconds(clock + RootLife)
    BY <1>2, SecondsAreWhole
  <2> QED BY <1>1, <1>2, <2>1, <2>2 DEF InitCert, Certificate
<1>4. root_.notAfter \in Int
  BY <1>3 DEF Certificate
<1> HIDE DEF root_
<1>5. ends \in Int /\ ends <= root_.notAfter
  BY <1>2, <1>4 DEF IntermediateUntil, Earlier
<1>6. intermediate_ = InitCert(NewKey + 1, NewKey, hosts_, FALSE, ends)
  BY <1>3 DEF NewIntermediate
<1> HIDE DEF intermediate_, ends
<1>7. /\ intermediate_ \in Certificate
      /\ intermediate_.key = NewKey + 1 /\ intermediate_.signer = NewKey
      /\ intermediate_.ca
      /\ intermediate_.permitted = hosts_ /\ intermediate_.excluded = {}
      /\ intermediate_.notBefore = WholeSeconds(clock)
      /\ intermediate_.notAfter <= ends
  <2>1. /\ WholeSeconds(clock) \in Int /\ WholeSeconds(ends) \in Int
        /\ WholeSeconds(ends) <= ends
        /\ WholeSeconds(WholeSeconds(ends)) = WholeSeconds(ends)
    BY <1>2, <1>5, SecondsAreWhole
  <2> QED BY <1>1, <1>2, <1>6, <2>1 DEF InitCert, Certificate
<1>8. intermediate_.notAfter <= root_.notAfter
  <2>1. intermediate_.notAfter \in Int
    BY <1>7 DEF Certificate
  <2> QED BY <1>4, <1>5, <1>7, <2>1
<1> QED BY <1>3, <1>7, <1>8 DEF root_, intermediate_

LEMMA PkiInitKeeps ==
    ASSUME TrustInv, NEW list \in InitLists, PkiInit(list)
    PROVE  TrustInv'
<1> DEFINE hosts_ == ExactHosts(list)
           root_ == NewRoot(hosts_)
           intermediate_ == NewIntermediate(root_, hosts_)
           made == [root |-> root_, intermediate |-> intermediate_, hosts |-> hosts_]
           n == Cardinality(Issued)
<1>1. hosts_ \in SUBSET Host
  <2>1. \A name \in Name : ExactHost(name) \in Host \union {Invalid}
    BY ExactMeans
  <2>2. list \subseteq Name /\ Invalid \notin hosts_
    BY KindsOfInputs DEF PkiInit
  <2> QED BY <2>1, <2>2 DEF ExactHosts
<1>2. /\ inits' = inits \union {made} /\ rotated' = rotated
      /\ clock' = clock /\ sink' = sink /\ trusted' = trusted /\ Quiet
  BY DEF PkiInit
<1> HIDE DEF hosts_
<1>3. /\ root_ \in Certificate /\ intermediate_ \in Certificate
      /\ root_.key = NewKey /\ root_.signer = NewKey
      /\ intermediate_.key = NewKey + 1 /\ intermediate_.signer = NewKey
      /\ root_.ca /\ intermediate_.ca
      /\ root_.permitted = hosts_ /\ root_.excluded = {}
      /\ intermediate_.permitted = hosts_ /\ intermediate_.excluded = {}
      /\ intermediate_.notBefore = root_.notBefore
      /\ intermediate_.notAfter <= root_.notAfter
  BY <1>1, InitFiles
<1> HIDE DEF root_, intermediate_
<1>4. made.root = root_ /\ made.intermediate = intermediate_ /\ made.hosts = hosts_
  OBVIOUS
<1> HIDE DEF made
<1>5. Issued' = (Issued \union {root_}) \union {intermediate_}
  BY <1>2, <1>4 DEF Issued
<1>6. /\ n \in Nat /\ NewKey = n + 1 /\ NewKey \in Nat /\ NewKey # NewKey + 1
      /\ \A c \in Issued : c.key # NewKey /\ c.key # NewKey + 1
  BY NewKeyIsNew DEF TrustInv
<1>7. IsFiniteSet(Issued') /\ Cardinality(Issued') = n + 2
  <2>1. IsFiniteSet(Issued) /\ root_ \notin Issued /\ intermediate_ \notin Issued \union {root_}
    BY <1>3, <1>6 DEF TrustInv, KeysInv
  <2>2. IsFiniteSet(Issued \union {root_}) /\ Cardinality(Issued \union {root_}) = n + 1
    BY <2>1, IssuedGrows
  <2>3. /\ IsFiniteSet(Issued')
        /\ Cardinality(Issued') = Cardinality(Issued \union {root_}) + 1
    BY <1>5, <2>1, <2>2, IssuedGrows
  <2> QED BY <1>6, <2>2, <2>3
<1>8. KeysInv'
  <2>1. Keys \subseteq Keys' /\ NewKey \in Keys'
    BY <1>3, <1>5 DEF Keys
  <2>2. ASSUME NEW c \in Issued'
        PROVE  c \in Certificate /\ c.key <= Cardinality(Issued') /\ c.signer \in Keys'
    <3>1. CASE c \in Issued
      <4>1. c \in Certificate /\ c.key <= n /\ c.signer \in Keys
        BY <3>1 DEF TrustInv, KeysInv
      <4>2. c.key \in Nat
        BY <4>1 DEF Certificate
      <4> HIDE DEF n
      <4>3. c.key <= n + 2
        BY <1>6, <4>1, <4>2
      <4> QED BY <1>7, <2>1, <4>1, <4>3
    <3>2. CASE c \in {root_, intermediate_}
      <4>1. c \in Certificate /\ c.signer = NewKey /\ c.key \in {NewKey, NewKey + 1}
        BY <1>3, <3>2
      <4> HIDE DEF n
      <4> QED BY <1>6, <1>7, <2>1, <4>1
    <3> QED BY <1>5, <3>1, <3>2
  <2>3. trusted' \subseteq Issued'
    BY <1>2, <1>5 DEF TrustInv, KeysInv
  <2> QED BY <1>7, <2>2, <2>3 DEF KeysInv
<1>9. ASSUME NEW i \in inits'
      PROVE  Matching(i)'
  <2>1. CASE i \in inits
    BY <2>1 DEF TrustInv, Matching
  <2>2. CASE i = made
    BY <1>1, <1>3, <1>4, <1>6, <2>2 DEF Matching
  <2> QED BY <1>2, <2>1, <2>2
<1>10. SinkInv'
  BY <1>2, <1>5 DEF TrustInv, SinkInv, VerifiesAgainst
<1>11. EnrolledDeviceAccepts' /\ InitServesItsHosts'
  BY <1>2, QuietIsGood
<1> QED BY <1>2, <1>8, <1>9, <1>10, <1>11 DEF TrustInv

LEMMA RotateKeeps ==
    ASSUME TrustInv, NEW key \in Keys \union {NewKey}, NEW like \in Rotations,
           NEW signer \in Keys \union {key}, Rotate(key, signer, like)
    PROVE  TrustInv'
<1> DEFINE begins == WholeSeconds(clock + like.from)
           ends == WholeSeconds(clock + like.until)
           made == [key |-> key, signer |-> signer,
                    permitted |-> like.permitted, excluded |-> like.excluded,
                    ca |-> like.ca, below |-> like.below, servers |-> like.servers,
                    notBefore |-> begins, notAfter |-> ends]
           n == Cardinality(Issued)
<1>1. /\ rotated' = rotated \union {made} /\ inits' = inits
      /\ clock' = clock /\ sink' = sink /\ trusted' = trusted /\ Quiet
  BY DEF Rotate
<1>2. /\ n \in Nat /\ NewKey = n + 1 /\ NewKey \in Nat
      /\ \A c \in Issued : c.key # NewKey
  BY NewKeyIsNew DEF TrustInv
<1>3. \A k \in Keys : k \in Nat /\ k <= n
  BY DEF TrustInv, KeysInv, Keys, Certificate
<1>4. made \in Certificate /\ made.key = key /\ made.signer = signer
  <2>1. key \in Nat /\ signer \in Nat
    BY <1>2, <1>3
  <2>2. /\ like.permitted \in SUBSET Name /\ like.excluded \in SUBSET Name
        /\ like.ca \in BOOLEAN /\ like.below \in BOOLEAN /\ like.servers \in BOOLEAN
        /\ like.from \in Int /\ like.until \in Int
    BY KindsOfInputs DEF Constraint
  <2>3. clock + like.from \in Int /\ clock + like.until \in Int
    BY <2>2 DEF TrustInv
  <2>4. begins \in Int /\ ends \in Int /\ WholeSeconds(ends) = ends
    BY <2>3, SecondsAreWhole
  <2> HIDE DEF begins, ends
  <2> QED BY <2>1, <2>2, <2>4 DEF Certificate
<1> HIDE DEF made
<1>5. Issued' = Issued \union {made}
  BY <1>1 DEF Issued
<1>6. /\ IsFiniteSet(Issued') /\ Cardinality(Issued') \in Nat /\ Cardinality(Issued') >= n
      /\ key = NewKey => Cardinality(Issued') = n + 1
  <2>1. key = NewKey => made \notin Issued
    BY <1>2, <1>4
  <2> QED BY <1>5, <2>1, IssuedGrows DEF TrustInv, KeysInv
<1>7. KeysInv'
  <2>1. Keys \subseteq Keys' /\ key \in Keys'
    BY <1>4, <1>5 DEF Keys
  <2>2. ASSUME NEW c \in Issued'
        PROVE  c \in Certificate /\ c.key <= Cardinality(Issued') /\ c.signer \in Keys'
    <3>1. CASE c \in Issued
      <4>1. c \in Certificate /\ c.key <= n /\ c.signer \in Keys
        BY <3>1 DEF TrustInv, KeysInv
      <4>2. c.key \in Nat
        BY <4>1 DEF Certificate
      <4> HIDE DEF n
      <4> QED BY <1>2, <1>6, <2>1, <4>1, <4>2
    <3>2. CASE c = made
      <4> HIDE DEF n
      <4>1. key \in Nat /\ key <= Cardinality(Issued')
        BY <1>2, <1>3, <1>6
      <4> QED BY <1>4, <2>1, <3>2, <4>1
    <3> QED BY <1>5, <3>1, <3>2
  <2>3. trusted' \subseteq Issued'
    BY <1>1, <1>5 DEF TrustInv, KeysInv
  <2> QED BY <1>6, <2>2, <2>3 DEF KeysInv
<1>8. \A i \in inits' : Matching(i)'
  BY <1>1 DEF TrustInv, Matching
<1>9. SinkInv'
  BY <1>1, <1>5 DEF TrustInv, SinkInv, VerifiesAgainst
<1>10. EnrolledDeviceAccepts' /\ InitServesItsHosts'
  BY <1>1, QuietIsGood
<1> QED BY <1>1, <1>7, <1>8, <1>9, <1>10 DEF TrustInv

LEMMA StartKeeps ==
    ASSUME TrustInv, NEW pem \in Mounted, NEW configured_ \in Configurations,
           Start(pem, configured_)
    PROVE  TrustInv'
<1> DEFINE patterns_ == {NormalizePattern(h) : h \in configured_}
           kept == Effective(pem, patterns_)
           up == Invalid \notin patterns_ /\ kept # {} /\ Loads(pem, kept)
<1>1. /\ start' = [of |-> {i \in inits : FilesOf(i) = pem}, hosts |-> patterns_]
      /\ sink' = IF up
                 THEN [root |-> pem.root, intermediate |-> pem.intermediate,
                       hosts |-> kept, since |-> clock]
                 ELSE Down
      /\ shake' = None /\ clock' = clock /\ trusted' = trusted
      /\ UNCHANGED files
  BY DEF Start
<1> HIDE DEF patterns_
<1>2. pem.root \in Issued /\ pem.intermediate \in Issued
  BY DEF Mounted
<1>3. Issued' = Issued /\ KeysInv' /\ \A i \in inits' : Matching(i)'
  BY <1>1, FilesStay DEF TrustInv, KeysInv
<1>4. EnrolledDeviceAccepts'
  BY <1>1 DEF EnrolledDeviceAccepts
<1>5. SinkInv'
  <2>1. CASE up
    <3>1. kept # {} /\ Invalid \notin kept
      BY <2>1 DEF Effective
    <3>2. /\ pem.root.ca /\ pem.intermediate.ca
          /\ VerifiesAgainst(pem.intermediate, pem.root)
          /\ pem.intermediate.notAfter <= pem.root.notAfter
      BY <2>1 DEF Loads
    <3>3. clock \in 0..clock
      BY KindsOfInputs DEF TrustInv
    <3>4. /\ sink'.root = pem.root /\ sink'.intermediate = pem.intermediate
          /\ sink'.hosts = kept /\ sink'.since = clock
      BY <1>1, <2>1
    <3> HIDE DEF kept, up
    <3> QED BY <1>1, <1>2, <1>3, <3>1, <3>2, <3>3, <3>4 DEF SinkInv, VerifiesAgainst
  <2>2. CASE ~up
    BY <1>1, <2>2 DEF SinkInv
  <2> QED BY <2>1, <2>2
<1>6. InitServesItsHosts'
  <2> SUFFICES ASSUME NEW i \in inits, FilesOf(i) = pem,
                      patterns_ # {},
                      \A p \in patterns_ : p # Invalid /\ Covered(p, i.hosts),
                      ValidAt(i.intermediate, clock)
               PROVE  up /\ kept = patterns_
    <3>1. start'.of = {i \in inits : FilesOf(i) = pem} /\ start'.hosts = patterns_
      BY <1>1
    <3>2. up => sink'.hosts = kept
      BY <1>1
    <3> HIDE DEF kept, up
    <3> QED BY <1>1, <3>1, <3>2 DEF InitServesItsHosts
  <2>1. /\ pem.root = i.root /\ pem.intermediate = i.intermediate
        /\ pem.key = i.intermediate.key /\ Matching(i)
    BY DEF TrustInv, FilesOf
  <2>2. ASSUME NEW p \in patterns_
        PROVE  /\ PatternAllowedByCertificate(pem.root, p)
               /\ PatternAllowedByCertificate(pem.intermediate, p)
    BY <2>1, CoveredIsPermitted DEF Matching
  <2>3. kept = patterns_
    BY <2>2 DEF Effective
  <2>4. Effective(pem, kept) = kept
    BY <2>2, <2>3 DEF Effective
  <2>5. ValidAt(pem.root, clock)
    <3>1. pem.root \in Certificate /\ pem.intermediate \in Certificate
      BY <1>2 DEF TrustInv, KeysInv
    <3>2. clock \in Int
      BY DEF TrustInv
    <3>3. /\ pem.root.notBefore \in Int /\ pem.root.notAfter \in Int
          /\ pem.intermediate.notBefore \in Int /\ pem.intermediate.notAfter \in Int
      BY <3>1 DEF Certificate
    <3> QED BY <2>1, <3>2, <3>3 DEF ValidAt, Matching
  <2> HIDE DEF kept
  <2>6. Loads(pem, kept)
    BY <2>1, <2>3, <2>4, <2>5 DEF Loads, Matching, VerifiesAgainst
  <2> QED BY <2>3, <2>6
<1> QED BY <1>1, <1>3, <1>4, <1>5, <1>6 DEF TrustInv

LEMMA HandshakeKeeps ==
    ASSUME TrustInv, NEW host \in ServerNames, NEW leaf \in LeavesOf(host),
           NEW time \in (clock - Slow)..(clock + Fast), Handshake(host, leaf, time)
    PROVE  TrustInv'
<1> DEFINE cas == {sink.root, sink.intermediate}
<1>1. /\ shake' = [inWindow |-> InWindow(sink.root, time)
                                /\ InWindow(sink.intermediate, time),
                   accepted |-> Accepts(host, leaf, time)]
      /\ sink # Down /\ IssuerAllows(host)
      /\ start' = None /\ clock' = clock /\ sink' = sink /\ trusted' = trusted
      /\ UNCHANGED files
  BY DEF Handshake
<1>2. Issued' = Issued /\ KeysInv' /\ \A i \in inits' : Matching(i)'
  BY <1>1, FilesStay DEF TrustInv, KeysInv
<1>3. SinkInv'
  BY <1>1, <1>2 DEF TrustInv, SinkInv, VerifiesAgainst
<1>4. InitServesItsHosts'
  BY <1>1 DEF InitServesItsHosts
<1>5. EnrolledDeviceAccepts'
  <2> SUFFICES ASSUME sink.root \in trusted, \A c \in cas : InWindow(c, time),
                      ~LoadLooksPast(sink.root, sink.intermediate)
               PROVE  Accepts(host, leaf, time)
    <3>1. /\ shake'.accepted = Accepts(host, leaf, time)
          /\ shake'.inWindow => InWindow(sink.root, time) /\ InWindow(sink.intermediate, time)
      BY <1>1
    <3>2. LoadLooksPast(sink.root, sink.intermediate)
             => LoadLooksPast(sink'.root, sink'.intermediate)
      BY <1>1
    <3> QED BY <1>1, <3>1, <3>2 DEF EnrolledDeviceAccepts
  <2>1. InWindow(leaf, time)
    <3>1. time <= sink.intermediate.notAfter
      BY DEF InWindow
    <3> QED BY <1>1, <3>1, LeafReachesDevices
  <2>2. \A c \in cas : HostAllowedByCertificate(c, host)
    BY <1>1 DEF IssuerAllows
  <2>3. /\ sink.root.signer = sink.root.key
        /\ sink.root.below \/ sink.intermediate = sink.root
        /\ \A c \in cas : c.servers /\ c.excluded \intersect Everything = {}
    BY DEF LoadLooksPast
  <2>4. \A c \in cas : Admits(c, host)
    BY <2>2, <2>3, PermittedIsAdmitted
  <2>5. /\ \A c \in cas : c.ca
        /\ VerifiesAgainst(sink.intermediate, sink.root)
    BY <1>1 DEF TrustInv, SinkInv
  <2>6. \/ sink.root = sink.intermediate
        \/ /\ sink.intermediate.signer = sink.root.key
           /\ sink.intermediate.key # sink.root.key /\ sink.root.below
    BY <2>3, <2>5 DEF VerifiesAgainst
  <2> QED BY <2>1, <2>3, <2>4, <2>5, <2>6 DEF Accepts
<1> QED BY <1>1, <1>2, <1>3, <1>4, <1>5 DEF TrustInv

LEMMA TrustInvariant == TrustSpec => []TrustInv
<1>1. TrustInv /\ [TrustNext]_trustVars => TrustInv'
  <2> SUFFICES ASSUME TrustInv, [TrustNext]_trustVars PROVE TrustInv'
    OBVIOUS
  <2>1. CASE Tick
    BY <2>1, TickKeeps
  <2>2. ASSUME NEW list \in InitLists, PkiInit(list) PROVE TrustInv'
    BY <2>2, PkiInitKeeps
  <2>3. ASSUME NEW key \in Keys \union {NewKey}, NEW like \in Rotations,
               NEW signer \in Keys \union {key}, Rotate(key, signer, like)
        PROVE  TrustInv'
    BY <2>3, RotateKeeps
  <2>4. ASSUME NEW pem \in Mounted, NEW configured_ \in Configurations,
               Start(pem, configured_)
        PROVE  TrustInv'
    BY <2>4, StartKeeps
  <2>5. CASE Stop
    BY <2>5, StopKeeps
  <2>6. CASE Enroll
    BY <2>6, EnrollKeeps
  <2>7. ASSUME NEW host \in ServerNames, NEW leaf \in LeavesOf(host),
               NEW time \in (clock - Slow)..(clock + Fast), Handshake(host, leaf, time)
        PROVE  TrustInv'
    BY <2>7, HandshakeKeeps
  <2>8. CASE UNCHANGED trustVars
    <3>1. /\ UNCHANGED files /\ clock' = clock /\ sink' = sink /\ trusted' = trusted
          /\ start' = start /\ shake' = shake
      BY <2>8 DEF trustVars
    <3>2. Issued' = Issued /\ KeysInv' /\ \A i \in inits' : Matching(i)'
      BY <3>1, FilesStay DEF TrustInv, KeysInv
    <3>3. SinkInv'
      BY <3>1, <3>2 DEF TrustInv, SinkInv, VerifiesAgainst
    <3>4. EnrolledDeviceAccepts' /\ InitServesItsHosts'
      BY <3>1 DEF TrustInv, EnrolledDeviceAccepts, InitServesItsHosts
    <3> QED BY <3>1, <3>2, <3>3, <3>4 DEF TrustInv
  <2> QED BY <2>1, <2>2, <2>3, <2>4, <2>5, <2>6, <2>7, <2>8 DEF TrustNext
<1> QED BY TrustStart, <1>1, PTL DEF TrustSpec

(***************************************************************************)
(* Every certificate is signed with a key that exists, the sink runs on    *)
(* certificates that exist, for hosts that are names, and Init never gives *)
(* an intermediate its root's key (pki.Init, pki.Load).                    *)
(***************************************************************************)
THEOREM TrustTypes == TrustSpec => []TrustTypeOK
<1>1. TrustInv => TrustTypeOK
  <2> SUFFICES ASSUME TrustInv PROVE TrustTypeOK
    OBVIOUS
  <2>1. ASSUME NEW c \in Issued
        PROVE  /\ DOMAIN c = {"key", "signer", "permitted", "excluded", "ca", "below",
                              "servers", "notBefore", "notAfter"}
               /\ c.signer \in Keys
    BY DEF TrustInv, KeysInv, Certificate
  <2>2. \A i \in inits : i.intermediate.key # i.root.key
    BY DEF TrustInv, Matching
  <2> QED BY <2>1, <2>2 DEF TrustTypeOK, TrustInv, KeysInv, SinkInv
<1> QED BY <1>1, TrustInvariant, PTL

(***************************************************************************)
(* A device that has installed what is in the root slot accepts each       *)
(* certificate that GetCertificate hands it while it takes both CAs for    *)
(* valid, unless the files are wrong in one of the four ways that Load     *)
(* looks past: for every sequence of inits and restarts, certificates made *)
(* by hand with any keys, signers, constraints, windows and extensions,    *)
(* any file in any slot, and every clock that is no further off than the   *)
(* backdating of a leaf and the third of its life at which needsRenewal    *)
(* gives up.                                                               *)
(***************************************************************************)
THEOREM TrustEnrolledDeviceAccepts == TrustSpec => []EnrolledDeviceAccepts
<1>1. TrustInv => EnrolledDeviceAccepts
  BY DEF TrustInv
<1> QED BY <1>1, TrustInvariant, PTL

(***************************************************************************)
(* What `sink pki init` has written starts a sink (FilterHosts and Load)   *)
(* throughout the intermediate's life, and no host of the list that the    *)
(* CA was made for, nor a name or wildcard below one, is filtered out.     *)
(***************************************************************************)
THEOREM TrustInitServesItsHosts == TrustSpec => []InitServesItsHosts
<1>1. TrustInv => InitServesItsHosts
  BY DEF TrustInv
<1> QED BY <1>1, TrustInvariant, PTL

===============================================================================
