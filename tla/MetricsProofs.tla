----------------------------- MODULE MetricsProofs -----------------------------
(***************************************************************************)
(* Proofs about the request metrics, for any number of workers, any names  *)
(* that clients choose and any limits.                                     *)
(*                                                                         *)
(* The invariant follows a name from the table's verdict, under the mutex, *)
(* to the counter, outside it: a verdict of "other" was given by a full    *)
(* table that did not hold the name, and a full table never changes.       *)
(***************************************************************************)
EXTENDS Metrics, FiniteSetTheorems, WellFoundedInduction, TLAPS

\* Where worker w is, and at which of the two counters.
At(w, point) == pc[w][1] = point
VecOf(w) == pc[w][2]

\* The table holds no place for the name, now and ever.
Spilled(v, name) == ~Known(v, name) /\ Full(v)

TableInv ==
    \A v \in Vec : IsFiniteSet(table[v]) /\ Cardinality(table[v]) <= Limit(v)

\* Every request asks for a site and for an upstream.
Asks(w) == ~At(w, "idle") => /\ wanted[w]["site"] \in Asked("site")
                             /\ wanted[w]["upstream"] \in Asked("upstream")

\* Worker w adds a name that it has found a place for.
Adds(w) == At(w, "add") => /\ ~Full(VecOf(w))
                           /\ ~Known(VecOf(w), wanted[w][VecOf(w)])

\* Worker w counts a name that is known, or never will be.
Counts(w) ==
    At(w, "count") =>
        \/ /\ label[w] = wanted[w][VecOf(w)]
           /\ Known(VecOf(w), wanted[w][VecOf(w)])
        \/ label[w] = Other /\ Spilled(VecOf(w), wanted[w][VecOf(w)])

WorkerInv == \A w \in Worker : Asks(w) /\ Adds(w) /\ Counts(w)

SpillInv ==
    \A v \in Vec : \A n \in spilled[v] \ Reserved(v) : Spilled(v, n)

\* What is counted by name has a place in the table.
LabelInv ==
    \A v \in Vec : \A n \in Name \ Reserved(v) :
        (\E r \in Result : count[v][n][r] > 0) => n \in table[v] \union {Other}

IInv == TypeOK /\ TableInv /\ WorkerInv /\ SpillInv /\ LabelInv

\* A step of worker w changes no other worker's variables.
OthersStay(w) ==
    \A x \in Worker \ {w} : /\ pc'[x] = pc[x] /\ wanted'[x] = wanted[x]
                            /\ result'[x] = result[x] /\ label'[x] = label[x]

\* A table loses no name, and takes none when it is full.
TablesGrow ==
    \A v \in Vec : /\ table[v] \subseteq table'[v]
                   /\ Full(v) => table'[v] = table[v]

-------------------------------------------------------------------------------

LEMMA LimitType == \A v \in Vec : Limit(v) \in Nat \ {0}
  BY Limits DEF Vec, Limit

LEMMA NameType ==
  /\ Other \in Name /\ Unknown \in Name
  /\ \A v \in Vec : Asked(v) \subseteq Name
  /\ "site" \in Vec /\ "upstream" \in Vec
  BY DEF Name, Asked, Vec

LEMMA PcType ==
  ASSUME TypeOK, NEW w \in Worker
  PROVE  /\ pc[w] = <<pc[w][1], VecOf(w)>>
         /\ VecOf(w) \in Vec
         /\ wanted[w][VecOf(w)] \in Name
<1>1. pc[w] \in Point \X Vec /\ wanted[w] \in [site : Name, upstream : Name]
  BY DEF TypeOK
<1>2. pc[w] = <<pc[w][1], pc[w][2]>> /\ pc[w][2] \in Vec
  BY <1>1
<1> QED BY <1>1, <1>2 DEF VecOf, Vec

\* What the move of one worker means for all of them.
LEMMA Moves ==
  ASSUME TypeOK, NEW w \in Worker, NEW a, NEW v, NEW b, NEW u, Goes(w, <<a, v>>, <<b, u>>)
  PROVE  /\ pc[w][1] = a /\ pc[w][2] = v
         /\ pc'[w][1] = b /\ pc'[w][2] = u
         /\ \A x \in Worker \ {w} : pc'[x] = pc[x]
         /\ b \in Point /\ u \in Vec => pc' \in [Worker -> Point \X Vec]
<1>1. pc \in [Worker -> Point \X Vec]
  BY DEF TypeOK
<1> QED BY <1>1 DEF Goes

LEMMA InitInv == Init => IInv
<1> SUFFICES ASSUME Init PROVE IInv
  OBVIOUS
<1>1. /\ "idle" \in Point /\ "site" \in Vec /\ "matched" \in Result
      /\ Nothing \in [site : Name, upstream : Name]
  BY NameType DEF Point, Vec, Result, Nothing
<1>2. \A w \in Worker : pc[w][1] = "idle"
  BY DEF Init
<1>3. TypeOK
  BY <1>1, <1>2, NameType, FreeIsNoWorker, RequestsBounded DEF Init, TypeOK
<1>4. TableInv
  BY LimitType, FS_EmptySet DEF Init, TableInv
<1>5. WorkerInv
  BY <1>2 DEF WorkerInv, Asks, Adds, Counts, At
<1>6. SpillInv
  BY DEF Init, SpillInv
<1>7. LabelInv
  BY DEF Init, LabelInv
<1> QED BY <1>3, <1>4, <1>5, <1>6, <1>7 DEF IInv

-------------------------------------------------------------------------------
(* Types. *)

\* The mutex is held by the worker that looks or adds, and by no other.
Excludes == \A w \in Worker : pc[w][1] \in {"look", "add"} <=> mutex = w

LEMMA StepMutex ==
  ASSUME TypeOK, NEW w \in Worker, Begin(w) \/ Step(w)
  PROVE  mutex' \in Worker \union {Free} /\ Excludes'
<1>0. /\ mutex \in Worker \union {Free} /\ Excludes /\ Free \notin Worker
  BY FreeIsNoWorker DEF TypeOK, Excludes
<1>1. CASE Begin(w)
  <2>1. /\ pc[w][1] = "idle" /\ pc'[w][1] = "request" /\ mutex' = mutex
        /\ \A x \in Worker \ {w} : pc'[x] = pc[x]
    BY <1>1, Moves DEF Begin
  <2> QED BY <2>1, <1>0 DEF Excludes
<1>2. CASE Request(w)
  <2>1. /\ pc[w][1] = "request" /\ pc'[w][1] = "lock" /\ mutex' = mutex
        /\ \A x \in Worker \ {w} : pc'[x] = pc[x]
    BY <1>2, Moves DEF Request
  <2> QED BY <2>1, <1>0 DEF Excludes
<1>3. ASSUME NEW v \in Vec, Lock(w, v)
      PROVE  mutex' \in Worker \union {Free} /\ Excludes'
  <2>1. /\ mutex = Free /\ pc'[w][1] = "look" /\ mutex' = w
        /\ \A x \in Worker \ {w} : pc'[x] = pc[x]
    BY <1>3, Moves DEF Lock
  <2> QED BY <2>1, <1>0 DEF Excludes
<1>4. ASSUME NEW v \in Vec, Grant(w, v) \/ Add(w, v)
      PROVE  mutex' \in Worker \union {Free} /\ Excludes'
  <2>1. /\ pc[w][1] \in {"look", "add"} /\ pc'[w][1] = "count" /\ mutex' = Free
        /\ \A x \in Worker \ {w} : pc'[x] = pc[x]
    BY <1>4, Moves DEF Grant, Add
  <2> QED BY <2>1, <1>0 DEF Excludes
<1>5. ASSUME NEW v \in Vec, Admit(w, v)
      PROVE  mutex' \in Worker \union {Free} /\ Excludes'
  <2>1. /\ pc[w][1] = "look" /\ pc'[w][1] = "add" /\ mutex' = mutex
        /\ \A x \in Worker \ {w} : pc'[x] = pc[x]
    BY <1>5, Moves DEF Admit
  <2> QED BY <2>1, <1>0 DEF Excludes
<1>6. ASSUME NEW v \in Vec, Count(w, v)
      PROVE  mutex' \in Worker \union {Free} /\ Excludes'
  <2>1. Goes(w, <<"count", v>>, <<"lock", "upstream">>)
        \/ Goes(w, <<"count", v>>, <<"idle", "site">>)
    BY <1>6 DEF Count
  <2>2. /\ pc[w][1] = "count" /\ pc'[w][1] \in {"lock", "idle"}
        /\ \A x \in Worker \ {w} : pc'[x] = pc[x]
    BY <2>1, Moves
  <2>3. mutex' = mutex
    BY <1>6 DEF Count
  <2> QED BY <2>2, <2>3, <1>0 DEF Excludes
<1> QED BY <1>1, <1>2, <1>3, <1>4, <1>5, <1>6 DEF Step

\* A counter of one result more is a counter.
LEMMA IncType ==
  ASSUME NEW s \in [Result -> Nat], NEW r \in Result
  PROVE  Inc(s, r) \in [Result -> Nat]
  BY DEF Inc

LEMMA StepType ==
  ASSUME TypeOK, NEW w \in Worker, Begin(w) \/ Step(w)
  PROVE  TypeOK'
<1> DEFINE Pc == [Worker -> Point \X Vec]
           Wanted == [Worker -> [site : Name, upstream : Name]]
           Table == [Vec -> SUBSET Name]
           Counter == [Vec -> [Name -> [Result -> Nat]]]
<1>0. /\ pc \in Pc /\ wanted \in Wanted /\ result \in [Worker -> Result]
      /\ label \in [Worker -> Name] /\ table \in Table /\ spilled \in Table
      /\ requests \in [Result -> Nat] /\ count \in Counter /\ begun \in 0..MaxRequests
  BY DEF TypeOK
<1>a. /\ mutex' \in Worker \union {Free}
      /\ \A x \in Worker : pc'[x][1] \in {"look", "add"} <=> mutex' = x
  BY StepMutex DEF Excludes
<1>9. ASSUME pc' \in Pc, wanted' \in Wanted, result' \in [Worker -> Result],
             label' \in [Worker -> Name], table' \in Table, spilled' \in Table,
             requests' \in [Result -> Nat], count' \in Counter,
             begun' \in 0..MaxRequests
      PROVE  TypeOK'
  BY <1>9, <1>a DEF TypeOK
<1>b. \A a, v, b : \A u \in Vec : b \in Point /\ Goes(w, <<a, v>>, <<b, u>>) => pc' \in Pc
  BY Moves
<1>c. {"idle", "request", "lock", "look", "add", "count"} \subseteq Point
  BY DEF Point
<1>d. \A n \in Name : [label EXCEPT ![w] = n] \in [Worker -> Name]
  BY <1>0
<1>e. result[w] \in Result /\ label[w] \in Name
  BY <1>0
<1>f. \A v \in Vec : wanted[w][v] \in Name
  BY <1>0 DEF Vec
<1>g. \A f \in Table, v \in Vec : \A n \in Name :
        [f EXCEPT ![v] = @ \union {n}] \in Table
  OBVIOUS
<1> HIDE DEF Pc, Wanted, Table, Counter
<1>1. CASE Begin(w)
  <2>1. pc' \in Pc
    BY <1>1, <1>b, <1>c, NameType DEF Begin
  <2>2. begun' \in 0..MaxRequests
    BY <1>1, <1>0, RequestsBounded DEF Begin
  <2>3. PICK r \in Arising, s \in Asked("site"), u \in Asked("upstream") :
          /\ result' = [result EXCEPT ![w] = r]
          /\ wanted' = [wanted EXCEPT ![w] = [site |-> s, upstream |-> u]]
    BY <1>1 DEF Begin
  <2>4. result' \in [Worker -> Result]
    BY <2>3, <1>0, RequestsBounded
  <2>5. [site |-> s, upstream |-> u] \in [site : Name, upstream : Name]
    BY NameType
  <2>6. wanted' \in Wanted
    BY <2>3, <2>5, <1>0 DEF Wanted
  <2> QED BY <1>1, <2>1, <2>2, <2>4, <2>6, <1>0, <1>9 DEF Begin
<1>2. CASE Request(w)
  <2>1. pc' \in Pc
    BY <1>2, <1>b, <1>c, NameType DEF Request
  <2>2. requests' \in [Result -> Nat]
    BY <1>2, <1>0, <1>e, IncType DEF Request
  <2> QED BY <1>2, <2>1, <2>2, <1>0, <1>9 DEF Request, local
<1>3. ASSUME NEW v \in Vec, Lock(w, v) \/ Admit(w, v) PROVE TypeOK'
  <2>1. pc' \in Pc
    BY <1>3, <1>b, <1>c DEF Lock, Admit
  <2> QED BY <1>3, <2>1, <1>0, <1>9 DEF Lock, Admit, local
<1>4. ASSUME NEW v \in Vec, Grant(w, v) PROVE TypeOK'
  <2>1. pc' \in Pc
    BY <1>4, <1>b, <1>c DEF Grant
  <2>2. label' \in [Worker -> Name]
    BY <1>4, <1>d, <1>f, NameType DEF Grant
  <2> QED BY <1>4, <2>1, <2>2, <1>0, <1>9 DEF Grant, local
<1>5. ASSUME NEW v \in Vec, Add(w, v) PROVE TypeOK'
  <2>1. pc' \in Pc
    BY <1>5, <1>b, <1>c DEF Add
  <2>2. label' \in [Worker -> Name]
    BY <1>5, <1>d, <1>f DEF Add
  <2>3. table' \in Table
    BY <1>5, <1>0, <1>f, <1>g DEF Add
  <2> QED BY <1>5, <2>1, <2>2, <2>3, <1>0, <1>9 DEF Add, local
<1>6. ASSUME NEW v \in Vec, Count(w, v) PROVE TypeOK'
  <2>1. pc' \in Pc
    <3>1. Goes(w, <<"count", v>>, <<"lock", "upstream">>)
          \/ Goes(w, <<"count", v>>, <<"idle", "site">>)
      BY <1>6 DEF Count
    <3> QED BY <3>1, <1>b, <1>c, NameType
  <2>2. label' \in [Worker -> Name]
    BY <1>6, <1>d, NameType DEF Count, Leave
  <2>3. spilled' \in Table
    <3>1. spilled' = spilled \/ spilled' = [spilled EXCEPT ![v] = @ \union {wanted[w][v]}]
      <4>1. \/ spilled' = [spilled EXCEPT ![v] = @]
            \/ spilled' = [spilled EXCEPT ![v] = @ \union {wanted[w][v]}]
        BY <1>6 DEF Count
      <4>2. [spilled EXCEPT ![v] = @] = spilled
        BY <1>0 DEF Table
      <4> QED BY <4>1, <4>2
    <3> QED BY <3>1, <1>0, <1>f, <1>g
  <2>4. count' \in Counter
    <3>1. /\ count[v] \in [Name -> [Result -> Nat]]
          /\ count[v][label[w]] \in [Result -> Nat]
      BY <1>0, <1>e DEF Counter
    <3>2. Inc(count[v][label[w]], result[w]) \in [Result -> Nat]
      BY <3>1, <1>e, IncType
    <3>3. count' = [count EXCEPT ![v] =
             [count[v] EXCEPT ![label[w]] = Inc(count[v][label[w]], result[w])]]
      BY <1>6 DEF Count, IncWith
    <3>4. [count[v] EXCEPT ![label[w]] = Inc(count[v][label[w]], result[w])]
            \in [Name -> [Result -> Nat]]
      BY <3>1, <3>2
    <3> QED BY <3>3, <3>4, <1>0 DEF Counter
  <2>5. wanted' \in Wanted /\ result' \in [Worker -> Result]
    <3>1. CASE v = "site"
      BY <1>6, <3>1, <1>0 DEF Count, Leave, local
    <3>2. CASE v # "site"
      <4>1. /\ wanted' = [wanted EXCEPT ![w] = Nothing]
            /\ result' = [result EXCEPT ![w] = "matched"]
        BY <1>6, <3>2 DEF Count, Leave
      <4>2. Nothing \in [site : Name, upstream : Name] /\ "matched" \in Result
        BY NameType DEF Nothing, Result
      <4> QED BY <4>1, <4>2, <1>0 DEF Wanted
    <3> QED BY <3>1, <3>2
  <2> QED BY <1>6, <2>1, <2>2, <2>3, <2>4, <2>5, <1>0, <1>9 DEF Count
<1> QED BY <1>1, <1>2, <1>3, <1>4, <1>5, <1>6 DEF Step

\* TypeOK: one worker at a time has the mutex, and every label is a name.
THEOREM TypeCorrect == Spec => []TypeOK
<1>1. Init => TypeOK
  BY InitInv DEF IInv
<1>2. TypeOK /\ [Next]_vars => TypeOK'
  <2> SUFFICES ASSUME TypeOK, [Next]_vars PROVE TypeOK'
    OBVIOUS
  <2>1. CASE UNCHANGED vars
    BY <2>1 DEF TypeOK, vars, local
  <2>2. CASE \E w \in Worker : Begin(w) \/ Step(w)
    BY <2>2, StepType
  <2> QED BY <2>1, <2>2 DEF Next, Over
<1> QED BY <1>1, <1>2, PTL DEF Spec

-------------------------------------------------------------------------------
(* The tables. *)

LEMMA StepFrame ==
  ASSUME TypeOK, NEW w \in Worker, Begin(w) \/ Step(w)
  PROVE  OthersStay(w)
<1>0. /\ pc \in [Worker -> Point \X Vec] /\ label \in [Worker -> Name]
      /\ wanted \in [Worker -> [site : Name, upstream : Name]]
      /\ result \in [Worker -> Result]
  BY DEF TypeOK
<1>1. CASE Begin(w)
  BY <1>1, <1>0 DEF OthersStay, Begin, Goes
<1>2. CASE Request(w)
  BY <1>2, <1>0 DEF OthersStay, Request, Goes, local
<1>3. ASSUME NEW v \in Vec, Lock(w, v) \/ Grant(w, v) \/ Admit(w, v) \/ Add(w, v)
      PROVE  OthersStay(w)
  BY <1>3, <1>0 DEF OthersStay, Lock, Grant, Admit, Add, Goes, local
<1>4. ASSUME NEW v \in Vec, Count(w, v) PROVE OthersStay(w)
  BY <1>4, <1>0 DEF OthersStay, Count, Leave, Goes, local
<1> QED BY <1>1, <1>2, <1>3, <1>4 DEF Step

\* Only Add touches a table.
LEMMA OnlyAdd ==
  ASSUME NEW w \in Worker, Begin(w) \/ Step(w)
  PROVE  table' = table \/ \E v \in Vec : Add(w, v)
  BY DEF Begin, Step, Request, Lock, Grant, Admit, Count

LEMMA StepTables ==
  ASSUME IInv, NEW w \in Worker, Begin(w) \/ Step(w)
  PROVE  TablesGrow /\ TableInv'
<1>0. TypeOK /\ TableInv /\ Adds(w)
  BY DEF IInv, WorkerInv
<1>1. CASE table' = table
  BY <1>1, <1>0 DEF TablesGrow, TableInv
<1>2. ASSUME NEW v \in Vec, Add(w, v) PROVE TablesGrow /\ TableInv'
  <2>1. /\ At(w, "add") /\ VecOf(w) = v
    BY <1>0, <1>2, Moves DEF Add, At, VecOf
  <2>2. ~Full(v)
    BY <1>0, <2>1 DEF Adds
  <2>3. table \in [Vec -> SUBSET Name]
    BY <1>0 DEF TypeOK
  <2>4. /\ table'[v] = table[v] \union {wanted[w][v]}
        /\ \A u \in Vec : u # v => table'[u] = table[u]
    BY <1>2, <2>3 DEF Add
  <2>5. TablesGrow
    BY <2>2, <2>4 DEF TablesGrow
  <2>6. IsFiniteSet(table[v]) /\ Cardinality(table[v]) < Limit(v)
    <3>1. IsFiniteSet(table[v]) /\ Cardinality(table[v]) \in Nat
      BY <1>0, FS_CardinalityType DEF TableInv
    <3> QED BY <3>1, <2>2, LimitType DEF Full
  <2>7. /\ IsFiniteSet(table'[v])
        /\ \/ Cardinality(table'[v]) = Cardinality(table[v])
           \/ Cardinality(table'[v]) = Cardinality(table[v]) + 1
    <3>1. /\ IsFiniteSet(table[v] \union {wanted[w][v]})
          /\ Cardinality(table[v] \union {wanted[w][v]}) =
               IF wanted[w][v] \in table[v] THEN Cardinality(table[v])
               ELSE Cardinality(table[v]) + 1
      BY <2>6, FS_AddElement
    <3> QED BY <3>1, <2>4
  <2>8. Cardinality(table'[v]) <= Limit(v)
    BY <2>6, <2>7, LimitType, FS_CardinalityType
  <2>9. \A u \in Vec : IsFiniteSet(table'[u]) /\ Cardinality(table'[u]) <= Limit(u)
    BY <2>4, <2>7, <2>8, <1>0 DEF TableInv
  <2>10. TableInv'
    BY <2>9 DEF TableInv, Limit
  <2> QED BY <2>5, <2>10
<1> QED BY <1>1, <1>2, OnlyAdd

\* What is known stays known, and what is spilled stays spilled.
LEMMA Verdicts ==
  ASSUME TablesGrow, NEW v \in Vec
  PROVE  \A n : /\ Known(v, n) => Known(v, n)'
                /\ Spilled(v, n) => Spilled(v, n)'
  BY DEF TablesGrow, Known, Spilled, Full, Reserved, Limit

-------------------------------------------------------------------------------
(* The workers. *)

\* A step of one worker leaves the others' part of the invariant alone.
LEMMA OthersKeep ==
  ASSUME IInv, NEW w \in Worker, Begin(w) \/ Step(w), TablesGrow, NEW x \in Worker \ {w}
  PROVE  Asks(x)' /\ Adds(x)' /\ Counts(x)'
<1>0. /\ TypeOK /\ Asks(x) /\ Adds(x) /\ Counts(x)
      /\ pc'[x] = pc[x] /\ wanted'[x] = wanted[x] /\ label'[x] = label[x]
      /\ VecOf(x) \in Vec
  BY StepFrame, PcType DEF IInv, WorkerInv, OthersStay
<1>1. Asks(x)'
  BY <1>0 DEF Asks, At, Asked
<1>2. Adds(x)'
  <2> SUFFICES ASSUME At(x, "add")
               PROVE  (~Full(VecOf(x)) /\ ~Known(VecOf(x), wanted[x][VecOf(x)]))'
    BY <1>0 DEF Adds, At
  <2>1. ~Full(VecOf(x)) /\ ~Known(VecOf(x), wanted[x][VecOf(x)])
    BY <1>0 DEF Adds
  <2>2. table' = table
    <3>1. mutex = x
      BY <1>0 DEF TypeOK, At
    <3>2. \A v \in Vec : ~Add(w, v)
      <4> SUFFICES ASSUME NEW v \in Vec, Add(w, v) PROVE FALSE
        OBVIOUS
      <4>1. pc[w][1] = "add"
        BY <1>0, Moves DEF Add
      <4>2. mutex = w
        BY <4>1, <1>0 DEF TypeOK
      <4> QED BY <4>2, <3>1
    <3> QED BY <3>2, OnlyAdd
  <2> QED BY <2>1, <2>2, <1>0 DEF Full, Known, VecOf, Limit, Reserved
<1>3. Counts(x)'
  <2> SUFFICES ASSUME At(x, "count")
               PROVE  \/ /\ label'[x] = wanted[x][VecOf(x)]
                         /\ Known(VecOf(x), wanted[x][VecOf(x)])'
                      \/ label'[x] = Other /\ Spilled(VecOf(x), wanted[x][VecOf(x)])'
    BY <1>0 DEF Counts, At, VecOf
  <2>1. \/ label[x] = wanted[x][VecOf(x)] /\ Known(VecOf(x), wanted[x][VecOf(x)])
        \/ label[x] = Other /\ Spilled(VecOf(x), wanted[x][VecOf(x)])
    BY <1>0 DEF Counts
  <2> DEFINE v == VecOf(x)
             n == wanted[x][v]
  <2>2. v' = v /\ n' = n
    BY <1>0 DEF VecOf
  <2>3. /\ Known(v, n) => Known(v, n)'
        /\ Spilled(v, n) => Spilled(v, n)'
    <3> DEFINE Has(u, m) == m \in Reserved(u) \/ m \in table'[u]
               Closed(u, m) == ~Has(u, m) /\ Cardinality(table'[u]) >= Limit(u)
    <3>1. \A u \in Vec : \A m : /\ Known(u, m) => Has(u, m)
                                /\ Spilled(u, m) => Closed(u, m)
      BY Verdicts DEF Known, Spilled, Full, Reserved, Limit
    <3>2. (Has(v, n) => Known(v, n)') /\ (Closed(v, n) => Spilled(v, n)')
      BY <2>2 DEF Known, Spilled, Full, Reserved, Limit
    <3> HIDE DEF Has, Closed
    <3> QED BY <3>1, <3>2, <1>0
  <2> QED BY <2>1, <2>3, <1>0
<1> QED BY <1>1, <1>2, <1>3

\* A worker that has not gone to the table has no verdict of it.
LEMMA OwnBegin ==
  ASSUME TypeOK, NEW w \in Worker, Begin(w)
  PROVE  Asks(w)' /\ Adds(w)' /\ Counts(w)'
<1>1. pc'[w][1] = "request"
  BY Moves DEF Begin
<1>2. PICK s \in Asked("site"), u \in Asked("upstream") :
        wanted' = [wanted EXCEPT ![w] = [site |-> s, upstream |-> u]]
  BY DEF Begin
<1>3. wanted \in [Worker -> [site : Name, upstream : Name]]
  BY DEF TypeOK
<1>4. wanted'[w] = [site |-> s, upstream |-> u]
  BY <1>2, <1>3
<1>5. wanted'[w]["site"] = s /\ wanted'[w]["upstream"] = u
  BY <1>4
<1>6. Asks(w)'
  BY <1>5 DEF Asks, Asked
<1> QED BY <1>1, <1>6 DEF Adds, Counts, At

\* Where its request asks for the same, a worker needs only its new verdict.
LEMMA OwnAsks ==
  ASSUME TypeOK, NEW w \in Worker, Asks(w), pc[w][1] # "idle", wanted' = wanted
  PROVE  Asks(w)'
  BY DEF Asks, At, Asked

LEMMA OwnTable ==
  ASSUME IInv, TypeOK', NEW w \in Worker, TablesGrow, NEW v \in Vec,
         Lock(w, v) \/ Grant(w, v) \/ Admit(w, v) \/ Add(w, v)
  PROVE  Asks(w)' /\ Adds(w)' /\ Counts(w)'
<1>0. TypeOK /\ Asks(w) /\ Adds(w)
  BY DEF IInv, WorkerInv
<1>t. label \in [Worker -> Name] /\ table \in [Vec -> SUBSET Name]
  BY <1>0 DEF TypeOK
<1>a. pc[w][1] \in {"lock", "look", "add"} /\ wanted' = wanted
  BY <1>0, Moves DEF Lock, Grant, Admit, Add, local
<1>b. Asks(w)'
  BY <1>0, <1>a, OwnAsks
<1>1. CASE Lock(w, v)
  <2>1. pc'[w][1] = "look"
    BY <1>0, <1>1, Moves DEF Lock
  <2> QED BY <2>1, <1>b DEF Adds, Counts, At
<1>2. CASE Grant(w, v)
  <2>1. pc'[w][1] = "count" /\ VecOf(w)' = v /\ table' = table
    BY <1>0, <1>2, Moves DEF Grant, VecOf
  <2>2. Full(v) \/ Known(v, wanted[w][v])
    BY <1>2 DEF Grant
  <2>3. label'[w] = IF Known(v, wanted[w][v]) THEN wanted[w][v] ELSE Other
    BY <1>2, <1>t DEF Grant
  <2>4. \/ label'[w] = wanted[w][v] /\ Known(v, wanted[w][v])
        \/ label'[w] = Other /\ Spilled(v, wanted[w][v])
    BY <2>2, <2>3 DEF Spilled
  <2>5. Counts(w)'
    BY <2>1, <2>4, <1>a DEF Counts, Known, Spilled, Full, Reserved, Limit
  <2> QED BY <2>1, <2>5, <1>b DEF Adds, At
<1>3. CASE Admit(w, v)
  <2>1. pc'[w][1] = "add" /\ VecOf(w)' = v /\ table' = table
    BY <1>0, <1>3, Moves DEF Admit, VecOf
  <2>2. ~Full(v) /\ ~Known(v, wanted[w][v])
    BY <1>3 DEF Admit
  <2>3. Adds(w)'
    BY <2>1, <2>2, <1>a DEF Adds, Known, Full, Reserved, Limit
  <2> QED BY <2>1, <2>3, <1>b DEF Counts, At
<1>4. CASE Add(w, v)
  <2>1. pc'[w][1] = "count" /\ VecOf(w)' = v
    BY <1>0, <1>4, Moves DEF Add, VecOf
  <2>2. label'[w] = wanted[w][v] /\ wanted[w][v] \in table'[v]
    BY <1>4, <1>t DEF Add
  <2>3. Counts(w)'
    BY <2>1, <2>2, <1>a DEF Counts, Known
  <2> QED BY <2>1, <2>3, <1>b DEF Adds, At
<1> QED BY <1>1, <1>2, <1>3, <1>4

LEMMA OwnKeeps ==
  ASSUME IInv, TypeOK', NEW w \in Worker, Begin(w) \/ Step(w), TablesGrow
  PROVE  Asks(w)' /\ Adds(w)' /\ Counts(w)'
<1>0. TypeOK /\ Asks(w)
  BY DEF IInv, WorkerInv
<1>1. CASE Request(w)
  <2>1. pc[w][1] = "request" /\ pc'[w][1] = "lock" /\ wanted' = wanted
    BY <1>0, <1>1, Moves DEF Request, local
  <2>2. Asks(w)'
    BY <1>0, <2>1, OwnAsks
  <2> QED BY <2>1, <2>2 DEF Adds, Counts, At
<1>2. ASSUME NEW v \in Vec, Count(w, v) PROVE Asks(w)' /\ Adds(w)' /\ Counts(w)'
  <2>1. CASE v = "site"
    <3>1. pc[w][1] = "count" /\ pc'[w][1] = "lock" /\ wanted' = wanted
      BY <1>0, <1>2, <2>1, Moves DEF Count, Leave, local
    <3>2. Asks(w)'
      BY <1>0, <3>1, OwnAsks
    <3> QED BY <3>1, <3>2 DEF Adds, Counts, At
  <2>2. CASE v # "site"
    <3>1. pc'[w][1] = "idle"
      BY <1>0, <1>2, <2>2, Moves DEF Count
    <3> QED BY <3>1 DEF Asks, Adds, Counts, At
  <2> QED BY <2>1, <2>2
<1> QED BY <1>0, <1>1, <1>2, OwnBegin, OwnTable DEF Step

-------------------------------------------------------------------------------
(* The counters. *)

\* Other is a name that a table never knows, unless it is reserved.
LEMMA OtherIsNobody ==
  ASSUME NEW w \in Worker, NEW v \in Vec, Asks(w), ~At(w, "idle"),
         wanted[w][v] = Other
  PROVE  Other \in Reserved(v)
<1>1. CASE v = "site"
  BY <1>1 DEF Reserved
<1>2. CASE v = "upstream"
  BY <1>2, Labels DEF Asks, Asked
<1> QED BY <1>1, <1>2 DEF Vec

LEMMA StepSpill ==
  ASSUME IInv, NEW w \in Worker, Begin(w) \/ Step(w), TablesGrow
  PROVE  SpillInv'
<1>0. TypeOK /\ SpillInv /\ Asks(w) /\ Counts(w)
  BY DEF IInv, WorkerInv
<1>1. CASE spilled' = spilled
  BY <1>0, <1>1, Verdicts DEF SpillInv, Reserved
<1>2. ASSUME NEW v \in Vec, Count(w, v) PROVE SpillInv'
  <2>1. At(w, "count") /\ VecOf(w) = v
    <3>1. Goes(w, <<"count", v>>, <<"lock", "upstream">>)
          \/ Goes(w, <<"count", v>>, <<"idle", "site">>)
      BY <1>2 DEF Count
    <3> QED BY <3>1, <1>0, Moves DEF At, VecOf
  <2>2. /\ \/ spilled'[v] = spilled[v]
           \/ spilled'[v] = spilled[v] \union {wanted[w][v]} /\ label[w] = Other
        /\ \A u \in Vec : u # v => spilled'[u] = spilled[u]
    <3>1. spilled \in [Vec -> SUBSET Name]
      BY <1>0 DEF TypeOK
    <3> QED BY <3>1, <1>2 DEF Count
  <2>3. label[w] = Other => Spilled(v, wanted[w][v]) \/ wanted[w][v] \in Reserved(v)
    <3>1. \/ label[w] = wanted[w][v]
          \/ label[w] = Other /\ Spilled(v, wanted[w][v])
      BY <1>0, <2>1 DEF Counts
    <3>2. ~At(w, "idle")
      BY <2>1 DEF At
    <3> QED BY <3>1, <3>2, <1>0, OtherIsNobody
  <2>4. \A u \in Vec : \A n \in spilled'[u] \ Reserved(u) : Spilled(u, n)
    BY <2>2, <2>3, <1>0 DEF SpillInv
  <2> QED BY <2>4, Verdicts DEF SpillInv, Reserved
<1>3. spilled' = spilled \/ \E v \in Vec : Count(w, v)
  BY DEF Begin, Step, Request, Lock, Grant, Admit, Add
<1> QED BY <1>1, <1>2, <1>3

LEMMA StepLabels ==
  ASSUME IInv, NEW w \in Worker, Begin(w) \/ Step(w), TablesGrow
  PROVE  LabelInv'
<1>0. TypeOK /\ LabelInv /\ Counts(w)
  BY DEF IInv, WorkerInv
<1>1. CASE count' = count
  BY <1>0, <1>1 DEF LabelInv, TablesGrow, Reserved
<1>2. ASSUME NEW v \in Vec, Count(w, v) PROVE LabelInv'
  <2>1. At(w, "count") /\ VecOf(w) = v
    <3>1. Goes(w, <<"count", v>>, <<"lock", "upstream">>)
          \/ Goes(w, <<"count", v>>, <<"idle", "site">>)
      BY <1>2 DEF Count
    <3> QED BY <3>1, <1>0, Moves DEF At, VecOf
  <2>2. table' = table
    BY <1>2 DEF Count
  <2>3. label[w] = Other \/ Known(v, label[w])
    BY <1>0, <2>1 DEF Counts
  <2>4. \A u \in Vec : \A n \in Name :
          u # v \/ n # label[w] => count'[u][n] = count[u][n]
    <3>1. count \in [Vec -> [Name -> [Result -> Nat]]]
      BY <1>0 DEF TypeOK
    <3>2. count' = [count EXCEPT ![v] = IncWith(@, label[w], result[w])]
      BY <1>2 DEF Count
    <3>3. /\ count'[v] = [count[v] EXCEPT ![label[w]] = Inc(@, result[w])]
          /\ \A u \in Vec : u # v => count'[u] = count[u]
      BY <3>1, <3>2 DEF IncWith
    <3>4. count[v] \in [Name -> [Result -> Nat]]
      BY <3>1
    <3> QED BY <3>3, <3>4
  <2> SUFFICES ASSUME NEW u \in Vec, NEW n \in Name \ Reserved(u), NEW r \in Result,
                      count'[u][n][r] > 0
               PROVE  n \in table[u] \union {Other}
    BY <2>2 DEF LabelInv, Reserved
  <2>5. CASE u = v /\ n = label[w]
    BY <2>3, <2>5 DEF Known
  <2>6. CASE ~(u = v /\ n = label[w])
    BY <2>4, <2>6, <1>0 DEF LabelInv
  <2> QED BY <2>5, <2>6
<1>3. count' = count \/ \E v \in Vec : Count(w, v)
  BY DEF Begin, Step, Request, Lock, Grant, Admit, Add
<1> QED BY <1>1, <1>2, <1>3

-------------------------------------------------------------------------------

LEMMA Inductive == Spec => []IInv
<1>1. IInv /\ [Next]_vars => IInv'
  <2> SUFFICES ASSUME IInv, [Next]_vars PROVE IInv'
    OBVIOUS
  <2>1. CASE UNCHANGED vars
    <3>1. /\ TypeOK' <=> TypeOK
          /\ TableInv' <=> TableInv
          /\ SpillInv' <=> SpillInv
          /\ LabelInv' <=> LabelInv
      BY <2>1 DEF TypeOK, TableInv, SpillInv, LabelInv, Limit, Reserved,
                  Spilled, Known, Full, vars, local
    <3>2. WorkerInv' <=> WorkerInv
      BY <2>1 DEF WorkerInv, Asks, Adds, Counts, At, VecOf, Limit, Reserved,
                  Spilled, Known, Full, Asked, vars, local
    <3> QED BY <3>1, <3>2 DEF IInv
  <2>2. ASSUME NEW w \in Worker, Begin(w) \/ Step(w) PROVE IInv'
    <3>1. TypeOK' /\ TablesGrow /\ TableInv'
      BY <2>2, StepType, StepTables DEF IInv
    <3>2. WorkerInv'
      BY <2>2, <3>1, OthersKeep, OwnKeeps DEF WorkerInv
    <3> QED BY <2>2, <3>1, <3>2, StepSpill, StepLabels DEF IInv
  <2> QED BY <2>1, <2>2 DEF Next, Over
<1> QED BY <1>1, InitInv, PTL DEF Spec

\* TablesBounded: no interleaving of requests makes a table larger than its
\* limit (SiteRequest and UpstreamRequest look and add under one mutex).
THEOREM TablesStayBounded == Spec => []TablesBounded
<1>1. IInv => TablesBounded
  BY DEF IInv, TableInv, TablesBounded
<1> QED BY <1>1, Inductive, PTL

\* LabelsAreBounded: the exported labels are those of the table and the
\* reserved ones, though Inc runs after the mutex has been released.
THEOREM LabelsStayBounded == Spec => []LabelsAreBounded
<1>1. IInv => LabelsAreBounded
  BY DEF IInv, TableInv, TablesBounded, LabelInv, LabelsAreBounded
<1> QED BY <1>1, Inductive, PTL

\* NeverSplit: no name is counted as "other" and, sooner or later, by itself.
THEOREM NamesNeverSplit == Spec => []NeverSplit
<1>1. IInv => NeverSplit
  <2> SUFFICES ASSUME SpillInv PROVE NeverSplit
    BY DEF IInv
  <2> QED BY DEF SpillInv, Spilled, Known, NeverSplit
<1> QED BY <1>1, Inductive, PTL

-------------------------------------------------------------------------------
(* Sums over the names. *)

\* What Total folds with: g has the sum over each set of names.
Pick(s) == CHOOSE x \in s : TRUE
SumsTo(g, C, r) ==
    g = [s \in SUBSET Name |->
           IF s = {} THEN 0 ELSE C[Pick(s)][r] + g[s \ {Pick(s)}]]
SumAt(C, r) == (CHOOSE g : SumsTo(g, C, r))[Name]

\* The sum over a set, and over one name less.
OneByOne(g, C, r) ==
    /\ SumAt(C, r) = g[Name]
    /\ g[{}] = 0
    /\ \A s \in SUBSET Name : s # {} => g[s] = C[Pick(s)][r] + g[s \ {Pick(s)}]

Counter == [Name -> [Result -> Nat]]

LEMMA TotalIsSum ==
  ASSUME NEW v \in Vec, NEW r \in Result
  PROVE  Total(v, r) = SumAt(count[v], r) /\ Total(v, r)' = SumAt(count'[v], r)
  BY DEF Total, MapThenSumSet, MapThenFoldSet, SumAt, SumsTo, Pick

LEMMA NamesAreFinite == IsFiniteSet(Name)
<1>1. IsFiniteSet({Unknown, Other})
  <2>1. IsFiniteSet({} \union {Unknown})
    BY FS_EmptySet, FS_AddElement
  <2>2. IsFiniteSet(({} \union {Unknown}) \union {Other})
    BY <2>1, FS_AddElement
  <2>3. {Unknown, Other} = ({} \union {Unknown}) \union {Other}
    OBVIOUS
  <2> QED BY <2>2, <2>3
<1>2. IsFiniteSet(Site \union {Unknown, Other})
  BY <1>1, FS_Union, FinitelyMany
<1> QED BY <1>2, FS_Union, FinitelyMany DEF Name

\* Induction on the numbers, with a set for what is shown of them.
LEMMA AllFromZero ==
  ASSUME NEW P, 0 \in P, \A n \in Nat : n \in P => n + 1 \in P
  PROVE  Nat \subseteq P
<1> DEFINE rest == Nat \ P
<1> SUFFICES ASSUME rest # {} PROVE FALSE
  OBVIOUS
<1>1. PICK n \in rest : \A m \in rest : ~(<<m, n>> \in OpToRel(<, Nat))
  <2>1. IsWellFoundedOn(OpToRel(<, Nat), Nat)
    BY NatLessThanWellFounded
  <2>2. rest \subseteq Nat
    OBVIOUS
  <2> HIDE DEF rest
  <2> QED BY <2>1, <2>2, WFMin
<1>2. n \in Nat /\ n # 0
  OBVIOUS
<1>3. n - 1 \in Nat /\ n - 1 < n /\ (n - 1) + 1 = n
  BY <1>2
<1>4. n - 1 \notin rest
  BY <1>1, <1>2, <1>3 DEF OpToRel
<1> QED BY <1>3, <1>4

\* The fold takes the names of a set one by one.
LEMMA OneLess ==
  ASSUME NEW s \in SUBSET Name, s # {}
  PROVE  /\ Pick(s) \in s /\ s \ {Pick(s)} \in SUBSET Name
         /\ Cardinality(s) \in Nat \ {0}
         /\ Cardinality(s \ {Pick(s)}) = Cardinality(s) - 1
<1>1. Pick(s) \in s
  BY DEF Pick
<1>2. IsFiniteSet(s)
  BY NamesAreFinite, FS_Subset
<1>3. Cardinality(s) \in Nat /\ Cardinality(s) # 0
  BY <1>2, FS_CardinalityType, FS_EmptySet
<1>4. Cardinality(s \ {Pick(s)}) = Cardinality(s) - 1
  BY <1>1, <1>2, FS_RemoveElement
<1> QED BY <1>1, <1>3, <1>4

\* Induction on the sets of names.
LEMMA AllSetsOfNames ==
  ASSUME NEW P, {} \in P,
         \A s \in SUBSET Name : s # {} /\ s \ {Pick(s)} \in P => s \in P
  PROVE  SUBSET Name \subseteq P
<1> DEFINE Q == {k \in Nat : \A s \in SUBSET Name : Cardinality(s) = k => s \in P}
<1>0. \A s \in SUBSET Name : Cardinality(s) \in Nat
  BY NamesAreFinite, FS_Subset, FS_CardinalityType
<1>1. 0 \in Q
  <2>1. ASSUME NEW s \in SUBSET Name, Cardinality(s) = 0 PROVE s \in P
    <3>1. s = {}
      BY <2>1, OneLess
    <3> QED BY <3>1
  <2> QED BY <2>1
<1>2. ASSUME NEW k \in Nat, k \in Q PROVE k + 1 \in Q
  <2>1. ASSUME NEW s \in SUBSET Name, Cardinality(s) = k + 1 PROVE s \in P
    <3>1. s # {}
      <4>1. Cardinality({}) = 0 /\ k + 1 # 0
        BY FS_EmptySet
      <4> QED BY <2>1, <4>1
    <3>2. s \ {Pick(s)} \in SUBSET Name /\ Cardinality(s \ {Pick(s)}) = k
      BY <2>1, <3>1, OneLess
    <3> QED BY <1>2, <3>1, <3>2
  <2> QED BY <2>1
<1> HIDE DEF Q
<1>3. Nat \subseteq Q
  BY <1>1, <1>2, AllFromZero
<1> QED BY <1>0, <1>3 DEF Q

\* There is such a g: it is found for larger and larger sets.
LEMMA SumsExist ==
  ASSUME NEW C, NEW r
  PROVE  \E g : SumsTo(g, C, r)
<1> DEFINE Sub(n) == {s \in SUBSET Name : Cardinality(s) <= n}
           Upto(n, g) == g = [s \in Sub(n) |->
                IF s = {} THEN 0 ELSE C[Pick(s)][r] + g[s \ {Pick(s)}]]
           P == {n \in Nat : \E g : Upto(n, g)}
<1>0. Cardinality({}) = 0 /\ \A s \in SUBSET Name : Cardinality(s) \in Nat
  BY NamesAreFinite, FS_Subset, FS_CardinalityType, FS_EmptySet
<1>1. 0 \in P
  <2>1. \A s \in Sub(0) : s = {}
    <3> SUFFICES ASSUME NEW s \in SUBSET Name, Cardinality(s) <= 0, s # {} PROVE FALSE
      OBVIOUS
    <3>1. Cardinality(s) \in Nat \ {0}
      BY OneLess
    <3> QED BY <3>1
  <2>2. Upto(0, [s \in Sub(0) |-> 0])
    <3> HIDE DEF Sub
    <3> QED BY <2>1
  <2> HIDE DEF Upto
  <2> QED BY <2>2
<1>2. ASSUME NEW n \in Nat, n \in P PROVE n + 1 \in P
  <2>1. PICK g : Upto(n, g)
    BY <1>2
  <2> DEFINE h == [s \in Sub(n + 1) |->
                    IF s \in Sub(n) THEN g[s] ELSE C[Pick(s)][r] + g[s \ {Pick(s)}]]
  <2>2. ASSUME NEW s \in Sub(n + 1)
        PROVE  h[s] = IF s = {} THEN 0 ELSE C[Pick(s)][r] + h[s \ {Pick(s)}]
    <3>1. \A t \in Sub(n) : g[t] = IF t = {} THEN 0 ELSE C[Pick(t)][r] + g[t \ {Pick(t)}]
      <4> HIDE DEF Sub
      <4> QED BY <2>1
    <3>2. CASE s = {}
      <4>1. s \in Sub(n)
        BY <1>0, <3>2
      <4> HIDE DEF Sub
      <4> QED BY <3>1, <3>2, <4>1
    <3>3. CASE s # {}
      <4>1. s \ {Pick(s)} \in Sub(n) /\ s \ {Pick(s)} \in Sub(n + 1)
        <5>1. s \in SUBSET Name /\ Cardinality(s) <= n + 1
          OBVIOUS
        <5>2. /\ s \ {Pick(s)} \in SUBSET Name /\ Cardinality(s) \in Nat
              /\ Cardinality(s \ {Pick(s)}) = Cardinality(s) - 1
          BY <3>3, <5>1, OneLess
        <5>3. Cardinality(s \ {Pick(s)}) <= n /\ Cardinality(s \ {Pick(s)}) <= n + 1
          BY <5>1, <5>2
        <5> QED BY <5>2, <5>3
      <4> HIDE DEF Sub
      <4>2. h[s \ {Pick(s)}] = g[s \ {Pick(s)}]
        BY <4>1
      <4>3. h[s] = C[Pick(s)][r] + g[s \ {Pick(s)}]
        BY <3>1, <3>3
      <4> HIDE DEF h
      <4> QED BY <3>3, <4>2, <4>3
    <3> QED BY <3>2, <3>3
  <2>3. h = [s \in Sub(n + 1) |-> h[s]]
    OBVIOUS
  <2>4. Upto(n + 1, h)
    <3> HIDE DEF h, Sub
    <3> QED BY <2>2, <2>3
  <2> HIDE DEF Upto
  <2> QED BY <2>4
<1> HIDE DEF P
<1>3. Nat \subseteq P
  BY <1>1, <1>2, AllFromZero
<1>4. Cardinality(Name) \in Nat
  BY NamesAreFinite, FS_CardinalityType
<1>5. Sub(Cardinality(Name)) = SUBSET Name
  BY NamesAreFinite, FS_Subset
<1>6. PICK g : Upto(Cardinality(Name), g)
  BY <1>3, <1>4 DEF P
<1> HIDE DEF Sub
<1> QED BY <1>5, <1>6 DEF SumsTo

LEMMA SumSteps ==
  ASSUME NEW C, NEW r
  PROVE  \E g : OneByOne(g, C, r)
<1> DEFINE g == CHOOSE g : SumsTo(g, C, r)
<1>1. SumsTo(g, C, r)
  BY SumsExist
<1>2. SumAt(C, r) = g[Name]
  BY DEF SumAt
<1> HIDE DEF g
<1>3. g[{}] = 0
  BY <1>1 DEF SumsTo
<1>4. \A s \in SUBSET Name : s # {} => g[s] = C[Pick(s)][r] + g[s \ {Pick(s)}]
  BY <1>1 DEF SumsTo
<1> QED BY <1>2, <1>3, <1>4 DEF OneByOne

\* Where nothing was counted the sum is zero.
LEMMA SumOfNothing ==
  ASSUME NEW C, NEW r, \A n \in Name : C[n][r] = 0
  PROVE  SumAt(C, r) = 0
<1>1. PICK g : OneByOne(g, C, r)
  BY SumSteps
<1> DEFINE P == {s \in SUBSET Name : g[s] = 0}
<1>2. {} \in P
  BY <1>1 DEF OneByOne
<1>3. ASSUME NEW s \in SUBSET Name, s # {}, s \ {Pick(s)} \in P PROVE s \in P
  BY <1>1, <1>3, OneLess DEF OneByOne
<1> HIDE DEF P
<1>4. SUBSET Name \subseteq P
  BY <1>2, <1>3, AllSetsOfNames
<1> QED BY <1>1, <1>4 DEF P, OneByOne

\* One name counted d times more: the sum is larger by d, in whatever order
\* the names are taken.
LEMMA SumGrows ==
  ASSUME NEW C \in Counter, NEW D, NEW r \in Result, NEW d \in Nat, NEW m \in Name,
         D[m][r] = C[m][r] + d, \A n \in Name \ {m} : D[n][r] = C[n][r]
  PROVE  SumAt(C, r) \in Nat /\ SumAt(D, r) = SumAt(C, r) + d
<1>0. \A n \in Name : C[n][r] \in Nat
  BY DEF Counter
<1>1. PICK g : OneByOne(g, C, r)
  BY SumSteps
<1>2. PICK h : OneByOne(h, D, r)
  BY SumSteps
<1> DEFINE P == {s \in SUBSET Name : /\ g[s] \in Nat
                                     /\ m \in s => h[s] = g[s] + d
                                     /\ m \notin s => h[s] = g[s]}
<1>3. {} \in P
  BY <1>1, <1>2 DEF OneByOne
<1>4. ASSUME NEW s \in SUBSET Name, s # {}, s \ {Pick(s)} \in P PROVE s \in P
  <2> DEFINE x == Pick(s)
             t == s \ {x}
  <2>1. x \in s /\ x \in Name /\ t \in SUBSET Name
    BY <1>4, OneLess
  <2>2. g[s] = C[x][r] + g[t] /\ h[s] = D[x][r] + h[t]
    BY <1>1, <1>2, <1>4 DEF OneByOne
  <2>3. /\ g[t] \in Nat /\ C[x][r] \in Nat
        /\ m \in t => h[t] = g[t] + d
        /\ m \notin t => h[t] = g[t]
    BY <1>0, <1>4, <2>1
  <2>4. CASE x = m
    <3>1. m \in s /\ m \notin t /\ D[x][r] = C[x][r] + d
      BY <2>1, <2>4
    <3> HIDE DEF x, t
    <3> QED BY <2>2, <2>3, <3>1
  <2>5. CASE x # m
    <3>1. (m \in s <=> m \in t) /\ D[x][r] = C[x][r]
      BY <2>1, <2>5
    <3> HIDE DEF x, t
    <3> QED BY <2>2, <2>3, <3>1
  <2> QED BY <2>4, <2>5
<1> HIDE DEF P
<1>5. SUBSET Name \subseteq P
  BY <1>3, <1>4, AllSetsOfNames
<1> QED BY <1>1, <1>2, <1>5 DEF P, OneByOne

\* A total is a number.
LEMMA TotalIsType ==
  ASSUME count \in [Vec -> Counter], NEW v \in Vec, NEW r \in Result
  PROVE  Total(v, r) \in Nat
<1>1. count[v] \in Counter
  OBVIOUS
<1>2. count[v][Other][r] \in Nat /\ Other \in Name /\ 0 \in Nat
  BY <1>1, NameType DEF Counter
<1>3. count[v][Other][r] = count[v][Other][r] + 0
  BY <1>2
<1>4. SumAt(count[v], r) \in Nat
  BY <1>1, <1>2, <1>3, SumGrows
<1> QED BY <1>4, TotalIsSum

-------------------------------------------------------------------------------
(* The counters agree. *)

\* A worker that is at the sites has a request that matched.
SitesInv ==
    \A w \in Worker :
        pc[w][1] \in {"lock", "look", "add", "count"} /\ pc[w][2] = "site"
            => SitesEnabled /\ result[w] = "matched"

CountInv == SitesInv /\ CountersAgree

\* The size of Between follows worker w, the only one that moves.
LEMMA BetweenFollows ==
  ASSUME NEW w \in Worker, OthersStay(w), NEW v \in Vec, NEW r \in Result
  PROVE  /\ Cardinality(Between(v, r)) \in Nat
         /\ (w \in Between(v, r) <=> w \in Between(v, r)')
               => Cardinality(Between(v, r)') = Cardinality(Between(v, r))
         /\ w \notin Between(v, r) /\ w \in Between(v, r)'
               => Cardinality(Between(v, r)') = Cardinality(Between(v, r)) + 1
         /\ w \in Between(v, r) /\ w \notin Between(v, r)'
               => Cardinality(Between(v, r)') = Cardinality(Between(v, r)) - 1
<1> DEFINE B == Between(v, r)
           A == Between(v, r)'
<1>1. IsFiniteSet(B) /\ B \subseteq Worker
  BY FinitelyMany, FS_Subset DEF Between
<1>2. A \subseteq Worker /\ \A x \in Worker \ {w} : x \in B <=> x \in A
  BY DEF Between, OthersStay
<1> HIDE DEF A, B
<1>3. Cardinality(B) \in Nat
  BY <1>1, FS_CardinalityType
<1>4. (w \in B <=> w \in A) => Cardinality(A) = Cardinality(B)
  <2> SUFFICES ASSUME w \in B <=> w \in A PROVE A = B
    OBVIOUS
  <2> QED BY <1>1, <1>2
<1>5. w \notin B /\ w \in A => Cardinality(A) = Cardinality(B) + 1
  <2> SUFFICES ASSUME w \notin B, w \in A PROVE Cardinality(A) = Cardinality(B) + 1
    OBVIOUS
  <2>1. A = B \union {w}
    BY <1>1, <1>2
  <2> QED BY <1>1, <2>1, FS_AddElement
<1>6. w \in B /\ w \notin A => Cardinality(A) = Cardinality(B) - 1
  <2> SUFFICES ASSUME w \in B, w \notin A PROVE Cardinality(A) = Cardinality(B) - 1
    OBVIOUS
  <2>1. A = B \ {w}
    BY <1>1, <1>2
  <2> QED BY <1>1, <2>1, FS_RemoveElement
<1> QED BY <1>3, <1>4, <1>5, <1>6 DEF A, B

\* What CountersAgree says of one result.
Agree(r) ==
    /\ requests[r] = Total("upstream", r) + Cardinality(Between("upstream", r))
    /\ SitesEnabled /\ r = "matched"
          => Total("site", r) = requests[r] - Cardinality(Between("site", r))
    /\ ~(SitesEnabled /\ r = "matched") => Total("site", r) = 0

LEMMA AgreeOfEach == /\ CountersAgree <=> \A r \in Result : Agree(r)
                     /\ CountersAgree' <=> \A r \in Result : Agree(r)'
  BY DEF CountersAgree, Agree

LEMMA CountStart == Init => CountInv
<1> SUFFICES ASSUME Init PROVE CountInv
  OBVIOUS
<1>1. SitesInv
  BY DEF Init, SitesInv
<1>2. ASSUME NEW r \in Result PROVE Agree(r)
  <2>1. ASSUME NEW v \in Vec PROVE Total(v, r) = 0 /\ Cardinality(Between(v, r)) = 0
    <3>1. \A n \in Name : count[v][n][r] = 0
      BY DEF Init
    <3>2. Between(v, r) = {}
      BY DEF Init, Between
    <3> QED BY <3>1, <3>2, TotalIsSum, SumOfNothing, FS_EmptySet
  <2>2. requests[r] = 0
    BY DEF Init
  <2> QED BY <2>1, <2>2, NameType DEF Agree
<1> QED BY <1>1, <1>2, AgreeOfEach DEF CountInv

\* A step that counts nothing and moves no request from or to a counter.
LEMMA AgreeStays ==
  ASSUME CountersAgree, NEW w \in Worker, OthersStay(w),
         requests' = requests, count' = count,
         \A v \in Vec : \A r \in Result : w \in Between(v, r) <=> w \in Between(v, r)'
  PROVE  CountersAgree'
<1> SUFFICES ASSUME NEW r \in Result PROVE Agree(r)'
  BY AgreeOfEach
<1>1. ASSUME NEW v \in Vec
      PROVE  /\ Total(v, r)' = Total(v, r)
             /\ Cardinality(Between(v, r)') = Cardinality(Between(v, r))
  BY TotalIsSum, BetweenFollows
<1>2. Agree(r)
  BY AgreeOfEach
<1> QED BY <1>1, <1>2, NameType DEF Agree

\* Begin: the request is in no counter yet.
LEMMA BeginAgrees ==
  ASSUME TypeOK, CountInv, NEW w \in Worker, Begin(w), OthersStay(w)
  PROVE  CountInv'
<1>1. pc[w][1] = "idle" /\ pc'[w][1] = "request"
  BY Moves DEF Begin
<1>2. SitesInv'
  BY <1>1 DEF CountInv, SitesInv, OthersStay
<1>3. \A v \in Vec : \A r \in Result : w \notin Between(v, r) /\ w \notin Between(v, r)'
  BY <1>1 DEF Between
<1>4. requests' = requests /\ count' = count
  BY DEF Begin
<1>5. CountersAgree'
  BY <1>3, <1>4, AgreeStays DEF CountInv
<1> QED BY <1>2, <1>5 DEF CountInv

\* Request: the request is in the first counter, and goes to the others.
LEMMA RequestAgrees ==
  ASSUME TypeOK, CountInv, NEW w \in Worker, Request(w), OthersStay(w)
  PROVE  CountInv'
<1>0. result[w] \in Result /\ requests \in [Result -> Nat] /\ count \in [Vec -> Counter]
  BY DEF TypeOK, Counter
<1>1. /\ pc[w][1] = "request" /\ pc'[w][1] = "lock"
      /\ pc'[w][2] = IF SitesEnabled /\ result[w] = "matched" THEN "site" ELSE "upstream"
      /\ result' = result /\ count' = count
  BY Moves DEF Request, local
<1>2. SitesInv'
  BY <1>1 DEF CountInv, SitesInv, OthersStay
<1>3. ASSUME NEW r \in Result PROVE Agree(r)'
  <2>1. Agree(r)
    BY AgreeOfEach DEF CountInv
  <2>2. \A v \in Vec : /\ Total(v, r)' = Total(v, r)
                       /\ Cardinality(Between(v, r)) \in Nat
    BY <1>1, TotalIsSum, BetweenFollows
  <2>3. \A v \in Vec : w \notin Between(v, r)
    BY <1>1 DEF Between
  <2>4. requests[r] \in Nat
    BY <1>0
  <2>5. CASE r = result[w]
    <3>1. requests'[r] = requests[r] + 1
      BY <1>0, <2>5 DEF Request, Inc
    <3>2. /\ w \in Between("upstream", r)'
          /\ w \in Between("site", r)' <=> (SitesEnabled /\ r = "matched")
      BY <1>1, <2>5 DEF Between
    <3>3. /\ Cardinality(Between("upstream", r)')
                = Cardinality(Between("upstream", r)) + 1
          /\ SitesEnabled /\ r = "matched" =>
                Cardinality(Between("site", r)') = Cardinality(Between("site", r)) + 1
      BY <2>3, <3>2, BetweenFollows, NameType
    <3>4. Total("upstream", r) \in Nat
      BY <1>0, TotalIsType, NameType
    <3> QED BY <2>1, <2>2, <2>4, <3>1, <3>3, <3>4, NameType DEF Agree
  <2>6. CASE r # result[w]
    <3>1. requests'[r] = requests[r]
      BY <1>0, <2>6 DEF Request, Inc
    <3>2. \A v \in Vec : w \notin Between(v, r)'
      BY <1>1, <2>6 DEF Between
    <3>3. \A v \in Vec : Cardinality(Between(v, r)') = Cardinality(Between(v, r))
      BY <2>3, <3>2, BetweenFollows
    <3> QED BY <2>1, <2>2, <3>1, <3>3, NameType DEF Agree
  <2> QED BY <2>5, <2>6
<1> QED BY <1>2, <1>3, AgreeOfEach DEF CountInv

\* The table is asked: the request stays between the counters.
LEMMA TableAgrees ==
  ASSUME TypeOK, CountInv, NEW w \in Worker, NEW v \in Vec,
         Lock(w, v) \/ Grant(w, v) \/ Admit(w, v) \/ Add(w, v), OthersStay(w)
  PROVE  CountInv'
<1>1. /\ pc[w][1] \in {"lock", "look", "add"} /\ pc[w][2] = v
      /\ pc'[w][1] \in {"look", "add", "count"} /\ pc'[w][2] = v
      /\ result' = result /\ requests' = requests /\ count' = count
  BY Moves DEF Lock, Grant, Admit, Add, local
<1>2. SitesInv'
  BY <1>1 DEF CountInv, SitesInv, OthersStay
<1>3. \A u \in Vec : \A r \in Result : w \in Between(u, r) <=> w \in Between(u, r)'
  BY <1>1 DEF Between
<1>4. CountersAgree'
  BY <1>1, <1>3, AgreeStays DEF CountInv
<1> QED BY <1>2, <1>4 DEF CountInv

\* Count: one name of one counter has one request more.
LEMMA CountAdds ==
  ASSUME TypeOK, NEW w \in Worker, NEW v \in Vec, Count(w, v)
  PROVE  /\ \A u \in Vec : \A r \in Result :
               Total(u, r) \in Nat /\ (u # v \/ r # result[w] => Total(u, r)' = Total(u, r))
         /\ \A r \in Result : r = result[w] => Total(v, r)' = Total(v, r) + 1
<1>0. /\ count \in [Vec -> Counter] /\ label[w] \in Name /\ result[w] \in Result
      /\ count[v] \in Counter /\ count[v][label[w]] \in [Result -> Nat]
  BY DEF TypeOK, Counter
<1>1. count' = [count EXCEPT ![v] =
         [count[v] EXCEPT ![label[w]] = Inc(count[v][label[w]], result[w])]]
  BY DEF Count, IncWith
<1>2. /\ \A u \in Vec \ {v} : count'[u] = count[u]
      /\ count'[v] = [count[v] EXCEPT ![label[w]] = Inc(count[v][label[w]], result[w])]
  BY <1>0, <1>1
<1>3. /\ \A n \in Name \ {label[w]} : count'[v][n] = count[v][n]
      /\ count'[v][label[w]] = Inc(count[v][label[w]], result[w])
  BY <1>0, <1>2 DEF Counter
<1>4. /\ count'[v][label[w]][result[w]] = count[v][label[w]][result[w]] + 1
      /\ \A r \in Result \ {result[w]} :
            /\ count'[v][label[w]][r] = count[v][label[w]][r] + 0
            /\ count[v][label[w]][r] \in Nat
  BY <1>0, <1>3 DEF Inc
<1>5. ASSUME NEW u \in Vec, NEW r \in Result
      PROVE  /\ Total(u, r) \in Nat
             /\ u # v \/ r # result[w] => Total(u, r)' = Total(u, r)
  <2>1. Total(u, r) \in Nat
    BY <1>0, TotalIsType
  <2>2. CASE u # v
    BY <1>2, <2>1, <2>2, TotalIsSum
  <2>3. CASE u = v /\ r # result[w]
    <3>1. 0 \in Nat /\ \A n \in Name \ {label[w]} : count'[v][n][r] = count[v][n][r]
      BY <1>3
    <3>2. count'[v][label[w]][r] = count[v][label[w]][r] + 0
      BY <1>4, <2>3
    <3>3. SumAt(count'[v], r) = SumAt(count[v], r) + 0
      BY <1>0, <3>1, <3>2, SumGrows
    <3> QED BY <2>1, <2>3, <3>3, TotalIsSum
  <2> QED BY <2>1, <2>2, <2>3
<1>6. ASSUME NEW r \in Result, r = result[w] PROVE Total(v, r)' = Total(v, r) + 1
  <2>1. 1 \in Nat /\ \A n \in Name \ {label[w]} :
                        count'[v][n][r] = count[v][n][r]
    BY <1>3
  <2>2. SumAt(count'[v], r) = SumAt(count[v], r) + 1
    BY <1>0, <1>4, <1>6, <2>1, SumGrows
  <2> QED BY <2>2, TotalIsSum
<1> QED BY <1>5, <1>6

\* Count: what joins a counter leaves Between.
LEMMA CountAgrees ==
  ASSUME TypeOK, CountInv, NEW w \in Worker, NEW v \in Vec, Count(w, v), OthersStay(w)
  PROVE  CountInv'
<1>0. result[w] \in Result /\ result \in [Worker -> Result] /\ requests \in [Result -> Nat]
  BY DEF TypeOK
<1>1. requests' = requests
  BY DEF Count
<1>2. pc[w][1] = "count" /\ pc[w][2] = v
  <2>1. Goes(w, <<"count", v>>, <<"lock", "upstream">>)
        \/ Goes(w, <<"count", v>>, <<"idle", "site">>)
    BY DEF Count
  <2> QED BY <2>1, Moves
<1>3. \A r \in Result : Agree(r) /\ requests[r] \in Nat
  BY <1>0, AgreeOfEach DEF CountInv
<1>4. CASE v = "site"
  <2>1. pc'[w][1] = "lock" /\ pc'[w][2] = "upstream" /\ result' = result
    BY <1>4, Moves DEF Count, Leave, local
  <2>2. SitesInv'
    BY <2>1 DEF CountInv, SitesInv, OthersStay
  <2>3. SitesEnabled /\ result[w] = "matched"
    BY <1>2, <1>4 DEF CountInv, SitesInv
  <2>4. ASSUME NEW r \in Result PROVE Agree(r)'
    <3>1. /\ Total("upstream", r)' = Total("upstream", r)
          /\ Cardinality(Between("upstream", r)') = Cardinality(Between("upstream", r))
      <4>1. w \in Between("upstream", r) <=> w \in Between("upstream", r)'
        BY <1>2, <2>1 DEF Between
      <4> QED BY <1>4, <4>1, CountAdds, BetweenFollows, NameType
    <3>2. CASE r = result[w]
      <4>1. w \in Between("site", r) /\ w \notin Between("site", r)'
        BY <1>2, <1>4, <2>1, <3>2 DEF Between
      <4>2. /\ Cardinality(Between("site", r)) \in Nat
            /\ Cardinality(Between("site", r)') = Cardinality(Between("site", r)) - 1
        BY <4>1, BetweenFollows, NameType
      <4>3. Total("site", r) \in Nat /\ Total("site", r)' = Total("site", r) + 1
        BY <1>4, <3>2, CountAdds
      <4> QED BY <1>1, <1>3, <2>3, <3>1, <3>2, <4>2, <4>3 DEF Agree
    <3>3. CASE r # result[w]
      <4>1. w \notin Between("site", r) /\ w \notin Between("site", r)'
        BY <2>1, <3>3 DEF Between
      <4>2. Cardinality(Between("site", r)') = Cardinality(Between("site", r))
        BY <4>1, BetweenFollows, NameType
      <4>3. Total("site", r)' = Total("site", r)
        BY <1>4, <3>3, CountAdds
      <4> QED BY <1>1, <1>3, <3>1, <4>2, <4>3 DEF Agree
    <3> QED BY <3>2, <3>3
  <2> QED BY <2>2, <2>4, AgreeOfEach DEF CountInv
<1>5. CASE v = "upstream"
  <2>1. pc'[w][1] = "idle"
    BY <1>5, Moves DEF Count
  <2>2. SitesInv'
    BY <2>1 DEF CountInv, SitesInv, OthersStay
  <2>3. ASSUME NEW r \in Result PROVE Agree(r)'
    <3>1. /\ Total("site", r)' = Total("site", r)
          /\ Cardinality(Between("site", r)') = Cardinality(Between("site", r))
      <4>1. w \notin Between("site", r) /\ w \notin Between("site", r)'
        BY <1>2, <1>5, <2>1 DEF Between
      <4> QED BY <1>5, <4>1, CountAdds, BetweenFollows, NameType
    <3>2. CASE r = result[w]
      <4>1. w \in Between("upstream", r) /\ w \notin Between("upstream", r)'
        BY <1>2, <2>1, <3>2 DEF Between
      <4>2. /\ Cardinality(Between("upstream", r)) \in Nat
            /\ Cardinality(Between("upstream", r)')
                  = Cardinality(Between("upstream", r)) - 1
        BY <4>1, BetweenFollows, NameType
      <4>3. Total("upstream", r) \in Nat /\ Total("upstream", r)' = Total("upstream", r) + 1
        BY <1>5, <3>2, CountAdds
      <4> QED BY <1>1, <1>3, <3>1, <4>2, <4>3 DEF Agree
    <3>3. CASE r # result[w]
      <4>1. w \notin Between("upstream", r) /\ w \notin Between("upstream", r)'
        BY <2>1, <3>3 DEF Between
      <4>2. Cardinality(Between("upstream", r)') = Cardinality(Between("upstream", r))
        BY <4>1, BetweenFollows, NameType
      <4>3. Total("upstream", r)' = Total("upstream", r)
        BY <1>5, <3>3, CountAdds
      <4> QED BY <1>1, <1>3, <3>1, <4>2, <4>3 DEF Agree
    <3> QED BY <3>2, <3>3
  <2> QED BY <2>2, <2>3, AgreeOfEach DEF CountInv
<1> QED BY <1>4, <1>5 DEF Vec

(***************************************************************************)
(* CountersAgree: a request is in each of the three counters once, except  *)
(* for those that are just being counted, however the goroutines of the    *)
(* handler interleave (Request, SiteRequest, UpstreamRequest).             *)
(***************************************************************************)
THEOREM CountersAlwaysAgree == Spec => []CountersAgree
<1>1. IInv /\ CountInv /\ [Next]_vars => CountInv'
  <2> SUFFICES ASSUME IInv, CountInv, [Next]_vars PROVE CountInv'
    OBVIOUS
  <2>0. TypeOK
    BY DEF IInv
  <2>1. CASE UNCHANGED vars
    <3>1. SitesInv'
      BY <2>1 DEF CountInv, SitesInv, vars, local
    <3>2. ASSUME NEW r \in Result PROVE Agree(r)'
      <4>1. \A v \in Vec : /\ Total(v, r)' = Total(v, r)
                           /\ Between(v, r)' = Between(v, r)
        BY <2>1, TotalIsSum DEF Between, vars, local
      <4>2. Agree(r) /\ requests' = requests
        BY <2>1, AgreeOfEach DEF CountInv, vars
      <4> QED BY <4>1, <4>2, NameType DEF Agree
    <3> QED BY <3>1, <3>2, AgreeOfEach DEF CountInv
  <2>2. ASSUME NEW w \in Worker, Begin(w) \/ Step(w) PROVE CountInv'
    <3>1. OthersStay(w)
      BY <2>0, <2>2, StepFrame
    <3> QED BY <2>0, <2>2, <3>1, BeginAgrees, RequestAgrees, TableAgrees, CountAgrees
            DEF Step
  <2> QED BY <2>1, <2>2 DEF Next, Over
<1>2. CountInv => CountersAgree
  BY DEF CountInv
<1> QED BY <1>1, <1>2, CountStart, Inductive, PTL DEF Spec

===============================================================================
