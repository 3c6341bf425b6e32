----------------------------- MODULE PkiInitProofs -----------------------------
(***************************************************************************)
(* Proofs about `sink pki init` for any set of runs in one directory.      *)
(*                                                                         *)
(* The inductive invariant says of each run which files it owns at each of *)
(* its points.  It is kept by the run's own steps because each of them     *)
(* touches one file, and by the steps of others because O_EXCL gives a run *)
(* only files that nobody has.                                             *)
(***************************************************************************)
EXTENDS PkiInit, TLAPS

\* What run r owns, and has written, where it is.
Owns(r) ==
    /\ pc[r] \in {"open", "write", "close", "discard"} =>
          \A f \in File : f < at[r] => Mine(r, f) /\ disk[f].written
    /\ pc[r] \in {"write", "close", "discard"} => Mine(r, at[r])
    /\ pc[r] = "close" => disk[at[r]].written
    /\ pc[r] = "undo" =>
          /\ back[r] <= at[r]
          /\ \A f \in File : back[r] <= f /\ f < at[r] => Mine(r, f)
    /\ pc[r] \in {"report", "unreported", "done"} =>
          \A f \in File : Mine(r, f) /\ disk[f].written
    /\ pc[r] = "done" => printed[r] = r

\* Run r owns nothing else.
OwnsNoMore(r) ==
    \A f \in File : Mine(r, f) =>
        /\ pc[r] \notin {"begin", "look", "generate", "refused"}
        /\ pc[r] = "open" => f < at[r]
        /\ pc[r] \in {"write", "close", "discard"} => f <= at[r]
        /\ pc[r] = "undo" => f \in stuck \/ (back[r] <= f /\ f < at[r])
        /\ pc[r] = "failed" => f \in stuck

\* Run r has looked at the files before it makes one.
Looked(r) ==
    /\ pc[r] = "look" => \A f \in File : f < at[r] => disk[f].owner # User
    /\ pc[r] = "begin" => at[r] = 1
    /\ pc[r] = "generate" => at[r] = 1
    /\ pc[r] \notin {"begin", "look", "refused", "crashed"} =>
          \A f \in File : disk[f].owner # User

RunInv == \A r \in Run : Owns(r) /\ OwnsNoMore(r) /\ Looked(r)

\* A step of run r changes only files that nobody or r has, and leaves them
\* to nobody or to r.
TouchesItsOwn(r) ==
    \A f \in File :
        \/ disk'[f] = disk[f]
        \/ /\ disk[f] = None \/ Mine(r, f)
           /\ disk'[f] = None \/ disk'[f].owner = r

\* A step of run r changes no other run's variables.
OthersStay(r) ==
    \A q \in Run \ {r} : /\ pc'[q] = pc[q] /\ at'[q] = at[q]
                         /\ back'[q] = back[q] /\ printed'[q] = printed[q]

-------------------------------------------------------------------------------

LEMMA InitType == Init => TypeOK
<1> SUFFICES ASSUME Init PROVE TypeOK
  OBVIOUS
<1>1. 1 \in File
  BY DEF File
<1>2. None \in Entry \union {None} /\ [owner |-> User, written |-> TRUE] \in Entry
  BY DEF Entry
<1>3. disk \in [File -> Entry \union {None}]
  BY <1>2 DEF Init
<1> QED BY <1>1, <1>3 DEF Init, TypeOK, Point

LEMMA StepType ==
  ASSUME TypeOK, NEW r \in Run, Step(r)
  PROVE  TypeOK'
<1> DEFINE Disk == [File -> Entry \union {None}]
<1>0. /\ disk \in Disk /\ pc \in [Run -> Point] /\ at \in [Run -> File]
      /\ back \in [Run -> File] /\ printed \in [Run -> Run \union {User}]
      /\ stuck \subseteq File
  BY DEF TypeOK
<1>9. ASSUME disk' \in Disk, pc' \in [Run -> Point], at' \in [Run -> File],
             back' \in [Run -> File], printed' \in [Run -> Run \union {User}],
             stuck' \subseteq File
      PROVE  TypeOK'
  BY <1>9 DEF TypeOK
<1>a. \A f, o, w : o \in Run /\ w \in BOOLEAN =>
        [disk EXCEPT ![f] = [owner |-> o, written |-> w]] \in Disk
  BY <1>0 DEF Entry
<1>b. \A f : [disk EXCEPT ![f] = None] \in Disk
  BY <1>0
<1>c. \A q, to : to \in Point => [pc EXCEPT ![q] = to] \in [Run -> Point]
  BY <1>0
<1>d. \A q, f : f \in File => /\ [at EXCEPT ![q] = f] \in [Run -> File]
                              /\ [back EXCEPT ![q] = f] \in [Run -> File]
  BY <1>0
<1>e. \A f \in File : disk[f].written =>
        disk[f].owner \in Run \union {User}
  BY <1>0 DEF Entry, None
<1>f. at[r] \in File /\ back[r] \in File /\ 1 \in File /\ RootCert \in File
  BY <1>0 DEF File, RootCert
<1>g. \A f \in File : f # 4 => f + 1 \in File
  BY DEF File
<1>h. \A f, g \in File : f < g => f + 1 \in File
  BY DEF File
<1>i. {"begin", "look", "generate", "open", "write", "close", "discard", "undo",
       "report", "refused", "failed", "unreported", "done", "crashed"} \subseteq Point
  BY DEF Point, Ended
<1>j. ASSUME NEW f \in File, Removes(f) PROVE disk' \in Disk /\ stuck' \subseteq File
  <2>1. CASE disk' = [disk EXCEPT ![f] = None] /\ stuck' = stuck
    BY <2>1, <1>0, <1>b
  <2>2. CASE disk' = disk /\ stuck' = stuck \union {f}
    BY <2>2, <1>0
  <2> QED BY <1>j, <2>1, <2>2 DEF Removes
<1> HIDE DEF Disk
<1>1. CASE Begin(r) \/ Generate(r) \/ Refuse(r) \/ WriteFails(r)
           \/ ReportFails(r) \/ Crash(r)
  <2>1. UNCHANGED <<disk, at, back, printed, stuck>>
    BY <1>1 DEF Begin, Generate, Refuse, WriteFails, ReportFails, Crash
  <2>2. pc' \in [Run -> Point]
    BY <1>1, <1>c, <1>i
    DEF Begin, Generate, Refuse, WriteFails, ReportFails, Crash, Goes
  <2> QED BY <2>1, <2>2, <1>0, <1>9
<1>2. CASE Look(r)
  <2>1. pc' \in [Run -> Point]
    BY <1>2, <1>c, <1>i DEF Look, Goes
  <2>2. at' \in [Run -> File]
    BY <1>2, <1>d, <1>f, <1>g DEF Look
  <2> QED BY <1>2, <2>1, <2>2, <1>0, <1>9 DEF Look
<1>3. CASE Open(r)
  <2>1. disk' \in Disk
    BY <1>3, <1>a DEF Open
  <2>2. pc' \in [Run -> Point]
    BY <1>3, <1>c, <1>i DEF Open, Goes
  <2> QED BY <1>3, <2>1, <2>2, <1>0, <1>9 DEF Open
<1>4. CASE OpenFails(r)
  <2>1. pc' \in [Run -> Point]
    BY <1>4, <1>c, <1>i DEF OpenFails, Goes
  <2>2. back' \in [Run -> File]
    BY <1>4, <1>d, <1>f DEF OpenFails
  <2> QED BY <1>4, <2>1, <2>2, <1>0, <1>9 DEF OpenFails
<1>5. CASE Write(r)
  <2>1. disk' \in Disk
    BY <1>5, <1>a DEF Write
  <2>2. pc' \in [Run -> Point]
    BY <1>5, <1>c, <1>i DEF Write, Goes
  <2> QED BY <1>5, <2>1, <2>2, <1>0, <1>9 DEF Write
<1>6. CASE Close(r)
  <2>1. pc' \in [Run -> Point]
    BY <1>6, <1>c, <1>i DEF Close, Goes
  <2>2. at' \in [Run -> File]
    BY <1>6, <1>0, <1>d, <1>f, <1>g DEF Close
  <2> QED BY <1>6, <2>1, <2>2, <1>0, <1>9 DEF Close
<1>7. CASE Discard(r)
  <2>1. pc' \in [Run -> Point]
    BY <1>7, <1>c, <1>i DEF Discard, Goes
  <2>2. back' \in [Run -> File]
    BY <1>7, <1>d, <1>f DEF Discard
  <2>3. disk' \in Disk /\ stuck' \subseteq File
    BY <1>7, <1>f, <1>j DEF Discard
  <2> QED BY <1>7, <2>1, <2>2, <2>3, <1>0, <1>9 DEF Discard
<1>8. CASE Undo(r)
  <2>1. pc' \in [Run -> Point]
    BY <1>8, <1>c, <1>i DEF Undo, Goes
  <2>2. back' \in [Run -> File]
    BY <1>8, <1>0, <1>d, <1>f, <1>h DEF Undo
  <2>3. disk' \in Disk /\ stuck' \subseteq File
    BY <1>8, <1>0, <1>f, <1>j DEF Undo
  <2> QED BY <1>8, <2>1, <2>2, <2>3, <1>0, <1>9 DEF Undo
<1>10. CASE Report(r)
  <2>1. pc' \in [Run -> Point]
    BY <1>10, <1>c, <1>i DEF Report, Goes
  <2>2. printed' \in [Run -> Run \union {User}]
    BY <1>10, <1>0, <1>e, <1>f DEF Report
  <2> QED BY <1>10, <2>1, <2>2, <1>0, <1>9 DEF Report
<1> QED BY <1>1, <1>2, <1>3, <1>4, <1>5, <1>6, <1>7, <1>8, <1>10 DEF Step

(***************************************************************************)
(* The variables have their types at every point of every run.             *)
(***************************************************************************)
THEOREM PkiInitTypeOK == Spec => []TypeOK
<1>1. TypeOK /\ [Next]_vars => TypeOK'
  <2> SUFFICES ASSUME TypeOK, [Next]_vars PROVE TypeOK'
    OBVIOUS
  <2>1. CASE UNCHANGED vars
    BY <2>1 DEF TypeOK, vars
  <2>2. CASE \E r \in Run : Step(r)
    BY <2>2, StepType
  <2> QED BY <2>1, <2>2 DEF Next, Over
<1> QED BY <1>1, InitType, PTL DEF Spec

-------------------------------------------------------------------------------

LEMMA StepTouches ==
  ASSUME TypeOK, RunInv, NEW r \in Run, Step(r)
  PROVE  TouchesItsOwn(r) /\ OthersStay(r) /\ stuck \subseteq stuck'
<1>0. /\ disk \in [File -> Entry \union {None}] /\ pc \in [Run -> Point]
      /\ at \in [Run -> File] /\ back \in [Run -> File]
      /\ printed \in [Run -> Run \union {User}] /\ at[r] \in File /\ back[r] \in File
  BY DEF TypeOK
<1>1. OthersStay(r)
  BY <1>0 DEF OthersStay, Step, Begin, Look, Generate, Refuse, Open, OpenFails,
     Write, Close, WriteFails, Discard, Undo, Report, ReportFails, Crash, Goes
<1>2. stuck \subseteq stuck'
  BY DEF Step, Begin, Look, Generate, Refuse, Open, OpenFails,
     Write, Close, WriteFails, Discard, Undo, Report, ReportFails, Crash, Removes
<1>a. ASSUME NEW f \in File, Mine(r, f), Removes(f) PROVE TouchesItsOwn(r)
  <2>1. CASE disk' = [disk EXCEPT ![f] = None]
    BY <2>1, <1>a, <1>0 DEF TouchesItsOwn
  <2>2. CASE disk' = disk
    BY <2>2 DEF TouchesItsOwn
  <2> QED BY <1>a, <2>1, <2>2 DEF Removes
<1>3. TouchesItsOwn(r)
  <2>1. CASE Begin(r) \/ Look(r) \/ Generate(r) \/ Refuse(r) \/ OpenFails(r)
             \/ Close(r) \/ WriteFails(r) \/ Report(r) \/ ReportFails(r) \/ Crash(r)
    BY <2>1 DEF TouchesItsOwn, Begin, Look, Generate, Refuse, OpenFails,
       Close, WriteFails, Report, ReportFails, Crash
  <2>2. CASE Open(r)
    BY <2>2, <1>0 DEF Open, TouchesItsOwn
  <2>3. CASE Write(r)
    <3>1. Mine(r, at[r])
      BY <2>3 DEF Write, Goes, RunInv, Owns
    <3> QED BY <3>1, <2>3, <1>0 DEF Write, TouchesItsOwn
  <2>4. CASE Discard(r)
    <3>1. Mine(r, at[r])
      BY <2>4 DEF Discard, Goes, RunInv, Owns
    <3> QED BY <3>1, <2>4, <1>0, <1>a DEF Discard
  <2>5. CASE Undo(r)
    <3>1. CASE back[r] < at[r] /\ Removes(back[r])
      <4>1. Mine(r, back[r])
        BY <2>5, <3>1, <1>0 DEF Undo, Goes, RunInv, Owns, File
      <4> QED BY <4>1, <3>1, <1>0, <1>a
    <3>2. CASE disk' = disk
      BY <3>2 DEF TouchesItsOwn
    <3> QED BY <2>5, <3>1, <3>2 DEF Undo
  <2> QED BY <2>1, <2>2, <2>3, <2>4, <2>5 DEF Step
<1> QED BY <1>1, <1>2, <1>3

LEMMA OthersKeepRunInv ==
  ASSUME TypeOK, RunInv, NEW r \in Run, NEW q \in Run \ {r},
         TouchesItsOwn(r), OthersStay(r), stuck \subseteq stuck'
  PROVE  Owns(q)' /\ OwnsNoMore(q)' /\ Looked(q)'
<1>0. q \in Run /\ q # r /\ at[q] \in File /\ back[q] \in File
  BY DEF TypeOK
<1>1. pc'[q] = pc[q] /\ at'[q] = at[q] /\ back'[q] = back[q]
      /\ printed'[q] = printed[q]
  BY DEF OthersStay
<1>2. \A f \in File : Mine(q, f) => disk'[f] = disk[f]
  BY <1>0, NobodyIsNoOwner DEF TouchesItsOwn, Mine, None
<1>3. \A f \in File : disk'[f].owner = q => Mine(q, f)
  BY <1>0, NobodyIsNoOwner DEF TouchesItsOwn, Mine, None
<1>4. \A f \in File : disk[f].owner # User => disk'[f].owner # User
  BY UserIsNoRun, NobodyIsNoOwner DEF TouchesItsOwn, None
<1>5. Owns(q) /\ OwnsNoMore(q) /\ Looked(q)
  BY <1>0 DEF RunInv
<1>6. Owns(q)'
  BY <1>0, <1>1, <1>2, <1>5 DEF Owns, Mine
<1>7. OwnsNoMore(q)'
  BY <1>0, <1>1, <1>3, <1>5 DEF OwnsNoMore, Mine
<1>8. Looked(q)'
  BY <1>0, <1>1, <1>4, <1>5 DEF Looked
<1> QED BY <1>6, <1>7, <1>8

LEMMA OwnKeepsRunInv ==
  ASSUME TypeOK, RunInv, NEW r \in Run, Step(r)
  PROVE  Owns(r)' /\ OwnsNoMore(r)' /\ Looked(r)'
<1>0. /\ disk \in [File -> Entry \union {None}] /\ pc \in [Run -> Point]
      /\ at \in [Run -> File] /\ back \in [Run -> File]
      /\ printed \in [Run -> Run \union {User}]
      /\ at[r] \in File /\ back[r] \in File
  BY DEF TypeOK
<1>a. Owns(r) /\ OwnsNoMore(r) /\ Looked(r)
  BY DEF RunInv
<1>b. \A f \in File : f \in Nat /\ 1 <= f /\ f <= 4
  BY DEF File
<1>c. \A f \in File : None.owner # r /\ None.owner # User /\ r # User
  BY UserIsNoRun, NobodyIsNoOwner DEF None
<1>d. \A to : pc' = [pc EXCEPT ![r] = to] => pc'[r] = to
  BY <1>0
<1>1. CASE Begin(r)
  BY <1>0, <1>1, <1>a, <1>b DEF Begin, Goes, Owns, OwnsNoMore, Looked, Mine
<1>2. CASE Look(r)
  <2>1. CASE at[r] = 4
    BY <1>0, <1>2, <2>1, <1>a, <1>b, <1>c DEF Look, Goes, Owns, OwnsNoMore, Looked, Mine
  <2>2. CASE at[r] # 4
    <3>1. pc[r] = "look" /\ pc'[r] = "look" /\ at'[r] = at[r] + 1 /\ disk' = disk
          /\ disk[at[r]] = None
      BY <1>0, <1>2, <2>2 DEF Look, Goes
    <3>2. \A f \in File : f < at[r] + 1 <=> f = at[r] \/ f < at[r]
      BY <1>0, <1>b
    <3>3. \A f \in File : f < at[r] + 1 => disk[f].owner # User
      BY <3>1, <3>2, <1>a, <1>c DEF Looked
    <3> QED BY <3>1, <3>3, <1>a DEF Owns, OwnsNoMore, Looked, Mine
  <2> QED BY <2>1, <2>2
<1>3. CASE Generate(r)
  BY <1>0, <1>3, <1>a, <1>b DEF Generate, Goes, Owns, OwnsNoMore, Looked, Mine
<1>4. CASE Refuse(r)
  BY <1>0, <1>4, <1>a DEF Refuse, Goes, Owns, OwnsNoMore, Looked, Mine
<1>5. CASE Open(r)
  <2>1. /\ pc[r] = "open" /\ pc'[r] = "write" /\ at'[r] = at[r]
        /\ disk[at[r]] = None /\ disk'[at[r]].owner = r
        /\ \A f \in File : f # at[r] => disk'[f] = disk[f]
    BY <1>0, <1>5 DEF Open, Goes
  <2> QED BY <1>0, <2>1, <1>a, <1>b, <1>c DEF Owns, OwnsNoMore, Looked, Mine
<1>6. CASE OpenFails(r)
  <2>1. /\ pc[r] = "open" /\ pc'[r] = "undo" /\ at'[r] = at[r] /\ disk' = disk
        /\ back'[r] = 1
    BY <1>0, <1>6 DEF OpenFails, Goes
  <2> QED BY <1>0, <2>1, <1>a, <1>b DEF Owns, OwnsNoMore, Looked, Mine
<1>7. CASE Write(r)
  <2>1. /\ pc[r] = "write" /\ pc'[r] = "close" /\ at'[r] = at[r]
        /\ disk'[at[r]] = [owner |-> r, written |-> TRUE]
        /\ \A f \in File : f # at[r] => disk'[f] = disk[f]
    BY <1>0, <1>7 DEF Write, Goes
  <2>2. disk'[at[r]].owner = r /\ disk'[at[r]].written
    BY <2>1
  <2> QED BY <1>0, <2>1, <2>2, <1>a, <1>b, <1>c DEF Owns, OwnsNoMore, Looked, Mine
<1>8. CASE Close(r)
  <2>1. CASE at[r] = 4
    <3>1. /\ pc[r] = "close" /\ pc'[r] = "report" /\ at' = at /\ disk' = disk
      BY <1>0, <1>8, <2>1 DEF Close, Goes
    <3>2. \A f \in File : f = at[r] \/ f < at[r]
      BY <2>1, <1>b
    <3> QED BY <1>0, <3>1, <3>2, <1>a, <1>c DEF Owns, OwnsNoMore, Looked, Mine
  <2>2. CASE at[r] # 4
    <3>1. /\ pc[r] = "close" /\ pc'[r] = "open" /\ at'[r] = at[r] + 1 /\ disk' = disk
      BY <1>0, <1>8, <2>2 DEF Close, Goes
    <3>2. \A f \in File : f < at[r] + 1 <=> f = at[r] \/ f < at[r]
      BY <1>0, <1>b
    <3>3. \A f \in File : f <= at[r] <=> f = at[r] \/ f < at[r]
      BY <1>0, <1>b
    <3> QED BY <1>0, <3>1, <3>2, <3>3, <1>a, <1>c DEF Owns, OwnsNoMore, Looked, Mine
  <2> QED BY <2>1, <2>2
<1>9. CASE WriteFails(r)
  <2>1. /\ pc[r] \in {"write", "close"} /\ pc'[r] = "discard" /\ at' = at
        /\ disk' = disk
    BY <1>0, <1>9 DEF WriteFails, Goes
  <2> QED BY <1>0, <2>1, <1>a DEF Owns, OwnsNoMore, Looked, Mine
<1>10. CASE Discard(r)
  <2>1. /\ pc[r] = "discard" /\ pc'[r] = "undo" /\ at' = at /\ back'[r] = 1
        /\ Removes(at[r])
    BY <1>0, <1>10 DEF Discard, Goes
  <2>2. /\ \A f \in File : f # at[r] => disk'[f] = disk[f]
        /\ disk'[at[r]] = None \/ (disk' = disk /\ at[r] \in stuck')
        /\ stuck \subseteq stuck'
    BY <1>0, <2>1 DEF Removes
  <2>3. \A f \in File : f <= at[r] <=> f = at[r] \/ f < at[r]
    BY <1>0, <1>b
  <2>4. 1 <= at[r]
    BY <1>0, <1>b
  <2> QED BY <1>0, <2>1, <2>2, <2>3, <2>4, <1>a, <1>b, <1>c
          DEF Owns, OwnsNoMore, Looked, Mine
<1>11. CASE Undo(r)
  <2>1. CASE /\ back[r] < at[r]
             /\ Goes(r, "undo", "undo")
             /\ Removes(back[r])
             /\ back' = [back EXCEPT ![r] = @ + 1]
             /\ UNCHANGED <<at, printed>>
    <3>1. /\ pc[r] = "undo" /\ pc'[r] = "undo" /\ at' = at
          /\ back'[r] = back[r] + 1
      BY <1>0, <2>1 DEF Goes
    <3>2. /\ \A f \in File : f # back[r] => disk'[f] = disk[f]
          /\ disk'[back[r]] = None \/ (disk' = disk /\ back[r] \in stuck')
          /\ stuck \subseteq stuck'
      BY <1>0, <2>1 DEF Removes
    <3>3. \A f \in File : back[r] + 1 <= f <=> back[r] <= f /\ f # back[r]
      BY <1>0, <1>b
    <3>4. back[r] + 1 <= at[r]
      BY <1>0, <1>b, <2>1
    <3> QED BY <1>0, <3>1, <3>2, <3>3, <3>4, <1>a, <1>c
            DEF Owns, OwnsNoMore, Looked, Mine
  <2>2. CASE /\ back[r] = at[r]
             /\ Goes(r, "undo", "failed")
             /\ UNCHANGED <<disk, at, back, printed, stuck>>
    <3>1. pc[r] = "undo" /\ pc'[r] = "failed"
      BY <1>0, <2>2 DEF Goes
    <3> QED BY <1>0, <3>1, <2>2, <1>a, <1>b DEF Owns, OwnsNoMore, Looked, Mine
  <2> QED BY <1>11, <2>1, <2>2 DEF Undo
<1>12. CASE Report(r)
  <2>1. /\ pc[r] = "report" /\ pc'[r] = "done" /\ at' = at /\ disk' = disk
        /\ printed'[r] = disk[1].owner
    BY <1>0, <1>12 DEF Report, Goes, RootCert
  <2>2. 1 \in File
    BY DEF File
  <2> QED BY <1>0, <2>1, <2>2, <1>a DEF Owns, OwnsNoMore, Looked, Mine
<1>13. CASE ReportFails(r)
  <2>1. /\ pc[r] = "report" /\ pc'[r] = "unreported" /\ disk' = disk
    BY <1>0, <1>13 DEF ReportFails, Goes
  <2> QED BY <2>1, <1>a DEF Owns, OwnsNoMore, Looked, Mine
<1>14. CASE Crash(r)
  <2>1. pc'[r] = "crashed"
    BY <1>0, <1>14 DEF Crash
  <2> QED BY <2>1 DEF Owns, OwnsNoMore, Looked
<1> QED BY <1>1, <1>2, <1>3, <1>4, <1>5, <1>6, <1>7, <1>8, <1>9, <1>10, <1>11,
        <1>12, <1>13, <1>14 DEF Step

LEMMA RunsInvariant == Spec => [](TypeOK /\ RunInv)
<1>1. Init => RunInv
  <2> SUFFICES ASSUME Init, NEW r \in Run PROVE Owns(r) /\ OwnsNoMore(r) /\ Looked(r)
    BY DEF RunInv
  <2>1. pc[r] = "begin" /\ at[r] = 1
    BY DEF Init
  <2>2. \A f \in File : disk[f] \in {None, [owner |-> User, written |-> TRUE]}
    BY DEF Init
  <2>3. \A f \in File : ~Mine(r, f)
    BY <2>2, NobodyIsNoOwner, UserIsNoRun DEF Mine, None
  <2> QED BY <2>1, <2>3 DEF Owns, OwnsNoMore, Looked
<1>2. TypeOK /\ RunInv /\ [Next]_vars => RunInv'
  <2> SUFFICES ASSUME TypeOK, RunInv, [Next]_vars PROVE RunInv'
    OBVIOUS
  <2>1. CASE UNCHANGED vars
    BY <2>1 DEF vars, RunInv, Owns, OwnsNoMore, Looked, Mine
  <2>2. ASSUME NEW r \in Run, Step(r) PROVE RunInv'
    <3>1. Owns(r)' /\ OwnsNoMore(r)' /\ Looked(r)'
      BY <2>2, OwnKeepsRunInv
    <3>2. ASSUME NEW q \in Run \ {r}
          PROVE  Owns(q)' /\ OwnsNoMore(q)' /\ Looked(q)'
      BY <2>2, StepTouches, OthersKeepRunInv
    <3> QED BY <3>1, <3>2 DEF RunInv
  <2> QED BY <2>1, <2>2 DEF Next, Over
<1> QED BY <1>1, <1>2, PkiInitTypeOK, PTL DEF Spec

-------------------------------------------------------------------------------

(***************************************************************************)
(* However many runs share a directory, one that reports success has made  *)
(* and written all four files, and printed its own root's fingerprint.     *)
(***************************************************************************)
THEOREM PkiInitSuccessIsWhole == Spec => []SuccessIsWhole
<1>1. TypeOK /\ RunInv => SuccessIsWhole
  BY DEF RunInv, Owns, SuccessIsWhole
<1> QED BY <1>1, RunsInvariant, PTL

(***************************************************************************)
(* A run that fails leaves only files that it could not remove.            *)
(***************************************************************************)
THEOREM PkiInitFailureLeavesNothing == Spec => []FailureLeavesNothing
<1>1. TypeOK /\ RunInv => FailureLeavesNothing
  BY DEF RunInv, OwnsNoMore, FailureLeavesNothing
<1> QED BY <1>1, RunsInvariant, PTL

\* A step of run r changes a file that is there only if r owns it, at a point
\* where it writes or removes.
LEMMA StepChangesItsOwn ==
  ASSUME TypeOK, RunInv, NEW r \in Run, Step(r),
         NEW f \in File, disk[f] # None, disk'[f] # disk[f]
  PROVE  Mine(r, f) /\ pc[r] \in {"write", "discard", "undo"} /\ pc'[r] # "write"
<1>1. Mine(r, f)
  BY StepTouches DEF TouchesItsOwn
<1>0. disk \in [File -> Entry \union {None}] /\ pc \in [Run -> Point]
      /\ at[r] \in File
  BY DEF TypeOK
<1>2. Write(r) \/ Discard(r) \/ Undo(r)
  <2>1. ~Open(r)
    BY <1>0 DEF Open
  <2>2. disk' # disk
    OBVIOUS
  <2> QED BY <2>1, <2>2
          DEF Step, Begin, Look, Generate, Refuse, OpenFails, Close, WriteFails,
              Report, ReportFails, Crash
<1>3. pc[r] \in {"write", "discard", "undo"} /\ pc'[r] # "write"
  BY <1>0, <1>2 DEF Write, Discard, Undo, Goes
<1> QED BY <1>1, <1>3

(***************************************************************************)
(* No step changes or removes a file but one of its own run, still busy.   *)
(***************************************************************************)
THEOREM PkiInitOthersFilesKept == Spec => OthersFilesKept
<1> DEFINE Kept == \A f \in File : disk[f] # None /\ disk'[f] # disk[f] =>
          \E r \in Run : Mine(r, f) /\ pc[r] \in {"write", "discard", "undo"}
                                   /\ pc'[r] # "write"
<1>1. TypeOK /\ RunInv /\ [Next]_vars => [Kept]_vars
  <2> SUFFICES ASSUME TypeOK, RunInv, Next PROVE Kept
    OBVIOUS
  <2>1. CASE Over
    BY <2>1 DEF Over, vars
  <2>2. ASSUME NEW r \in Run, Step(r) PROVE Kept
    BY <2>2, StepChangesItsOwn
  <2> QED BY <2>1, <2>2 DEF Next
<1> QED BY <1>1, RunsInvariant, PTL DEF Spec, OthersFilesKept

-------------------------------------------------------------------------------

\* As long as files can be removed, who owns the last file owns them all; and
\* nobody makes a file where one was before.
SetInv == /\ stuck = {} => \A r \in Run : Mine(r, 4) => \A f \in File : Mine(r, f)
          /\ \A r \in Run, f, g \in File : Mine(r, f) => disk[g].owner # User

LEMMA LastFileOwnsAll ==
  ASSUME TypeOK, RunInv, SetInv, NEW r \in Run, Step(r), stuck' = {},
         NEW q \in Run, Mine(q, 4)', NEW f \in File
  PROVE  Mine(q, f)'
<1>0. /\ disk \in [File -> Entry \union {None}] /\ pc \in [Run -> Point]
      /\ at[r] \in File /\ back[r] \in File /\ 4 \in File /\ stuck = {}
  BY StepTouches DEF TypeOK, File
<1>a. \A o \in Run : None.owner # o
  BY NobodyIsNoOwner DEF None
<1>b. Owns(r) /\ OwnsNoMore(r) /\ TouchesItsOwn(r)
  BY StepTouches DEF RunInv
<1>1. CASE Mine(q, 4)
  <2>1. Mine(q, f)
    BY <1>1, <1>0 DEF SetInv
  <2>2. CASE q # r
    BY <2>1, <2>2, <1>b, <1>a DEF TouchesItsOwn, Mine
  <2>3. CASE q = r /\ disk'[f] # disk[f]
    <3>1. CASE disk'[f] = None
      <4>1. CASE Discard(r)
        <5>1. pc[r] = "discard" /\ at[r] # 4 /\ at[r] < 4
          BY <4>1, <3>1, <2>3, <1>0, <1>a DEF Discard, Goes, Removes, Mine, File
        <5> QED BY <5>1, <1>1, <1>b, <1>0, <2>3 DEF OwnsNoMore, File
      <4>2. CASE Undo(r)
        <5>1. pc[r] = "undo"
          BY <4>2 DEF Undo, Goes
        <5>2. 4 < at[r]
          BY <5>1, <1>1, <1>b, <1>0, <2>3 DEF OwnsNoMore
        <5> QED BY <5>2, <1>0 DEF File
      <4>3. CASE Write(r)
        <5>1. disk'[f] \in {disk[f], [owner |-> r, written |-> TRUE]}
          BY <4>3, <1>0 DEF Write
        <5> QED BY <5>1, <3>1, <2>3, NobodyIsNoOwner DEF None
      <4> QED BY <4>1, <4>2, <4>3, <3>1, <2>1, <2>3, <1>0, <1>a
              DEF Step, Begin, Look, Generate, Refuse, Open, OpenFails, Close,
                  WriteFails, Report, ReportFails, Crash, Mine
    <3>2. CASE disk'[f].owner = r
      BY <3>2, <2>3 DEF Mine
    <3> QED BY <3>1, <3>2, <2>3, <1>b DEF TouchesItsOwn
  <2>4. CASE disk'[f] = disk[f]
    BY <2>1, <2>4 DEF Mine
  <2> QED BY <2>2, <2>3, <2>4
<1>2. CASE ~Mine(q, 4)
  <2>1. q = r
    BY <1>2, <1>0, <1>a, <1>b DEF TouchesItsOwn, Mine
  <2>2. disk'[4].owner # disk[4].owner
    BY <1>2, <1>0 DEF Mine
  <2>3. Open(r) /\ at[r] = 4
    <3>1. CASE Write(r)
      <4>1. Mine(r, at[r])
        BY <3>1, <1>b DEF Write, Goes, Owns
      <4> QED BY <3>1, <4>1, <2>2, <1>0 DEF Write, Mine
    <3>2. CASE Discard(r) \/ Undo(r)
      <4>1. disk'[4] \in {disk[4], None}
        BY <3>2, <1>0 DEF Discard, Undo, Removes
      <4> QED BY <4>1, <2>2, <1>a DEF Mine
    <3>3. CASE Open(r)
      BY <3>3, <2>2, <1>0 DEF Open
    <3> QED BY <3>1, <3>2, <3>3, <2>2
            DEF Step, Begin, Look, Generate, Refuse, OpenFails, Close,
                WriteFails, Report, ReportFails, Crash
  <2>4. CASE f = 4
    BY <2>4
  <2>5. CASE f # 4
    <3>1. f < at[r]
      BY <2>3, <2>5 DEF File
    <3>2. Mine(r, f)
      BY <2>3, <3>1, <1>b DEF Open, Goes, Owns
    <3> QED BY <2>1, <2>3, <2>5, <3>2, <1>0 DEF Open, Mine
  <2> QED BY <2>4, <2>5
<1> QED BY <1>1, <1>2

LEMMA NobodyJoinsOldFiles ==
  ASSUME TypeOK, RunInv, SetInv, NEW r \in Run, Step(r),
         NEW q \in Run, NEW f \in File, NEW g \in File, Mine(q, f)'
  PROVE  disk'[g].owner # User
<1>0. disk \in [File -> Entry \union {None}] /\ at[r] \in File
  BY DEF TypeOK
<1>a. None.owner # q /\ None.owner # User /\ r # User
  BY NobodyIsNoOwner, UserIsNoRun DEF None
<1>b. Owns(r) /\ Looked(r) /\ TouchesItsOwn(r)
  BY StepTouches DEF RunInv
<1>1. SUFFICES disk[g].owner # User
  BY <1>a, <1>b DEF TouchesItsOwn
<1>2. CASE Mine(q, f)
  BY <1>2 DEF SetInv
<1>3. CASE ~Mine(q, f)
  <2>1. disk'[f] # disk[f]
    BY <1>3 DEF Mine
  <2>2. CASE Open(r)
    BY <2>2, <1>b DEF Open, Goes, Looked
  <2>3. CASE Write(r)
    BY <2>3, <1>b DEF Write, Goes, Looked
  <2>4. CASE Discard(r) \/ Undo(r)
    BY <2>4, <1>b DEF Discard, Undo, Goes, Looked
  <2> QED BY <2>1, <2>2, <2>3, <2>4
          DEF Step, Begin, Look, Generate, Refuse, OpenFails, Close,
              WriteFails, Report, ReportFails, Crash
<1> QED BY <1>2, <1>3

(***************************************************************************)
(* As long as files can be removed, and however many runs crash, a         *)
(* complete directory holds the files of one run.                          *)
(***************************************************************************)
THEOREM PkiInitNoMixedSet == Spec => []NoMixedSet
<1>1. Init => SetInv
  <2> SUFFICES ASSUME Init, NEW r \in Run, NEW f \in File PROVE ~Mine(r, f)
    BY DEF SetInv, File
  <2>1. disk[f] \in {None, [owner |-> User, written |-> TRUE]}
    BY DEF Init
  <2> QED BY <2>1, NobodyIsNoOwner, UserIsNoRun DEF Mine, None
<1>2. TypeOK /\ RunInv /\ SetInv /\ [Next]_vars => SetInv'
  <2> SUFFICES ASSUME TypeOK, RunInv, SetInv, [Next]_vars PROVE SetInv'
    OBVIOUS
  <2>1. CASE UNCHANGED vars
    BY <2>1 DEF vars, SetInv, Mine
  <2>2. ASSUME NEW r \in Run, Step(r) PROVE SetInv'
    <3>1. ASSUME stuck' = {}, NEW q \in Run, Mine(q, 4)', NEW f \in File
          PROVE  Mine(q, f)'
      BY <2>2, <3>1, LastFileOwnsAll
    <3>2. ASSUME NEW q \in Run, NEW f \in File, NEW g \in File, Mine(q, f)'
          PROVE  disk'[g].owner # User
      BY <2>2, <3>2, NobodyJoinsOldFiles
    <3> QED BY <3>1, <3>2 DEF SetInv
  <2> QED BY <2>1, <2>2 DEF Next, Over
<1>3. TypeOK /\ SetInv => NoMixedSet
  <2> SUFFICES ASSUME TypeOK, SetInv, stuck = {}, \A f \in File : disk[f].written,
                      NEW f \in File, NEW g \in File
               PROVE  disk[f].owner = disk[g].owner
    BY DEF NoMixedSet
  <2>0. 4 \in File
    BY DEF File
  <2>1. \A h \in File : disk[h].owner \in Run \union {User}
    BY DEF TypeOK, Entry, None
  <2>2. CASE disk[4].owner \in Run
    BY <2>2, <2>0 DEF SetInv, Mine
  <2>3. CASE disk[4].owner = User
    <3>1. \A h \in File : disk[h].owner \notin Run
      BY <2>3, <2>0 DEF SetInv, Mine
    <3> QED BY <3>1, <2>1
  <2> QED BY <2>0, <2>1, <2>2, <2>3
<1> QED BY <1>1, <1>2, <1>3, RunsInvariant, PTL DEF Spec

===============================================================================
