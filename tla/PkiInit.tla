-------------------------------- MODULE PkiInit --------------------------------
(***************************************************************************)
(* `sink pki init` (Init, writeNew and RunInit in src/internal/pki/pki.go) *)
(* run by any number of processes in one output directory.                 *)
(*                                                                         *)
(* A run looks for all four files first and creates them one by one later, *)
(* each with O_EXCL; when one cannot be written it removes those it has    *)
(* made.  Between any two system calls another run may act, and the        *)
(* process may die.  Nobody but the runs removes files.                    *)
(***************************************************************************)
EXTENDS Naturals

CONSTANTS
    Run,   (* the processes *)
    User   (* whoever owns the files that were there before *)

ASSUME UserIsNoRun == User \notin Run

\* The files in the order of paths and files: root.crt, root.key,
\* intermediate.crt, intermediate.key.
File == 1..4
RootCert == 1

VARIABLES
    disk,     \* a file's owner and whether its data is written, or None
    pc,       \* where a run is
    at,       \* the file it looks at or writes
    back,     \* the file it removes next
    printed,  \* whose root certificate's fingerprint it has printed
    stuck     \* history: files that a run has failed to remove

vars == <<disk, pc, at, back, printed, stuck>>

None == [owner |-> "nobody", written |-> FALSE]
Entry == [owner : Run \union {User}, written : BOOLEAN]
ASSUME NobodyIsNoOwner == "nobody" \notin Run \union {User}

Ended == {"refused", "failed", "unreported", "done", "crashed"}

Init == /\ disk \in [File -> {None, [owner |-> User, written |-> TRUE]}]
        /\ pc = [r \in Run |-> "begin"]
        /\ at = [r \in Run |-> 1]
        /\ back = [r \in Run |-> 1]
        /\ printed = [r \in Run |-> User]
        /\ stuck = {}

Goes(r, from, to) == pc[r] = from /\ pc' = [pc EXCEPT ![r] = to]

Mine(r, f) == disk[f].owner = r

-------------------------------------------------------------------------------
(* Init. *)

\* The hosts and the directory are in order; the clock has been read.
Begin(r) == /\ Goes(r, "begin", "look")
            /\ UNCHANGED <<disk, at, back, printed, stuck>>

\* os.Lstat finds nothing; after the last file the keys are generated.
Look(r) ==
    /\ disk[at[r]] = None
    /\ IF at[r] = 4 THEN Goes(r, "look", "generate") /\ at' = [at EXCEPT ![r] = 1]
                    ELSE Goes(r, "look", "look") /\ at' = [at EXCEPT ![r] = @ + 1]
    /\ UNCHANGED <<disk, back, printed, stuck>>

\* Keys and certificates are made in memory.
Generate(r) == /\ Goes(r, "generate", "open")
               /\ UNCHANGED <<disk, at, back, printed, stuck>>

\* Init returns before it has made a file: a host, the directory, a file
\* that is there or cannot be inspected, a key.
Refuse(r) == /\ \E from \in {"begin", "look", "generate"} : Goes(r, from, "refused")
             /\ UNCHANGED <<disk, at, back, printed, stuck>>

\* A possible bug: O_TRUNC in place of O_EXCL.
OpenTruncates(r) ==
    /\ Goes(r, "open", "write")
    /\ disk' = [disk EXCEPT ![at[r]] = [owner |-> r, written |-> FALSE]]
    /\ UNCHANGED <<at, back, printed, stuck>>

\* A possible bug: a file that is there is taken for done.
OpenKeeps(r) ==
    /\ Goes(r, "open", IF disk[at[r]] = None THEN "write" ELSE "close")
    /\ disk' = IF disk[at[r]] = None
               THEN [disk EXCEPT ![at[r]] = [owner |-> r, written |-> FALSE]]
               ELSE disk
    /\ UNCHANGED <<at, back, printed, stuck>>

\* writeNew: os.OpenFile with O_CREATE and O_EXCL.
Open(r) == /\ Goes(r, "open", "write")
           /\ disk[at[r]] = None
           /\ disk' = [disk EXCEPT ![at[r]] = [owner |-> r, written |-> FALSE]]
           /\ UNCHANGED <<at, back, printed, stuck>>

\* A possible bug: the file is removed although another run has made it.
OpenFailsRemoving(r) == /\ Goes(r, "open", "discard")
                        /\ UNCHANGED <<disk, at, back, printed, stuck>>

\* The file exists by now, or it cannot be created.
OpenFails(r) == /\ Goes(r, "open", "undo")
                /\ back' = [back EXCEPT ![r] = 1]
                /\ UNCHANGED <<disk, at, printed, stuck>>

\* writeNew: file.Write.
Write(r) == /\ Goes(r, "write", "close")
            /\ disk' = [disk EXCEPT ![at[r]] = [owner |-> r, written |-> TRUE]]
            /\ UNCHANGED <<at, back, printed, stuck>>

\* A possible bug: the loop over the files goes one too far.
CloseTooFar(r) ==
    /\ IF at[r] = 5 THEN Goes(r, "close", "report") /\ UNCHANGED at
                    ELSE Goes(r, "close", "open") /\ at' = [at EXCEPT ![r] = @ + 1]
    /\ UNCHANGED <<disk, back, printed, stuck>>

\* writeNew: file.Close; then Init goes on to the next file, or returns.
Close(r) ==
    /\ IF at[r] = 4 THEN Goes(r, "close", "report") /\ UNCHANGED at
                    ELSE Goes(r, "close", "open") /\ at' = [at EXCEPT ![r] = @ + 1]
    /\ UNCHANGED <<disk, back, printed, stuck>>

\* A possible bug: writeNew leaves the file it could not finish.
WriteFailsLeaving(r) == /\ \E from \in {"write", "close"} : Goes(r, from, "undo")
                        /\ back' = [back EXCEPT ![r] = 1]
                        /\ UNCHANGED <<disk, at, printed, stuck>>

\* A write or a close fails.
WriteFails(r) == /\ \E from \in {"write", "close"} : Goes(r, from, "discard")
                 /\ UNCHANGED <<disk, at, back, printed, stuck>>

\* os.Remove, whose error is ignored.
Removes(f) == \/ /\ disk' = [disk EXCEPT ![f] = None]
                 /\ UNCHANGED stuck
              \/ /\ stuck' = stuck \union {f}
                 /\ UNCHANGED disk

\* writeNew removes the file that it could not finish.
Discard(r) == /\ Goes(r, "discard", "undo")
              /\ Removes(at[r])
              /\ back' = [back EXCEPT ![r] = 1]
              /\ UNCHANGED <<at, printed>>

\* Init removes the files made before that one, in the same order.
Undo(r) ==
    \/ /\ back[r] < at[r]
       /\ Goes(r, "undo", "undo")
       /\ Removes(back[r])
       /\ back' = [back EXCEPT ![r] = @ + 1]
       /\ UNCHANGED <<at, printed>>
    \/ /\ back[r] = at[r]
       /\ Goes(r, "undo", "failed")
       /\ UNCHANGED <<disk, at, back, printed, stuck>>

-------------------------------------------------------------------------------
(* RunInit, after Init has returned nil. *)

\* It reads the root certificate again and prints its fingerprint.
Report(r) == /\ Goes(r, "report", "done")
             /\ disk[RootCert].written
             /\ printed' = [printed EXCEPT ![r] = disk[RootCert].owner]
             /\ UNCHANGED <<disk, at, back, stuck>>

\* It cannot read the file or write to stdout: an error, with all files made.
ReportFails(r) == /\ Goes(r, "report", "unreported")
                  /\ UNCHANGED <<disk, at, back, printed, stuck>>

\* The process dies, and what is on the disk stays there.
Crash(r) == /\ pc[r] \notin Ended
            /\ pc' = [pc EXCEPT ![r] = "crashed"]
            /\ UNCHANGED <<disk, at, back, printed, stuck>>

Step(r) == \/ Begin(r) \/ Look(r) \/ Generate(r) \/ Refuse(r)
           \/ Open(r) \/ OpenFails(r) \/ Write(r) \/ Close(r) \/ WriteFails(r)
           \/ Discard(r) \/ Undo(r)
           \/ Report(r) \/ ReportFails(r)
           \/ Crash(r)

Over == (\A r \in Run : pc[r] \in Ended) /\ UNCHANGED vars

Next == Over \/ \E r \in Run : Step(r)

Spec == Init /\ [][Next]_vars

-------------------------------------------------------------------------------
(* Properties. *)

Point == {"begin", "look", "generate", "open", "write", "close", "discard",
          "undo", "report"} \union Ended

TypeOK == /\ disk \in [File -> Entry \union {None}]
          /\ pc \in [Run -> Point]
          /\ at \in [Run -> File]
          /\ back \in [Run -> File]
          /\ printed \in [Run -> Run \union {User}]
          /\ stuck \subseteq File

(***************************************************************************)
(* A run that reports success has made all four files itself, has written  *)
(* them and printed the fingerprint of its own root, whatever other runs   *)
(* did in the same directory meanwhile.                                    *)
(***************************************************************************)
SuccessIsWhole ==
    \A r \in Run : pc[r] = "done" =>
        /\ \A f \in File : Mine(r, f) /\ disk[f].written
        /\ printed[r] = r

(***************************************************************************)
(* A file is changed or removed by nobody but the run that created it, and *)
(* by that one only before it has ended; a file from before, never.        *)
(***************************************************************************)
OthersFilesKept ==
    [][\A f \in File : disk[f] # None /\ disk'[f] # disk[f] =>
          \E r \in Run : Mine(r, f) /\ pc[r] \in {"write", "discard", "undo"}
                                   /\ pc'[r] # "write"]_vars

(***************************************************************************)
(* A run that fails leaves no file of its own behind but those that could  *)
(* not be removed; one that refuses has made none.                         *)
(***************************************************************************)
FailureLeavesNothing ==
    \A r \in Run : pc[r] \in {"refused", "failed"} =>
        \A f \in File : Mine(r, f) => f \in stuck

(***************************************************************************)
(* As long as files can be removed, crashes included, four files that are  *)
(* all written are a set: those of one run, or of the time before.         *)
(***************************************************************************)
NoMixedSet ==
    stuck = {} /\ (\A f \in File : disk[f].written) =>
        \A f, g \in File : disk[f].owner = disk[g].owner

===============================================================================
