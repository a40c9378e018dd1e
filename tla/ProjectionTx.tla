---------------------------- MODULE ProjectionTx ----------------------------
(* The checker-projection transaction (internal/checker).  Several targets  *)
(* are staged beside their names, the records "prepared", "bound" and       *)
(* "committed" are written in that order, the old targets are parked and    *)
(* the staged files installed.  A later run first recovers: it rolls back   *)
(* without a committed record and finishes with one.  Files are removed     *)
(* through quarantine directories; people edit targets at any time.         *)
EXTENDS Integers, FiniteSets

CONSTANTS Targets,             \* numbered in the order of the record
          MaxRuns, MaxKills, MaxEdits


Absent == 0
Torn == -1
Hand == MaxRuns + 1            \* the content of a target that a person edited
Slots == {"target", "stage", "backup"}
Records == {"prepared", "bound", "committed"}

VARIABLES file,        \* [Targets -> [Slots -> content]]; run r installs content r
          quarantine,  \* [Targets -> [Slots -> none, empty or the content inside]]
          record,      \* [Records -> none, partial, live or retired]
          before,      \* pre-images in the records
          run,         \* number of the transaction on disk
          pc, todo,    \* the process and the entries it still has to treat
          failing,     \* an entry could not be treated
          staged, hollow, linked,   \* kills and errors that leave a dead end
          edits, kills

vars == <<file, quarantine, record, before, run, pc, todo, failing,
          staged, hollow, linked, edits, kills>>
dead == <<staged, hollow, linked>>

NoFile == -2                   \* no quarantine; Absent means an empty one

Init == /\ file = [t \in Targets |-> [s \in Slots |-> Absent]]
        /\ quarantine = [t \in Targets |-> [s \in Slots |-> NoFile]]
        /\ record = [r \in Records |-> "none"]
        /\ before = [t \in Targets |-> Absent]
        /\ run = 0 /\ pc = "idle" /\ todo = {} /\ failing = FALSE
        /\ staged = FALSE /\ hollow = FALSE /\ linked = FALSE
        /\ edits = 0 /\ kills = 0

Existed(t) == before[t] # Absent
After == run
Last == CHOOSE t \in todo : \A u \in todo : u <= t
First == CHOOSE t \in todo : \A u \in todo : t <= u
Goto(next, ts) == pc' = next /\ todo' = ts

----------------------------------------------------------------------------
(* The transaction.                                                         *)

\* A run starts by recovering what is there.
Start == /\ pc = "idle"
         /\ run < MaxRuns \/ \E r \in Records : record[r] # "none"
         /\ Goto("recover", {}) /\ failing' = FALSE
         /\ UNCHANGED <<file, quarantine, record, before, run, dead, edits, kills>>

\* Nothing to recover: the pre-images are captured and the record is written.
Prepare == /\ pc = "plan" /\ run < MaxRuns
           /\ \A t \in Targets : file[t].stage = Absent /\ file[t].backup = Absent
           /\ run' = run + 1
           /\ before' = [t \in Targets |-> file[t].target]
           /\ record' = [record EXCEPT !.prepared = "live"]
           /\ Goto("stage", Targets)
           /\ UNCHANGED <<file, quarantine, failing, dead, edits, kills>>

Stage == /\ pc = "stage" /\ todo # {}
         /\ file' = [file EXCEPT ![First].stage = After]
         /\ todo' = todo \ {First}
         /\ UNCHANGED <<quarantine, record, before, run, pc, failing, dead, edits, kills>>

\* Mutant of Bind: the record of the staged files is not written.
BindUnwritten == /\ pc = "stage" /\ todo = {}
                 /\ Goto("park", {t \in Targets : Existed(t)})
                 /\ UNCHANGED <<file, quarantine, record, before, run, failing, dead, edits, kills>>

Bind == /\ pc = "stage" /\ todo = {}
        /\ record' = [record EXCEPT !.bound = "live"]
        /\ Goto("park", {t \in Targets : Existed(t)})
        /\ UNCHANGED <<file, quarantine, before, run, failing, dead, edits, kills>>

\* A rename that finds no source, or its destination taken, starts the recovery.
Move(t, from, to) == file' = [file EXCEPT ![t][to] = file[t][from], ![t][from] = Absent]
Movable(t, from, to) == file[t][from] # Absent /\ file[t][to] = Absent

Park == /\ pc = "park" /\ todo # {}
        /\ IF Movable(First, "target", "backup")
           THEN Move(First, "target", "backup") /\ Goto("park", todo \ {First})
           ELSE UNCHANGED file /\ Goto("recover", {})
        /\ UNCHANGED <<quarantine, record, before, run, failing, dead, edits, kills>>

Install == /\ pc = "park" /\ todo = {} /\ Goto("install", Targets)
           /\ UNCHANGED <<file, quarantine, record, before, run, failing, dead, edits, kills>>

InstallOne == /\ pc = "install" /\ todo # {}
              /\ IF Movable(First, "stage", "target")
                 THEN Move(First, "stage", "target") /\ Goto("install", todo \ {First})
                 ELSE UNCHANGED file /\ Goto("recover", {})
              /\ UNCHANGED <<quarantine, record, before, run, failing, dead, edits, kills>>

Commit == /\ pc = "install" /\ todo = {}
          /\ record' = [record EXCEPT !.committed = "live"]
          /\ Goto("recover", {})
          /\ UNCHANGED <<file, quarantine, before, run, failing, dead, edits, kills>>

\* Staging reports an error and recovers at once.
StageFails == /\ pc = "stage" /\ kills < MaxKills /\ kills' = kills + 1
              /\ staged' = (staged \/ \E t \in Targets : file[t].stage # Absent)
              /\ Goto("recover", {})
              /\ UNCHANGED <<file, quarantine, record, before, run, failing, hollow, linked, edits>>

----------------------------------------------------------------------------
(* Recovery.                                                                *)

\* A partly written record is discarded first.
Settled == [r \in Records |-> IF record[r] = "partial" THEN "none" ELSE record[r]]

\* What recovery does follows from the records alone: retired ones say that
\* the targets are done, a committed one that the new targets stay.

\* Mutant of Decision: retired records are not told apart.
DecisionUnretired(rec) ==
    IF \A r \in Records : rec[r] = "none" THEN "plan"
    ELSE IF rec.committed = "live" THEN "finalize"
    ELSE IF rec.bound = "live" THEN "rollback"
    ELSE "unbound"

Decision(rec) ==
    IF \E r \in Records : rec[r] = "retired" THEN "retire"
    ELSE IF \A r \in Records : rec[r] = "none" THEN "plan"
    ELSE IF rec.committed = "live" THEN "finalize"
    ELSE IF rec.bound = "live" THEN "rollback"
    ELSE "unbound"

Recover == /\ pc = "recover"
           /\ record' = Settled
           /\ Goto(Decision(Settled), IF Decision(Settled) \in {"finalize", "rollback"} THEN Targets ELSE {})
           /\ failing' = FALSE
           /\ UNCHANGED <<file, quarantine, before, run, dead, edits, kills>>

\* Without the bound record nothing is removed: only an untouched directory
\* lets the transaction end.
Unbound == /\ pc = "unbound"
           /\ IF \A t \in Targets : /\ file[t].stage = Absent /\ file[t].backup = Absent
                                    /\ file[t].target = before[t]
              THEN Goto("retire", {})
              ELSE Goto("idle", {})
           /\ UNCHANGED <<file, quarantine, record, before, run, failing, dead, edits, kills>>

\* A quarantine left by a kill is finished when it holds the expected object.
QuarantineHolds(t, s, want) == quarantine[t][s] \in {NoFile, want}

\* Mutant of Removable: whatever has the name goes.
RemovableAny(t, s, want) == TRUE

\* A file is removed only when it is exactly the one the record names.
Removable(t, s, want) == file[t][s] \in {Absent, want}

\* One entry is rolled back: an installed target goes if it is the installed
\* one, the backup returns, and then the stage goes.
Restorable(t) == IF file[t].backup # Absent
                 THEN file[t].backup = before[t] /\ Removable(t, "target", After)
                 ELSE IF Existed(t) THEN file[t].target = before[t]
                 ELSE Removable(t, "target", After)

\* Mutant of Restored: a target that is new with the transaction stays.
RestoredNew(t) == IF Restorable(t) /\ Existed(t) THEN before[t] ELSE file[t].target

Restored(t) == IF ~Restorable(t) THEN file[t].target ELSE before[t]

\* An entry whose backup could not return keeps its stage.
Skipped(t) == file[t].backup # Absent /\ ~Restorable(t)

\* Mutant of StageGoes: a rollback forgets the staged file.
StageGoesNever(t) == FALSE

StageGoes(t) == ~Skipped(t) /\ QuarantineHolds(t, "stage", After) /\ Removable(t, "stage", After)

RolledBack(t) ==
    /\ file' = [file EXCEPT ![t].target = Restored(t),
                            ![t].backup = IF Restorable(t) THEN Absent ELSE @,
                            ![t].stage = IF StageGoes(t) THEN Absent ELSE @]
    /\ failing' = (failing \/ ~Restorable(t) \/ ~Removable(t, "stage", After))

Rollback ==
    /\ pc = "rollback" /\ todo # {}
    /\ IF QuarantineHolds(Last, "backup", before[Last]) /\ QuarantineHolds(Last, "target", After)
       THEN /\ RolledBack(Last)
            /\ quarantine' = [quarantine EXCEPT ![Last].backup = NoFile, ![Last].target = NoFile,
                                 ![Last].stage = IF StageGoes(Last) THEN NoFile ELSE @]
            /\ IF Skipped(Last) \/ QuarantineHolds(Last, "stage", After)
               THEN Goto("rollback", todo \ {Last})
               ELSE Goto("idle", {})
       ELSE /\ Goto("idle", {}) /\ UNCHANGED <<file, failing, quarantine>>
    /\ UNCHANGED <<record, before, run, dead, edits, kills>>

\* With the committed record the targets stay as they are, and the stage and
\* the backup go.
Finalize == /\ pc = "finalize" /\ todo # {}
            /\ IF /\ file[First].target # Absent
                  /\ QuarantineHolds(First, "stage", After) /\ QuarantineHolds(First, "backup", before[First])
                  /\ Removable(First, "stage", After) /\ Removable(First, "backup", before[First])
               THEN /\ file' = [file EXCEPT ![First].stage = Absent, ![First].backup = Absent]
                    /\ quarantine' = [quarantine EXCEPT ![First].stage = NoFile, ![First].backup = NoFile]
                    /\ Goto("finalize", todo \ {First})
               ELSE /\ Goto("idle", {}) /\ UNCHANGED <<file, quarantine>>
            /\ UNCHANGED <<record, before, run, failing, dead, edits, kills>>

Treated == /\ pc \in {"rollback", "finalize"} /\ todo = {}
           /\ Goto(IF failing THEN "idle" ELSE "retire", {})
           /\ UNCHANGED <<file, quarantine, record, before, run, failing, dead, edits, kills>>

\* The records are renamed to retired names and then removed one by one.
Retire == /\ pc = "retire"
          /\ record' = [r \in Records |-> "none"]
          /\ Goto("idle", {})
          /\ UNCHANGED <<file, quarantine, before, run, failing, dead, edits, kills>>

----------------------------------------------------------------------------
(* Kills.                                                                   *)

\* A record is written under another name first.
KilledWriting(r) == /\ record[r] = "none" /\ record' = [record EXCEPT ![r] = "partial"]
                    /\ UNCHANGED <<file, quarantine, before, run, hollow, linked>>

KilledRecord == \/ pc = "plan" /\ KilledWriting("prepared") /\ UNCHANGED staged
                \/ pc = "stage" /\ todo = {} /\ KilledWriting("bound") /\ staged' = TRUE
                \/ pc = "install" /\ todo = {} /\ KilledWriting("committed") /\ UNCHANGED staged

\* The removal of slot s of entry t: an empty quarantine before the move or
\* after the deletion, a full one in between, or the file gone.
KilledRemoval(t, s, f) ==
    /\ quarantine[t][s] = NoFile
    /\ \/ /\ quarantine' \in {[quarantine EXCEPT ![t][s] = f[t][s]], quarantine}
          /\ file' = [f EXCEPT ![t][s] = Absent]
          /\ UNCHANGED hollow
       \/ /\ quarantine' = [quarantine EXCEPT ![t][s] = Absent]
          /\ file' \in {f, [f EXCEPT ![t][s] = Absent]}
          /\ hollow' = TRUE

\* The backup is linked to the target's name, then removed.
KilledRestore(t) ==
    LET f == [file EXCEPT ![t].target = before[t]]
    IN  /\ file[t].backup = before[t] /\ Existed(t) /\ file[t].target \in {Absent, After}
        /\ \/ file' = f /\ linked' = TRUE /\ UNCHANGED <<quarantine, hollow>>
           \/ KilledRemoval(t, "backup", f) /\ UNCHANGED linked

KilledRollback ==
    /\ pc = "rollback" /\ todo # {}
    /\ QuarantineHolds(Last, "backup", before[Last]) /\ QuarantineHolds(Last, "target", After)
    /\ \/ /\ file[Last].target = After /\ Restorable(Last)
          /\ KilledRemoval(Last, "target", file) /\ UNCHANGED linked
       \/ KilledRestore(Last)
       \/ /\ file[Last].stage = After /\ Restorable(Last)
          /\ KilledRemoval(Last, "stage", [file EXCEPT ![Last].target = before[Last], ![Last].backup = Absent])
          /\ UNCHANGED linked
    /\ UNCHANGED <<record, before, run, staged>>

KilledFinalize == /\ pc = "finalize" /\ todo # {} /\ file[First].target # Absent
                  /\ QuarantineHolds(First, "stage", After) /\ QuarantineHolds(First, "backup", before[First])
                  /\ file[First].backup # Absent /\ file[First].backup = before[First]
                  /\ KilledRemoval(First, "backup", file)
                  /\ UNCHANGED <<record, before, run, staged, linked>>

\* The first records are retired, or the first retired ones are gone.
Rank(r) == CASE r = "prepared" -> 1 [] r = "bound" -> 2 [] r = "committed" -> 3
KilledRetire == /\ pc = "retire"
                /\ \E k \in 0 .. 3 :
                      record' \in {[r \in Records |-> IF record[r] = "none" \/ Rank(r) > k THEN record[r] ELSE "retired"],
                                   [r \in Records |-> IF record[r] = "none" \/ Rank(r) <= k THEN "none" ELSE "retired"]}
                /\ UNCHANGED <<file, quarantine, before, run, dead>>

\* A staged file is torn.
KilledStage == /\ pc = "stage" /\ todo # {}
               /\ file' = [file EXCEPT ![First].stage = Torn]
               /\ staged' = TRUE
               /\ UNCHANGED <<quarantine, record, before, run, hollow, linked>>

KilledBetween == /\ staged' = (staged \/ (pc = "stage" /\ \E t \in Targets : file[t].stage # Absent))
                 /\ UNCHANGED <<file, quarantine, record, before, run, hollow, linked>>

Kill == /\ pc # "idle" /\ kills < MaxKills /\ kills' = kills + 1
        /\ \/ KilledRecord \/ KilledStage \/ KilledRollback \/ KilledFinalize
           \/ KilledRetire \/ KilledBetween
        /\ Goto("idle", {})
        /\ UNCHANGED <<failing, edits>>

\* A person saves a target.
Edit(t) == /\ edits < MaxEdits /\ edits' = edits + 1
           /\ file' = [file EXCEPT ![t].target = Hand]
           /\ UNCHANGED <<quarantine, record, before, run, pc, todo, failing, dead, kills>>

Work == \/ Prepare \/ Stage \/ Bind \/ Park \/ Install \/ InstallOne \/ Commit
        \/ Recover \/ Unbound \/ Rollback \/ Finalize \/ Treated \/ Retire

Next == Start \/ Work \/ StageFails \/ Kill \/ \E t \in Targets : Edit(t)

Spec == Init /\ [][Next]_vars
FairSpec == Spec /\ WF_vars(Start) /\ WF_vars(Work)

----------------------------------------------------------------------------
Contents == -1 .. Hand
Clean == \A r \in Records : record[r] = "none"

\* Types of the files, quarantines, records and the process.
TypeOK == /\ file \in [Targets -> [Slots -> Contents]]
          /\ quarantine \in [Targets -> [Slots -> Contents \cup {NoFile}]]
          /\ record \in [Records -> {"none", "partial", "live", "retired"}]
          /\ before \in [Targets -> Contents]
          /\ todo \subseteq Targets
          /\ record.committed = "live" => record.bound # "none"

\* Without a record on disk the targets nobody edited are all of one run: a
\* transaction is applied whole or not at all, whatever was killed
\* (commitProjectionPlansRoot, recoverProjectionTransactionRootWithHooks).
AllOrNothing ==
    (Clean /\ pc \in {"idle", "plan"}) =>
        \A t, u \in Targets : (file[t].target # Hand /\ file[u].target # Hand) => file[t].target = file[u].target

\* What a person saved stays on disk under one of the three names or in a
\* quarantine until the person saves again (renameProjectionPathRoot,
\* removeProjectionFileIfMatch).
Saved(t) == Hand \in {file[t][s] : s \in Slots} \cup {quarantine[t][s] : s \in Slots}
HandKept == \A t \in Targets : (Saved(t) /\ before[t] # Hand) => Saved(t)'

\* A transaction that ended leaves no stage, no backup and no quarantine, so
\* that the next one finds its names free (commitProjectionPlansRoot).
NothingLeft ==
    (Clean /\ pc = "idle") =>
        \A t \in Targets : /\ file[t].stage = Absent /\ file[t].backup = Absent
                            /\ \A s \in Slots : quarantine[t][s] = NoFile

\* Running the writer again ends an interrupted transaction, except after an
\* edit and after one of three leftovers: a staged file without a bound
\* record, an empty quarantine of a file, and a backup already linked back.
RerunReached == Clean \/ staged \/ hollow \/ linked \/ edits > 0

\* What the reader's guidance says: rerunning the interrupted writer recovers.
StagedEnds == []<>(Clean \/ hollow \/ linked \/ edits > 0)

\* What the comment on FinishEmpty says, for the quarantines of files.
HollowEnds == []<>(Clean \/ staged \/ linked \/ edits > 0)

\* What the recovery test says: every durable phase is recovered.
LinkedEnds == []<>(Clean \/ staged \/ hollow \/ edits > 0)
=============================================================================
