---------------------------- MODULE ArtifactSet ----------------------------
(***************************************************************************)
(* The crash-recoverable file-set transaction of internal/artifactset: one *)
(* call recovers whatever an earlier call left in the directory, stages    *)
(* the new files, journals them, parks the old ones, installs the new      *)
(* ones, commits the journal and cleans up.                                *)
(*                                                                         *)
(* An advisory lock serialises the calls, so one call runs at a time; it   *)
(* may die between any two file-system operations, and every operation is  *)
(* followed by an fsync of its directory, so what it did is on disk.  A    *)
(* person may replace a target at any moment: the lock does not bind them. *)
(*                                                                         *)
(* A file is represented by a number that stands for its content and its   *)
(* native identity together.  Items are numbered in journal order.         *)
(***************************************************************************)
EXTENDS Naturals, Sequences, FiniteSets

CONSTANTS
    N,             \* number of target names
    MaxTx,         \* bound on the transactions that stage something
    MaxEdits,      \* bound on the files a person writes
    RenameTouches  \* does a rename change the ctime of the file it moves?


Items == 1..N

\* File objects: the one there at first, one per transaction, one per edit.
Absent == 0
Original == 1
Staged(t) == 1 + t
Edited(e) == 1 + MaxTx + e
IsEdit(c) == c > 1 + MaxTx
Content == 0..(1 + MaxTx + MaxEdits)

\* The names the transaction uses: three per item and the journal stage.
Target(i) == <<"target", i>>
Temp(i)   == <<"temp", i>>
Backup(i) == <<"backup", i>>
Stage     == <<"stage", 0>>
Slots == ({"target", "temp", "backup"} \X Items) \cup {Stage}

VARIABLES
    files,    \* what each name holds
    moved,    \* items whose staged file changed its ctime since journaling
    dirs,     \* names that have an object-quarantine directory
    held,     \* the object in that directory
    journal,  \* the journal file: which of its three names, which phase
    updating, \* journal-update quarantine: "none", "empty" or "full"
    retiring, \* completed-journal quarantine: "none", "empty" or "full"
    plan,     \* journal items: what was staged, parked and inspected
    decided,  \* has the committed journal of the last plan been installed?
    tx,       \* transactions staged so far
    edits,    \* files a person wrote so far
    pc,       \* what the call does next
    mode,     \* why it settles a journal: "recover", "fail" or "commit"
    item,     \* loop variable of staging, parking and installing
    work,     \* removals and restores still to do
    request,  \* what the caller asked for, per item
    outcome   \* what the last call returned

diskVars == <<files, moved, dirs, held, journal, updating, retiring>>
callVars == <<mode, item, work, request>>
vars == <<diskVars, plan, decided, tx, edits, pc, callVars, outcome>>

Requests == [act : {"skip", "write", "delete"}, guard : BOOLEAN,
             inspected : Content]
PlanItems == [act : {"skip", "write", "delete"}, old : Content,
              guard : BOOLEAN, inspected : Content]

NoRequest == [act |-> "skip", guard |-> FALSE, inspected |-> Absent]
NoItem == [act |-> "skip", old |-> Absent, guard |-> FALSE,
           inspected |-> Absent]

Exists(s) == files[s] # Absent
Journaled(i) == plan[i].act # "skip"
HadOld(i) == plan[i].old # Absent
New == Staged(tx)

\* What a target holds when the journaled transaction is complete.
Want(i) == IF plan[i].act = "delete" THEN Absent ELSE New

---------------------------------------------------------------------------
(* Control.                                                                *)

Goto(label) == pc' = label

Return(result) ==
    /\ pc' = "idle"
    /\ outcome' = result
    /\ mode' = "recover"
    /\ item' = 1
    /\ work' = <<>>
    /\ request' = [i \in Items |-> NoRequest]

\* The call dies, or an error returns it without another change on disk.
Stop(result) ==
    /\ Return(result)
    /\ UNCHANGED <<diskVars, plan, decided, tx, edits>>

\* A caller inspects its targets, perhaps binds the existing ones to what it
\* saw, and calls; an empty request only recovers.
Call ==
    /\ pc = "idle"
    /\ Goto("recoverUpdate")
    /\ \E act \in [Items -> {"skip", "write", "delete"}], bind \in BOOLEAN :
        /\ tx < MaxTx \/ \A i \in Items : act[i] = "skip"
        /\ request' = [i \in Items |->
               [act |-> act[i],
                guard |-> bind /\ act[i] # "skip" /\ Exists(Target(i)),
                inspected |-> IF bind /\ act[i] # "skip"
                                  THEN files[Target(i)] ELSE Absent]]
    /\ outcome' = "none"
    /\ UNCHANGED <<diskVars, plan, decided, tx, edits, mode, item, work>>

\* The loops over journal items.
NextItem(label, after) ==
    /\ item' = (IF item < N THEN item + 1 ELSE 1)
    /\ Goto(IF item < N THEN label ELSE after)

---------------------------------------------------------------------------
(* txRemoveSnapshot: a removal is four file-system operations.  The work   *)
(* list holds the name, the step it is at and the object it may delete.    *)

Removal(s) == [op |-> "mkdir", slot |-> s, object |-> files[s]]
Restore(i) == [op |-> "restore", slot |-> Backup(i),
               object |-> files[Backup(i)]]

Job == Head(work)
Advance(step) == work' = <<[Job EXCEPT !.op = step]>> \o Tail(work)

Working == work # <<>>

\* Mutant of MakeQuarantine: moves the object to a directory nobody made.
MakeQuarantineSkipped ==
    /\ Working
    /\ Job.op = "mkdir"
    /\ files[Job.slot] = Job.object
    /\ Advance("move")
    /\ UNCHANGED <<diskVars, plan, decided, tx, edits, pc, mode, item, request,
                   outcome>>

\* The object at the name is still the one that was bound, and a private
\* directory is made for it.
MakeQuarantine ==
    /\ Working
    /\ Job.op = "mkdir"
    /\ files[Job.slot] = Job.object
    /\ dirs' = dirs \cup {Job.slot}
    /\ Advance("move")
    /\ UNCHANGED <<files, moved, held, journal, updating, retiring, plan, decided, tx,
                   edits, pc, mode, item, request, outcome>>

\* Whatever the name holds by now is moved into it.
MoveObject ==
    /\ Working
    /\ Job.op = "move"
    /\ held' = [held EXCEPT ![Job.slot] = files[Job.slot]]
    /\ files' = [files EXCEPT ![Job.slot] = Absent]
    /\ Advance("delete")
    /\ UNCHANGED <<moved, dirs, journal, updating, retiring, plan, decided, tx,
                   edits, pc, mode, item, request, outcome>>

\* It is deleted only if it is the bound object.
DeleteObject ==
    /\ Working
    /\ Job.op = "delete"
    /\ held[Job.slot] = Job.object
    /\ held' = [held EXCEPT ![Job.slot] = Absent]
    /\ moved' = IF Job.slot[1] = "temp" THEN moved \ {Job.slot[2]} ELSE moved
    /\ Advance("retire")
    /\ UNCHANGED <<files, dirs, journal, updating, retiring, plan, decided, tx,
                   edits, pc, mode, item, request, outcome>>

RetireQuarantine ==
    /\ Working
    /\ Job.op = "retire"
    /\ dirs' = dirs \ {Job.slot}
    /\ work' = Tail(work)
    /\ UNCHANGED <<files, moved, held, journal, updating, retiring, plan, decided, tx,
                   edits, pc, mode, item, request, outcome>>

\* txRenameSnapshots: a parked file goes back to its target, unless either
\* name changed.
RestoreOld ==
    /\ Working
    /\ Job.op = "restore"
    /\ LET i == Job.slot[2] IN
        /\ files[Backup(i)] = Job.object
        /\ ~Exists(Target(i))
        /\ files' = [files EXCEPT ![Target(i)] = Job.object,
                                  ![Backup(i)] = Absent]
    /\ work' = Tail(work)
    /\ UNCHANGED <<moved, dirs, held, journal, updating, retiring, plan, decided, tx,
                   edits, pc, mode, item, request, outcome>>

\* An object or a name is not the bound one: the error leaves both alone.
Mismatch ==
    /\ Working
    /\ CASE Job.op = "mkdir" -> files[Job.slot] # Job.object
         [] Job.op = "delete" -> held[Job.slot] # Job.object
         [] Job.op = "restore" -> \/ files[Job.slot] # Job.object
                                  \/ Exists(Target(Job.slot[2]))
         [] OTHER -> FALSE
    /\ Stop("conflict")

Remove ==
    \/ MakeQuarantine \/ MoveObject \/ DeleteObject \/ RetireQuarantine
    \/ RestoreOld \/ Mismatch

---------------------------------------------------------------------------
(* txRecover.                                                              *)

\* txRecoverJournalUpdate: an isolated prepared journal goes back when no
\* journal is there, and is retired when the committed one is.
ResumeUpdate ==
    /\ pc = "recoverUpdate"
    /\ updating = "full"
    /\ journal.name \in {"none", "journal"}
    /\ updating' = "empty"
    /\ journal' = IF journal.name = "none"
                      THEN [name |-> "journal", phase |-> "prepared"]
                      ELSE journal
    /\ Goto("retireUpdate")
    /\ UNCHANGED <<files, moved, dirs, held, retiring, plan, decided, tx, edits,
                   callVars, outcome>>

\* Its directory found empty: only a committed journal explains that.
ResumeEmptyUpdate ==
    /\ pc = "recoverUpdate"
    /\ updating = "empty"
    /\ journal = [name |-> "journal", phase |-> "committed"]
    /\ updating' = "none"
    /\ Goto("recoverObjects")
    /\ UNCHANGED <<files, moved, dirs, held, journal, retiring, plan, decided,
                   tx, edits, callVars, outcome>>

RetireUpdate ==
    /\ pc = "retireUpdate"
    /\ updating' = "none"
    /\ Goto("recoverObjects")
    /\ UNCHANGED <<files, moved, dirs, held, journal, retiring, plan, decided,
                   tx, edits, callVars, outcome>>

NoUpdate ==
    /\ pc = "recoverUpdate"
    /\ updating = "none"
    /\ Goto("recoverObjects")
    /\ UNCHANGED <<diskVars, plan, decided, tx, edits, callVars, outcome>>

UpdateUnexplained ==
    /\ pc = "recoverUpdate"
    /\ \/ updating = "full" /\ journal.name \in {"recovery", "retired"}
       \/ /\ updating = "empty"
          /\ journal # [name |-> "journal", phase |-> "committed"]
    /\ Stop("stuck")

\* txRestoreObjectQuarantine: an empty directory is removed, an object goes
\* back to its name; what goes back has been through two renames.
RestoreObject ==
    /\ pc = "recoverObjects"
    /\ \E s \in dirs :
        \/ /\ held[s] = Absent
           /\ dirs' = dirs \ {s}
           /\ UNCHANGED <<files, held, moved>>
        \/ /\ held[s] # Absent
           /\ ~Exists(s)
           /\ files' = [files EXCEPT ![s] = held[s]]
           /\ held' = [held EXCEPT ![s] = Absent]
           /\ moved' = IF RenameTouches /\ s[1] = "temp"
                           THEN moved \cup {s[2]} ELSE moved
           /\ UNCHANGED dirs
    /\ UNCHANGED <<journal, updating, retiring, plan, decided, tx, edits, pc,
                   callVars, outcome>>

ObjectRepopulated ==
    /\ pc = "recoverObjects"
    /\ \E s \in dirs : held[s] # Absent /\ Exists(s)
    /\ Stop("conflict")

ObjectsRestored ==
    /\ pc = "recoverObjects"
    /\ dirs = {}
    /\ Goto("recoverRetired")
    /\ UNCHANGED <<diskVars, plan, decided, tx, edits, callVars, outcome>>

\* A completed journal in quarantine is deleted, unless anything else of a
\* transaction is there; then its directory is removed.
ResumeRetired ==
    /\ pc = "recoverRetired"
    /\ \/ /\ retiring = "full"
          /\ journal.name = "none"
          /\ \A i \in Items : ~Exists(Temp(i)) /\ ~Exists(Backup(i))
          /\ ~Exists(Stage)
          /\ retiring' = "empty"
          /\ UNCHANGED pc
       \/ /\ retiring \in {"none", "empty"}
          /\ retiring' = "none"
          /\ Goto("authority")
    /\ UNCHANGED <<files, moved, dirs, held, journal, updating, plan, decided,
                   tx, edits, callVars, outcome>>

RetiredUnexplained ==
    /\ pc = "recoverRetired"
    /\ retiring = "full"
    /\ \/ journal.name # "none"
       \/ \E i \in Items : Exists(Temp(i)) \/ Exists(Backup(i))
       \/ Exists(Stage)
    /\ Stop("stuck")

\* The removals of those of the given names that exist, in that order.
Removals(names) ==
    LET all == [k \in DOMAIN names |-> Removal(names[k])]
        present(job) == job.object # Absent
    IN SelectSeq(all, present)

TempNames == [i \in Items |-> Temp(i)]

\* Without a journal only staged files may be there, and they are removed.
\* (A parked file without a journal is an error in the code; it never
\* happens, or the model would deadlock here.)
NoAuthority ==
    /\ pc = "authority"
    /\ journal.name = "none"
    /\ \A i \in Items : ~Exists(Backup(i))
    /\ work' = Removals(Append(TempNames, Stage))
    /\ Goto("orphans")
    /\ UNCHANGED <<diskVars, plan, decided, tx, edits, mode, item, request,
                   outcome>>

Authority ==
    /\ pc = "authority"
    /\ journal.name # "none"
    /\ mode' = "recover"
    /\ Goto("isolate")
    /\ UNCHANGED <<diskVars, plan, decided, tx, edits, item, work, request,
                   outcome>>

OrphansRemoved ==
    /\ pc = "orphans"
    /\ ~Working
    /\ Goto("validate")
    /\ UNCHANGED <<diskVars, plan, decided, tx, edits, callVars, outcome>>

---------------------------------------------------------------------------
(* Settling a journal: isolate it, check every item, roll back or finalize *)
(* by its phase, and retire it.                                            *)

\* txBeginJournalAuthority.
Isolate ==
    /\ pc = "isolate"
    /\ journal.name # "none"
    /\ journal' = [journal EXCEPT !.name = IF journal.name = "journal"
                                               THEN "recovery"
                                               ELSE journal.name]
    /\ Goto("preflight")
    /\ UNCHANGED <<files, moved, dirs, held, updating, retiring, plan, decided,
                   tx, edits, callVars, outcome>>

\* Mutant of ValidState: forgets that rollback removes an installed target
\* before it restores the parked one.
ValidStateForward(i) ==
    LET target == files[Target(i)]
        temp == files[Temp(i)]
        backup == files[Backup(i)]
        old == plan[i].old
    IN
    IF journal.phase = "committed"
        THEN target = Want(i) /\ temp = Absent
        ELSE \/ target = old /\ temp = New /\ backup = Absent
             \/ target = Absent /\ temp = New /\ backup = old
             \/ target = Want(i) /\ temp = Absent /\ backup = old

\* txValidState with the identity checks of txValidateDurableItemWitness.
ValidState(i) ==
    LET target == files[Target(i)]
        temp == files[Temp(i)]
        backup == files[Backup(i)]
        old == plan[i].old
    IN
    /\ temp # Absent => temp = New /\ i \notin moved
    /\ backup # Absent => backup = old
    /\ CASE journal.phase = "committed" ->
                target = Want(i) /\ temp = Absent
         [] journal.phase = "prepared" /\ plan[i].act = "delete" ->
                \/ target = old /\ backup = Absent
                \/ target = Absent /\ backup = old
         [] journal.phase = "prepared" /\ plan[i].act = "write" /\ HadOld(i) ->
                \/ target = old /\ backup = Absent
                \/ target = Absent /\ backup = old
                \/ target = New /\ temp = Absent /\ backup = old
         [] OTHER ->
                \/ target = Absent /\ backup = Absent
                \/ target = New /\ temp = Absent /\ backup = Absent

\* Mutant of RollbackJobs: leaves the parked file of a target that is gone.
RollbackJobsPartial(i) ==
    (IF Exists(Target(i)) /\ (HadOld(i) => Exists(Backup(i)))
         THEN <<Removal(Target(i))>> \o
              (IF HadOld(i) THEN <<Restore(i)>> ELSE <<>>)
         ELSE <<>>)
    \o (IF Exists(Temp(i)) THEN <<Removal(Temp(i))>> ELSE <<>>)

\* txRollback, one item: remove what was installed, restore what was parked,
\* remove what is still staged.
RollbackJobs(i) ==
    (IF Exists(Target(i)) /\ (HadOld(i) => Exists(Backup(i)))
         THEN <<Removal(Target(i))>> ELSE <<>>)
    \o (IF Exists(Backup(i)) THEN <<Restore(i)>> ELSE <<>>)
    \o (IF Exists(Temp(i)) THEN <<Removal(Temp(i))>> ELSE <<>>)

\* The items of the journal, last one first.
Rollback ==
    LET jobs[k \in 0..N] ==
            IF k = 0 THEN <<>>
            ELSE (IF Journaled(k) THEN RollbackJobs(k) ELSE <<>>) \o jobs[k - 1]
    IN jobs[N]

\* Mutant of Finalize: forgets the parked files.
FinalizeNothing == <<>>

\* txFinalize: the parked files go.
Finalize == Removals([i \in Items |-> Backup(i)])

\* txPreflight, and then txFinish's removal of a leftover journal stage.
Preflight ==
    /\ pc = "preflight"
    /\ \A i \in Items : Journaled(i) => ValidState(i)
    /\ work' = (IF journal.phase = "prepared" THEN Rollback ELSE Finalize)
               \o Removals(<<Stage>>)
    /\ Goto("settle")
    /\ UNCHANGED <<diskVars, plan, decided, tx, edits, mode, item, request,
                   outcome>>

\* An item is in no state the journal's phase explains.
Ambiguous ==
    /\ pc = "preflight"
    /\ \E i \in Items : Journaled(i) /\ ~ValidState(i)
    /\ Stop("ambiguous")

\* The failed update left the prepared journal in its quarantine.
AuthorityLost ==
    /\ pc = "isolate"
    /\ journal.name = "none"
    /\ Stop("failed")

RetireJournal ==
    /\ pc = "settle"
    /\ ~Working
    /\ journal' = [journal EXCEPT !.name = "retired"]
    /\ Goto("retireMkdir")
    /\ UNCHANGED <<files, moved, dirs, held, updating, retiring, plan, decided,
                   tx, edits, callVars, outcome>>

\* txQuarantineAndRemoveJournal.
RetireMkdir ==
    /\ pc = "retireMkdir"
    /\ retiring' = "empty"
    /\ Goto("retireMove")
    /\ UNCHANGED <<files, moved, dirs, held, journal, updating, plan, decided,
                   tx, edits, callVars, outcome>>

RetireMove ==
    /\ pc = "retireMove"
    /\ retiring' = "full"
    /\ journal' = [name |-> "none", phase |-> journal.phase]
    /\ Goto("retireDelete")
    /\ UNCHANGED <<files, moved, dirs, held, updating, plan, decided, tx, edits,
                   callVars, outcome>>

RetireDelete ==
    /\ pc = "retireDelete"
    /\ retiring' = "empty"
    /\ Goto("retired")
    /\ UNCHANGED <<files, moved, dirs, held, journal, updating, plan, decided,
                   tx, edits, callVars, outcome>>

\* The recovered call goes on with its own request, the others return.
Retired ==
    /\ pc = "retired"
    /\ retiring' = "none"
    /\ \/ /\ mode = "recover"
          /\ Goto("validate")
          /\ UNCHANGED <<callVars, outcome>>
       \/ mode = "fail" /\ Return("failed")
       \/ mode = "commit" /\ Return("ok")
    /\ UNCHANGED <<files, moved, dirs, held, journal, updating, plan, decided,
                   tx, edits>>

---------------------------------------------------------------------------
(* txReconcilePlannedOpened.                                               *)

\* Deleting what is not there is dropped from the request.
Effective(i) ==
    /\ request[i].act # "skip"
    /\ request[i].act = "delete" => Exists(Target(i))

\* Inspected targets must still be what the caller saw.
Guarded(i) == request[i].guard => files[Target(i)] = request[i].inspected

Validate ==
    /\ pc = "validate"
    /\ \A i \in Items : Guarded(i)
    /\ \/ /\ \E i \in Items : Effective(i)
          /\ tx < MaxTx
          /\ tx' = tx + 1
          /\ request' = [i \in Items |-> IF Effective(i) THEN request[i]
                                                         ELSE NoRequest]
          /\ plan' = [i \in Items |-> NoItem]
          /\ decided' = FALSE
          /\ Goto("stage")
          /\ UNCHANGED <<mode, item, work, outcome>>
       \/ /\ \A i \in Items : ~Effective(i)
          /\ Return("nothing")
          /\ UNCHANGED <<plan, decided, tx>>
    /\ UNCHANGED <<diskVars, edits>>

Refuse ==
    /\ pc = "validate"
    /\ \E i \in Items : ~Guarded(i)
    /\ Stop("refused")

\* txStageItem records what the target holds and writes the staged file.
StageItem ==
    /\ pc = "stage"
    /\ IF request[item].act = "skip"
           THEN UNCHANGED <<files, plan>>
           ELSE /\ files' = [files EXCEPT ![Temp(item)] = New]
                /\ plan' = [plan EXCEPT ![item] =
                       [act |-> request[item].act,
                        old |-> files[Target(item)],
                        guard |-> request[item].guard,
                        inspected |-> request[item].inspected]]
    /\ NextItem("stage", "journalStage")
    /\ UNCHANGED <<moved, dirs, held, journal, updating, retiring, decided, tx,
                   edits, mode, work, request, outcome>>

\* txPersistJournal writes the journal to its stage ...
StageJournal(label, after) ==
    /\ pc = label
    /\ files' = [files EXCEPT ![Stage] = New]
    /\ Goto(after)
    /\ UNCHANGED <<moved, dirs, held, journal, updating, retiring, plan, decided,
                   tx, edits, callVars, outcome>>

\* ... and renames it into place.
InstallPrepared ==
    /\ pc = "journalInstall"
    /\ files' = [files EXCEPT ![Stage] = Absent]
    /\ journal' = [name |-> "journal", phase |-> "prepared"]
    /\ Goto("park")
    /\ UNCHANGED <<moved, dirs, held, updating, retiring, plan, decided, tx,
                   edits, callVars, outcome>>

\* An error before the journal is in place removes what was staged.
Unstage ==
    /\ pc \in {"stage", "journalStage", "journalInstall"}
    /\ work' = Removals(<<Stage>> \o TempNames)
    /\ Goto("unstage")
    /\ UNCHANGED <<diskVars, plan, decided, tx, edits, mode, item, request,
                   outcome>>

Unstaged ==
    /\ pc = "unstage"
    /\ ~Working
    /\ Stop("failed")

\* Mutant of Park: the parked file is not compared with the inspected one.
ParkUnverified ==
    /\ pc = "park"
    /\ IF HadOld(item)
           THEN files' = [files EXCEPT ![Backup(item)] = files[Target(item)],
                                       ![Target(item)] = Absent]
           ELSE UNCHANGED files
    /\ NextItem("park", "install")
    /\ UNCHANGED <<moved, dirs, held, journal, updating, retiring, plan, decided,
                   tx, edits, mode, work, request, outcome>>

\* Old targets are renamed to their backup names; a parked file that is not
\* the inspected one fails the transaction.
Park ==
    /\ pc = "park"
    /\ IF HadOld(item)
           THEN files' = [files EXCEPT ![Backup(item)] = files[Target(item)],
                                       ![Target(item)] = Absent]
           ELSE UNCHANGED files
    /\ IF plan[item].guard /\ files[Target(item)] # plan[item].inspected
           THEN mode' = "fail" /\ item' = 1 /\ Goto("isolate")
           ELSE NextItem("park", "install") /\ UNCHANGED mode
    /\ UNCHANGED <<moved, dirs, held, journal, updating, retiring, plan, decided,
                   tx, edits, work, request, outcome>>

\* A staged file is renamed to its target, which must be free; a deletion
\* removes its staged marker instead.
Install ==
    /\ pc = "install"
    /\ ~Working
    /\ \/ /\ plan[item].act = "write"
          /\ ~Exists(Target(item))
          /\ files' = [files EXCEPT ![Target(item)] = files[Temp(item)],
                                    ![Temp(item)] = Absent]
          /\ NextItem("install", "commitStage")
          /\ UNCHANGED work
       \/ /\ plan[item].act = "delete" /\ Exists(Temp(item))
          /\ work' = <<Removal(Temp(item))>>
          /\ UNCHANGED <<files, item, pc>>
       \/ /\ \/ plan[item].act = "skip"
             \/ plan[item].act = "delete" /\ ~Exists(Temp(item))
          /\ NextItem("install", "commitStage")
          /\ UNCHANGED <<files, work>>
    /\ UNCHANGED <<moved, dirs, held, journal, updating, retiring, plan, decided,
                   tx, edits, mode, request, outcome>>

\* failPrepared: any error before the committed journal rolls back.
FailPrepared ==
    /\ pc \in {"park", "install", "commitStage"}
    /\ mode' = "fail"
    /\ item' = 1
    /\ work' = <<>>
    /\ Goto("isolate")
    /\ UNCHANGED <<diskVars, plan, decided, tx, edits, request, outcome>>

\* txPersistJournal of the committed journal isolates the prepared one ...
IsolatePreparedMkdir ==
    /\ pc = "updateMkdir"
    /\ updating' = "empty"
    /\ Goto("updateMove")
    /\ UNCHANGED <<files, moved, dirs, held, journal, retiring, plan, decided,
                   tx, edits, callVars, outcome>>

IsolatePrepared ==
    /\ pc = "updateMove"
    /\ updating' = "full"
    /\ journal' = [journal EXCEPT !.name = "none"]
    /\ Goto("updateInstall")
    /\ UNCHANGED <<files, moved, dirs, held, retiring, plan, decided, tx, edits,
                   callVars, outcome>>

\* ... installs the committed one: from here on the transaction is decided ...
InstallCommitted ==
    /\ pc = "updateInstall"
    /\ files' = [files EXCEPT ![Stage] = Absent]
    /\ journal' = [name |-> "journal", phase |-> "committed"]
    /\ decided' = TRUE
    /\ Goto("updateDelete")
    /\ UNCHANGED <<moved, dirs, held, updating, retiring, plan, tx, edits,
                   callVars, outcome>>

\* ... and deletes the prepared one.
DeletePrepared ==
    /\ pc = "updateDelete"
    /\ updating' = "empty"
    /\ Goto("updateRetire")
    /\ UNCHANGED <<files, moved, dirs, held, journal, retiring, plan, decided,
                   tx, edits, callVars, outcome>>

Committed ==
    /\ pc = "updateRetire"
    /\ updating' = "none"
    /\ mode' = "commit"
    /\ Goto("isolate")
    /\ UNCHANGED <<files, moved, dirs, held, journal, retiring, plan, decided,
                   tx, edits, item, work, request, outcome>>

\* An error before the committed journal is in place puts the prepared one
\* back, removes the journal stage and rolls back.
UndoUpdate ==
    /\ pc \in {"updateMkdir", "updateMove", "updateInstall"}
    /\ updating' = IF updating = "full" THEN "empty" ELSE updating
    /\ journal' = [name |-> "journal", phase |-> "prepared"]
    /\ Goto("undoRetire")
    /\ UNCHANGED <<files, moved, dirs, held, retiring, plan, decided, tx, edits,
                   callVars, outcome>>

UndoRetire ==
    /\ pc = "undoRetire"
    /\ updating' = "none"
    /\ work' = Removals(<<Stage>>)
    /\ Goto("abandon")
    /\ UNCHANGED <<files, moved, dirs, held, journal, retiring, plan, decided,
                   tx, edits, mode, item, request, outcome>>

\* When the fsync after the isolation fails, the prepared journal stays there.
LeaveIsolated ==
    /\ pc = "updateInstall"
    /\ work' = Removals(<<Stage>>)
    /\ Goto("abandon")
    /\ UNCHANGED <<diskVars, plan, decided, tx, edits, mode, item, request,
                   outcome>>

Abandoned ==
    /\ pc = "abandon"
    /\ ~Working
    /\ mode' = "fail"
    /\ Goto("isolate")
    /\ UNCHANGED <<diskVars, plan, decided, tx, edits, item, work, request,
                   outcome>>

---------------------------------------------------------------------------
(* The environment.                                                        *)

\* The process dies, or an error the code does not clean up after returns.
Crash ==
    /\ pc # "idle"
    /\ Stop("crashed")

\* A person saves a file over a target.
Edit ==
    /\ edits < MaxEdits
    /\ edits' = edits + 1
    /\ \E i \in Items :
           files' = [files EXCEPT ![Target(i)] = Edited(edits + 1)]
    /\ UNCHANGED <<moved, dirs, held, journal, updating, retiring, plan, decided,
                   tx, pc, callVars, outcome>>

Init ==
    /\ \E there \in SUBSET Items :
           files = [s \in Slots |-> IF s[1] = "target" /\ s[2] \in there
                                        THEN Original ELSE Absent]
    /\ moved = {}
    /\ dirs = {}
    /\ held = [s \in Slots |-> Absent]
    /\ journal = [name |-> "none", phase |-> "prepared"]
    /\ updating = "none"
    /\ retiring = "none"
    /\ plan = [i \in Items |-> NoItem]
    /\ decided = FALSE
    /\ tx = 0
    /\ edits = 0
    /\ pc = "idle"
    /\ mode = "recover"
    /\ item = 1
    /\ work = <<>>
    /\ request = [i \in Items |-> NoRequest]
    /\ outcome = "none"

Recover ==
    \/ NoUpdate \/ ResumeUpdate \/ ResumeEmptyUpdate \/ RetireUpdate
    \/ UpdateUnexplained \/ RestoreObject \/ ObjectRepopulated
    \/ ObjectsRestored \/ ResumeRetired \/ RetiredUnexplained \/ NoAuthority
    \/ Authority \/ OrphansRemoved

Settle ==
    \/ Isolate \/ AuthorityLost \/ Preflight \/ Ambiguous \/ RetireJournal
    \/ RetireMkdir \/ RetireMove \/ RetireDelete \/ Retired

Transact ==
    \/ Validate \/ Refuse \/ StageItem
    \/ StageJournal("journalStage", "journalInstall") \/ InstallPrepared
    \/ Unstage \/ Unstaged \/ Park \/ Install \/ FailPrepared
    \/ StageJournal("commitStage", "updateMkdir") \/ IsolatePreparedMkdir
    \/ IsolatePrepared \/ InstallCommitted \/ DeletePrepared \/ Committed
    \/ UndoUpdate \/ UndoRetire \/ LeaveIsolated \/ Abandoned

Next == Call \/ Recover \/ Settle \/ Transact \/ Remove \/ Crash \/ Edit

Spec == Init /\ [][Next]_vars

---------------------------------------------------------------------------
(* Properties.                                                             *)

Labels == {"idle", "recoverUpdate", "retireUpdate", "recoverObjects",
           "recoverRetired", "authority", "orphans", "isolate", "preflight",
           "settle", "retireMkdir", "retireMove", "retireDelete", "retired",
           "validate", "stage", "journalStage", "journalInstall", "unstage",
           "park", "install", "commitStage", "updateMkdir", "updateMove",
           "updateInstall", "updateDelete", "updateRetire", "undoRetire",
           "abandon"}

Jobs == [op : {"mkdir", "move", "delete", "retire", "restore"},
         slot : Slots, object : Content]

TypeOK ==
    /\ files \in [Slots -> Content]
    /\ moved \subseteq Items
    /\ dirs \subseteq Slots
    /\ held \in [Slots -> Content]
    /\ \A s \in Slots : held[s] # Absent => s \in dirs
    /\ journal \in [name : {"none", "journal", "recovery", "retired"},
                    phase : {"prepared", "committed"}]
    /\ updating \in {"none", "empty", "full"}
    /\ retiring \in {"none", "empty", "full"}
    /\ plan \in [Items -> PlanItems]
    /\ decided \in BOOLEAN
    /\ tx \in 0..MaxTx
    /\ edits \in 0..MaxEdits
    /\ pc \in Labels
    /\ mode \in {"recover", "fail", "commit"}
    /\ item \in Items
    /\ work \in Seq(Jobs)
    /\ request \in [Items -> Requests]
    /\ outcome \in {"none", "ok", "nothing", "refused", "failed", "conflict",
                    "ambiguous", "stuck", "crashed"}

\* No journal of a transaction is left anywhere.
Settled ==
    /\ journal.name = "none"
    /\ updating # "full"

\* The generators' promise that a directory never keeps a mixture of old and
\* new artifacts: once no journal is left, either every journaled target is
\* the old one or every one is the new one - and it is the new ones exactly
\* when the committed journal was installed.  An edited file is the person's.
AllOrNothing ==
    Settled =>
        \A i \in Items : Journaled(i) =>
            LET c == files[Target(i)] IN
            \/ IsEdit(c)
            \/ c = (IF decided THEN Want(i) ELSE plan[i].old)

\* A call that reports success has replaced every file it was asked to and
\* left nothing of the protocol in the directory.
SuccessIsClean ==
    outcome = "ok" =>
        /\ decided
        /\ Settled /\ updating = "none" /\ retiring = "none" /\ dirs = {}
        /\ \A s \in Slots : s[1] # "target" => ~Exists(s)

\* Somewhere on disk: under a name or in a quarantine directory.
OnDisk(c) == \E s \in Slots : files[s] = c \/ held[s] = c

\* What a person wrote disappears only because they wrote over it, or because
\* a committed transaction had found it as the old file when it staged - and
\* had been told so, if the caller bound the target to what it inspected.
EditsSurvive ==
    \A c \in Content :
        IsEdit(c) /\ OnDisk(c) /\ ~OnDisk(c)' =>
            \/ edits' # edits
            \/ decided /\ \E i \in Items :
                   /\ plan[i].old = c
                   /\ plan[i].guard => plan[i].inspected = c

\* The states txValidState accepts are all the states the protocol and its
\* crashes produce, with two exceptions: a person edited a file, or the
\* recovery of an interrupted removal put a staged file back where a rename
\* changes the ctime it is known by (durable.go:1187-1192).
StatesRecognised == outcome = "ambiguous" => edits > 0 \/ moved # {}

\* Recovery converges: no call ever finds a journal quarantine it cannot
\* explain, whatever earlier calls died of.
QuarantinesExplained == outcome # "stuck"

=============================================================================
