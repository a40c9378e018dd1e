------------------------------ MODULE InstallTx ------------------------------
(***************************************************************************)
(* The installer's artifact transaction (internal/install: transaction.go,   *)
(* renameReplace and copyReplacement of receipt.go).  Every artifact is       *)
(* snapshotted; a change first records in the journal what it will leave (the *)
(* post-image), or builds the new artifact in a private stage beside the      *)
(* target and moves it in.  A rollback undoes only what still matches its     *)
(* post-image.  Journal records are written atomically here: InstallJournal   *)
(* shows that they are.                                                       *)
(***************************************************************************)
EXTENDS Naturals, FiniteSets

CONSTANTS NItems,     \* artifacts of the installation, in order
          Fresh,      \* those that do not exist at first
          Files,      \* those replaced as one file; the others are staged bundles
          Rewrite,    \* TRUE: an artifact may be placed twice in a transaction
          EditWhen,   \* when people may change artifacts, see EditClass
          MaxCalls, MaxWrites, MaxEdits, MaxErrors

Items == 1..NItems
EditClasses == {"before", "after", "window", "boundary"}


VARIABLES
  tgt,     \* tgt[i]: the artifact
  snap,    \* snap[i]: contents of its snapshot, 0 when there is none
  J,       \* J[i]: its journal item
  phase,   \* "none", "prepared" or "committed"
  env,     \* env[i]: the stage directory beside the target
  sq,      \* sq[i]: what a retired stage's quarantine holds
  dq,      \* dq[i]: artifacts held by deletion quarantines of i
  pc, it, mem, \* next step, artifact worked on, memory of the call
  refused, \* why rollbacks left an artifact alone
  base, goal, \* contents before the transaction, and after the changes so far
  written, \* artifacts this transaction changed or began to change
  first,   \* first[i]: the placement that a second one of i replaces, or 0
  edited,  \* artifacts people changed since it began
  owed,    \* contents people wrote and nobody else may drop
  fresh, calls, writes, edits, errors

disk == <<tgt, snap, J, phase, env, sq, dq>>
hist == <<refused, base, goal, written, first, edited, owed>>
bounds == <<calls, writes, edits, errors>>
vars == <<disk, pc, it, mem, hist, fresh, bounds>>

None == [d |-> 0, o |-> 0]
\* An artifact with contents d, and o for its native identity.  Contents 0 with an
\* identity is an unfinished copy.
Art(d, o) == [d |-> d, o |-> o]
Absent(i) == tgt[i] = None

NoStage == [name |-> FALSE, id |-> 0, obj |-> 0, dig |-> 0, use |-> "none"]
NoEnv == [k |-> "none", id |-> 0, wit |-> FALSE, obj |-> None]
NoSq == [k |-> "none", obj |-> None]
NoMem == [ret |-> "none", w |-> None, d |-> 0, roll |-> FALSE, errs |-> FALSE, need |-> FALSE,
          use |-> "none"]
NoItem == [existed |-> FALSE, post |-> 0, st |-> NoStage]

Init ==
  /\ tgt = [i \in Items |-> IF i \in Fresh THEN None ELSE Art(i, i)]
  /\ snap = [i \in Items |-> 0] /\ J = [i \in Items |-> NoItem] /\ phase = "none"
  /\ env = [i \in Items |-> NoEnv] /\ sq = [i \in Items |-> NoSq] /\ dq = [i \in Items |-> {}]
  /\ pc = "idle" /\ it = 1 /\ mem = NoMem
  /\ refused = {} /\ base = [i \in Items |-> tgt[i].d] /\ goal = base
  /\ written = {} /\ first = [i \in Items |-> 0] /\ edited = {} /\ owed = {}
  /\ fresh = NItems + 1 /\ calls = 0 /\ writes = 0 /\ edits = 0 /\ errors = 0

-----------------------------------------------------------------------------
(* Control. *)

Go(l) == pc' = l
Stay == UNCHANGED <<hist, fresh, bounds>>

\* What an error leads to: a forward change is rolled back, a rollback notes the
\* error and goes on with the next artifact.
Err == IF mem.roll THEN pc' = "rb next" /\ mem' = [mem EXCEPT !.errs = TRUE]
       ELSE pc' = "failed" /\ UNCHANGED mem

Refuse(why) ==
  /\ refused' = refused \cup {why} /\ Err
  /\ UNCHANGED <<disk, it, base, goal, written, first, edited, owed, fresh, bounds>>

\* Mutant of PostMatches: a rollback undoes whatever it finds.
PostMatchesAlways(i) == i \in Items

\* installJournalPostImageMatches: the artifact is what the journal says it became.
PostMatches(i) == tgt[i].d = J[i].post /\ (J[i].post = 0 => Absent(i))
\* installPublishedStageMatches: the artifact is the object the stage held.
Published(i) == tgt[i].o = J[i].st.obj /\ tgt[i].d = J[i].st.dig /\ ~Absent(i)
\* installStageObjectMatches.
ObjectMatches(i) == env[i].obj.o = J[i].st.obj /\ env[i].obj.d = J[i].st.dig

SetPost(i, d) == J' = [J EXCEPT ![i].post = d]
SetStage(i, st) == J' = [J EXCEPT ![i].st = st]

-----------------------------------------------------------------------------
(* beginArtifactTransaction and commit. *)

\* snapshotItem: a private copy of the artifact.
SnapshotOf(i) == tgt[i].d

\* The lock is taken and nothing is left to recover: every artifact is inspected,
\* snapshotted and recorded, then the journal is prepared.
BeginTransaction ==
  /\ pc = "idle" /\ phase = "none" /\ calls < MaxCalls /\ calls' = calls + 1
  /\ snap' = [i \in Items |-> SnapshotOf(i)]
  /\ J' = [i \in Items |-> [existed |-> ~Absent(i), post |-> tgt[i].d, st |-> NoStage]]
  /\ phase' = "prepared" /\ Go("change")
  /\ base' = [i \in Items |-> tgt[i].d] /\ goal' = base' /\ written' = {} /\ first' = [i \in Items |-> 0]
  /\ edited' = {} /\ owed' = {}
  /\ UNCHANGED <<tgt, env, sq, dq, it, mem, refused, fresh, writes, edits, errors>>

\* commit: an artifact that is not what the journal says is a reason to roll back.
CommitRefused ==
  /\ pc = "change" /\ \E i \in Items : ~PostMatches(i)
  /\ refused' = refused \cup {"commit"} /\ Go("failed")
  /\ UNCHANGED <<disk, it, mem, base, goal, written, first, edited, owed, fresh, bounds>>

Commit ==
  /\ pc = "change" /\ \A i \in Items : PostMatches(i)
  /\ phase' = "committed" /\ Go("finalize")
  /\ UNCHANGED <<tgt, snap, J, env, sq, dq, it, mem>> /\ Stay

\* finalizeInstallJournal: the journal goes, with its snapshots.
Finalize ==
  /\ pc = "finalize" /\ phase' = "none" /\ snap' = [i \in Items |-> 0]
  /\ J' = [i \in Items |-> NoItem] /\ Go("idle") /\ mem' = NoMem
  /\ UNCHANGED <<tgt, env, sq, dq, it>> /\ Stay

\* Any step of the installation fails: the caller rolls the transaction back.
OperationFails ==
  /\ pc = "change" /\ Go("failed") /\ UNCHANGED <<disk, it, mem>> /\ Stay

-----------------------------------------------------------------------------
(* durableRemoveInstallPath: the removal of artifact "it", then step mem.ret. *)

Remove(then) == Go("rm declare") /\ mem' = [mem EXCEPT !.ret = then]

\* declareInstallPostImage writes nothing while rolling back.
RmDeclare ==
  /\ pc = "rm declare" /\ Go("rm witness")
  /\ IF mem.roll THEN UNCHANGED J ELSE SetPost(it, 0)
  /\ UNCHANGED <<tgt, snap, phase, env, sq, dq, it, mem>> /\ Stay

\* recoverInstallDeletionQuarantines: what earlier removals of the same name left in
\* their quarantines is deleted.
EmptyQuarantines(i) == dq' = [dq EXCEPT ![i] = {}]
\* captureInstallRemovalWitness: contents and identity, as they are now.
RemovalWitness(i) == tgt[i]

RmWitness ==
  /\ pc = "rm witness" /\ EmptyQuarantines(it)
  /\ mem' = [mem EXCEPT !.w = RemovalWitness(it)]
  /\ Go(IF Absent(it) THEN mem.ret ELSE "rm move")
  /\ UNCHANGED <<tgt, snap, J, phase, env, sq, it>> /\ Stay

RmMove ==
  /\ pc = "rm move" /\ RemovalWitness(it) = mem.w /\ Go("rm check")
  /\ UNCHANGED <<disk, it, mem>> /\ Stay

\* The rename takes whatever is there by now.
RmTake ==
  /\ pc = "rm check" /\ dq' = [dq EXCEPT ![it] = {tgt[it]}]
  /\ tgt' = [tgt EXCEPT ![it] = None] /\ Go("rm held")
  /\ UNCHANGED <<snap, J, phase, env, sq, it, mem>> /\ Stay

RmDelete ==
  /\ pc = "rm held" /\ dq[it] = {mem.w} /\ dq' = [dq EXCEPT ![it] = {}] /\ Go(mem.ret)
  /\ UNCHANGED <<tgt, snap, J, phase, env, sq, it, mem>> /\ Stay

\* Changed at either boundary: preserved where it is, and an error.
RmChanged ==
  /\ \/ pc = "rm move" /\ RemovalWitness(it) # mem.w
     \/ pc = "rm held" /\ dq[it] # {mem.w}
  /\ Refuse("changed at removal")

Removal == RmDeclare \/ RmWitness \/ RmMove \/ RmTake \/ RmDelete \/ RmChanged

-----------------------------------------------------------------------------
(* renameReplace: the executable, rendered adapters and the receipt. *)

BeginWrite(i) ==
  /\ pc = "change" /\ writes < MaxWrites /\ writes' = writes + 1
  /\ (Rewrite \/ i \notin written)
  /\ it' = i /\ written' = written \cup {i} /\ goal' = [goal EXCEPT ![i] = fresh]
  /\ first' = [first EXCEPT ![i] = IF i \in written THEN goal[i] ELSE 0]
  /\ fresh' = fresh + 1 /\ mem' = [NoMem EXCEPT !.d = fresh, !.use = "publish"]

\* The new contents are declared before the old artifact is touched.
BeginReplace(i) ==
  /\ i \in Files /\ BeginWrite(i) /\ Go("rp declare")
  /\ UNCHANGED <<disk, refused, base, edited, owed, calls, edits, errors>>

ReplaceDeclare ==
  /\ pc = "rp declare" /\ SetPost(it, mem.d) /\ Remove("rp again")
  /\ UNCHANGED <<tgt, snap, phase, env, sq, dq, it>> /\ Stay

ReplaceDeclareAgain ==
  /\ pc = "rp again" /\ SetPost(it, mem.d) /\ Go("rp rename")
  /\ UNCHANGED <<tgt, snap, phase, env, sq, dq, it, mem>> /\ Stay

ReplaceRename ==
  /\ pc = "rp rename" /\ Absent(it)
  /\ tgt' = [tgt EXCEPT ![it] = Art(mem.d, fresh)] /\ fresh' = fresh + 1 /\ Go("change")
  /\ UNCHANGED <<snap, J, phase, env, sq, dq, it, mem, hist, bounds>>

\* The rename fails, because something is there or because the staged file is on
\* another device: copyReplacement.
ReplaceRenameFails ==
  /\ pc = "rp rename" /\ Go("cp create")
  /\ \/ ~Absent(it) /\ UNCHANGED errors
     \/ Absent(it) /\ errors < MaxErrors /\ errors' = errors + 1
  /\ UNCHANGED <<disk, it, mem, hist, fresh, calls, writes, edits>>

CopyCreate ==
  /\ pc = "cp create" /\ Absent(it)
  /\ tgt' = [tgt EXCEPT ![it] = Art(0, fresh)] /\ fresh' = fresh + 1 /\ Go("cp finish")
  /\ UNCHANGED <<snap, J, phase, env, sq, dq, it, mem, hist, bounds>>

CopyFinish ==
  /\ pc = "cp finish" /\ tgt' = [tgt EXCEPT ![it].d = mem.d] /\ Go("change")
  /\ UNCHANGED <<snap, J, phase, env, sq, dq, it, mem>> /\ Stay

\* A copy that fails removes the destination, whatever is there.
CopyFails ==
  /\ \/ pc = "cp create" /\ ~Absent(it) /\ UNCHANGED errors
     \/ pc = "cp finish" /\ errors < MaxErrors /\ errors' = errors + 1
  /\ Remove("failed")
  /\ UNCHANGED <<disk, it, hist, fresh, calls, writes, edits>>

Replacement ==
  \/ ReplaceDeclare \/ ReplaceDeclareAgain \/ ReplaceRename \/ ReplaceRenameFails
  \/ CopyCreate \/ CopyFinish \/ CopyFails

-----------------------------------------------------------------------------
(* stageInstallEntryNoReplace: artifact "it" gets contents mem.d through a       *)
(* private stage, to publish a new version or to restore the snapshot.           *)

BeginStage(i) ==
  /\ i \notin Files /\ BeginWrite(i) /\ Go("st record")
  /\ UNCHANGED <<disk, refused, base, edited, owed, calls, edits, errors>>

\* Mutant of StRecord: the record is written without its name.
StRecordNameless ==
  /\ pc = "st record" /\ Go("st retired")
  /\ SetStage(it, [NoStage EXCEPT !.dig = mem.d, !.use = mem.use])
  /\ UNCHANGED <<tgt, snap, phase, env, sq, dq, it, mem>> /\ Stay

StRecord ==
  /\ pc = "st record" /\ Go("st retired")
  /\ IF J[it].st.name THEN UNCHANGED J
     ELSE SetStage(it, [NoStage EXCEPT !.name = TRUE, !.dig = mem.d, !.use = mem.use])
  /\ UNCHANGED <<tgt, snap, phase, env, sq, dq, it, mem>> /\ Stay

\* recoverInstallRestoreStageQuarantine: a retired stage is deleted; one whose object
\* is not the recorded one is kept.
RetiredIntact == sq[it].obj = None \/ (sq[it].obj.o = J[it].st.obj /\ sq[it].obj.d = J[it].st.dig)

FinishRetired(then) ==
  /\ sq[it].k # "none" /\ RetiredIntact /\ sq' = [sq EXCEPT ![it] = NoSq] /\ Go(then)
  /\ UNCHANGED <<tgt, snap, J, phase, env, dq, it, mem>> /\ Stay

StRetired ==
  /\ pc = "st retired"
  /\ \/ FinishRetired("st cleaned")
     \/ sq[it].k # "none" /\ ~RetiredIntact /\ Refuse("retired object")
     \/ sq[it].k = "none" /\ Go("st prepare") /\ UNCHANGED <<disk, it, mem>> /\ Stay

\* The stage was retired because its object had been published.
StCleaned ==
  /\ pc = "st cleaned"
  /\ \/ Published(it) /\ Go("st clear") /\ UNCHANGED <<disk, it, mem>> /\ Stay
     \/ ~Published(it) /\ Refuse("retired without target")

\* prepareInstallRestoreStage: a directory is made, given a witness of its identity,
\* renamed to the stage name, and its identity recorded.  Each of these steps may be
\* where an earlier run stopped; a directory without a witness is retired.
Prepared == IF mem.use = "undo" THEN "rb published" ELSE "st open"
SetEnv(e) == env' = [env EXCEPT ![it] = e]

StPrepare ==
  /\ pc = "st prepare" /\ UNCHANGED <<tgt, snap, phase, sq, dq, it, mem, hist, bounds>>
  /\ \/ J[it].st.id # 0 /\ Go(Prepared) /\ UNCHANGED <<J, env, fresh>>
     \/ /\ J[it].st.id = 0 /\ env[it].k = "stage"
        /\ SetStage(it, [J[it].st EXCEPT !.id = env[it].id]) /\ Go(Prepared)
        /\ UNCHANGED <<env, fresh>>
     \/ /\ J[it].st.id = 0 /\ env[it].k = "prep" /\ env[it].wit
        /\ SetEnv([env[it] EXCEPT !.k = "stage"]) /\ Go("st prepare") /\ UNCHANGED <<J, fresh>>
     \/ /\ J[it].st.id = 0 /\ env[it].k = "prep" /\ ~env[it].wit
        /\ SetEnv(NoEnv) /\ Go("st prepare") /\ UNCHANGED <<J, fresh>>
     \/ /\ J[it].st.id = 0 /\ env[it].k = "none"
        /\ SetEnv([NoEnv EXCEPT !.k = "prep", !.id = fresh]) /\ fresh' = fresh + 1
        /\ Go("st witness") /\ UNCHANGED J

StWitness ==
  /\ pc = "st witness" /\ SetEnv([env[it] EXCEPT !.wit = TRUE]) /\ Go("st prepare")
  /\ UNCHANGED <<tgt, snap, J, phase, sq, dq, it, mem>> /\ Stay

\* openInstallRestoreStage.
StageOpens == env[it].k = "stage" /\ env[it].id = J[it].st.id

\* A stage that is gone is fine when its object was published.
StOpen ==
  /\ pc = "st open"
  /\ \/ /\ StageOpens /\ Go(IF J[it].st.obj # 0 THEN "st object" ELSE "st copy")
        /\ UNCHANGED <<disk, it, mem>> /\ Stay
     \/ ~StageOpens /\ Published(it) /\ Go("st forget") /\ UNCHANGED <<disk, it, mem>> /\ Stay
     \/ ~StageOpens /\ ~Published(it) /\ Refuse("stage lost")

\* Resuming with a recorded object: it is still there, or it was published.
StObject ==
  /\ pc = "st object"
  /\ \/ /\ \/ env[it].obj = None /\ Published(it) /\ Go("st retire")
           \/ env[it].obj # None /\ ObjectMatches(it) /\ Go("st ready")
        /\ UNCHANGED <<disk, it, mem>> /\ Stay
     \/ env[it].obj = None /\ ~Published(it) /\ Refuse("object lost")
     \/ env[it].obj # None /\ ~ObjectMatches(it) /\ Refuse("object changed")

\* An unrecorded object is removed and copied again, then its identity is recorded.
StCopy ==
  /\ pc = "st copy" /\ SetEnv([env[it] EXCEPT !.obj = Art(0, fresh)]) /\ fresh' = fresh + 1
  /\ Go("st copied") /\ UNCHANGED <<tgt, snap, J, phase, sq, dq, it, mem, hist, bounds>>

StCopied ==
  /\ pc = "st copied" /\ SetEnv([env[it] EXCEPT !.obj.d = mem.d]) /\ Go("st identify")
  /\ UNCHANGED <<tgt, snap, J, phase, sq, dq, it, mem>> /\ Stay

StIdentify ==
  /\ pc = "st identify" /\ SetStage(it, [J[it].st EXCEPT !.obj = env[it].obj.o]) /\ Go("st ready")
  /\ UNCHANGED <<tgt, snap, phase, env, sq, dq, it, mem>> /\ Stay

\* Mutant of StReady: the old version is not removed.
StReadyKeeps ==
  pc = "st ready" /\ UNCHANGED <<disk, it, mem>> /\ Stay /\ Go("st publish")

\* Only a publication removes what is at the target.
StReady ==
  /\ pc = "st ready" /\ UNCHANGED <<disk, it>> /\ Stay
  /\ IF mem.use = "publish" THEN Remove("st publish") ELSE Go("st publish") /\ UNCHANGED mem

\* renameInstallNoReplace.
StPublish ==
  /\ pc = "st publish"
  /\ \/ /\ Absent(it) /\ tgt' = [tgt EXCEPT ![it] = env[it].obj]
        /\ SetEnv([env[it] EXCEPT !.obj = None]) /\ Go("st published")
        /\ UNCHANGED <<snap, J, phase, sq, dq, it, mem>> /\ Stay
     \/ ~Absent(it) /\ Refuse("target appeared")

StPublished ==
  /\ pc = "st published"
  /\ \/ Published(it) /\ Go("st retire") /\ UNCHANGED <<disk, it, mem>> /\ Stay
     \/ ~Published(it) /\ Refuse("changed at publication")

\* retireInstallRestoreStage: the stage moves into a quarantine of its own, created
\* empty, and is deleted there.  An object that is not the recorded one is kept.
StRetire ==
  /\ pc = "st retire"
  /\ \/ /\ env[it].obj = None \/ ObjectMatches(it)
        /\ sq' = [sq EXCEPT ![it] = [NoSq EXCEPT !.k = "empty"]] /\ Go("st move")
        /\ UNCHANGED <<tgt, snap, J, phase, env, dq, it, mem>> /\ Stay
     \/ env[it].obj # None /\ ~ObjectMatches(it) /\ Refuse("object unrecorded")

StMove ==
  /\ pc = "st move" /\ sq' = [sq EXCEPT ![it] = [k |-> "held", obj |-> env[it].obj]]
  /\ SetEnv(NoEnv) /\ Go("st erase")
  /\ UNCHANGED <<tgt, snap, J, phase, dq, it, mem>> /\ Stay

\* Deleting a stage that still has its object takes more than one step.
StErase ==
  /\ pc = "st erase"
  /\ \/ sq[it].obj.d # 0 /\ sq' = [sq EXCEPT ![it].obj.d = 0] /\ Go("st erase")
     \/ sq[it].obj.d = 0 /\ sq' = [sq EXCEPT ![it] = NoSq] /\ Go("st clear")
  /\ UNCHANGED <<tgt, snap, J, phase, env, dq, it, mem>> /\ Stay

\* clearInstallStageItem: a publication becomes the post-image.  A stage that is still
\* there, beside an empty quarantine, is left behind under a name nobody looks for.
StClear ==
  /\ pc \in {"st clear", "st forget"} /\ SetEnv(NoEnv)
  /\ J' = [J EXCEPT ![it].st = NoStage,
                   ![it].post = IF pc = "st clear" /\ mem.use = "publish" THEN mem.d ELSE @]
  /\ Go(IF mem.use = "undo" /\ mem.need THEN "rb restore" ELSE IF mem.roll THEN "rb next" ELSE "change")
  /\ UNCHANGED <<tgt, snap, phase, sq, dq, it, mem>> /\ Stay

Staging ==
  \/ StRecord \/ StRetired \/ StCleaned \/ StPrepare \/ StWitness \/ StOpen \/ StObject
  \/ StCopy \/ StCopied \/ StIdentify \/ StReady \/ StPublish \/ StPublished
  \/ StRetire \/ StMove \/ StErase \/ StClear

-----------------------------------------------------------------------------
(* rollbackInstallJournal, by the run that failed or by a later one. *)

StartRollback ==
  /\ it' = NItems /\ mem' = [NoMem EXCEPT !.roll = TRUE] /\ Go("rb item")

Rollback == pc = "failed" /\ StartRollback /\ UNCHANGED disk /\ Stay

\* recoverInstallTransaction, before anything else is done under the lock.
Recover ==
  /\ pc = "idle" /\ calls < MaxCalls /\ calls' = calls + 1
  /\ \/ phase = "prepared" /\ StartRollback
     \/ phase = "committed" /\ Go("finalize") /\ UNCHANGED <<it, mem>>
  /\ UNCHANGED <<disk, hist, fresh, writes, edits, errors>>

\* An artifact with a stage is resumed or undone; one without is removed if it is
\* what the transaction left, looked at twice.
RbItem ==
  /\ pc = "rb item"
  /\ \/ /\ J[it].st.use = "restore" /\ Go("st record")
        /\ mem' = [mem EXCEPT !.use = "restore", !.d = snap[it]] /\ UNCHANGED <<disk, it>> /\ Stay
     \/ /\ J[it].st.use = "publish" /\ Go("st prepare")
        /\ mem' = [mem EXCEPT !.use = "undo"] /\ UNCHANGED <<disk, it>> /\ Stay
     \/ /\ ~J[it].st.name /\ PostMatches(it) /\ Go("rb again")
        /\ UNCHANGED <<disk, it, mem>> /\ Stay
     \/ ~J[it].st.name /\ ~PostMatches(it) /\ Refuse("post-image")

RbAgain ==
  /\ pc = "rb again"
  /\ \/ PostMatches(it) /\ Remove("rb removed") /\ UNCHANGED <<disk, it>> /\ Stay
     \/ ~PostMatches(it) /\ Refuse("changed again")

Restore ==
  Go("st record") /\ mem' = [mem EXCEPT !.use = "restore", !.d = snap[it], !.need = FALSE]

RbRemoved ==
  /\ pc = "rb removed" /\ UNCHANGED <<disk, it>> /\ Stay
  /\ IF J[it].existed THEN Restore ELSE Go("rb next") /\ UNCHANGED mem

\* rollbackStagedInstallItem for a publication.
RbPublished ==
  /\ pc = "rb published"
  /\ \/ /\ Published(it) /\ Go("rm declare")
        /\ mem' = [mem EXCEPT !.ret = "rb retire", !.need = J[it].existed]
        /\ UNCHANGED <<disk, it>> /\ Stay
     \/ /\ ~Published(it) /\ (Absent(it) \/ PostMatches(it)) /\ Go("rb retire")
        /\ mem' = [mem EXCEPT !.need = Absent(it) /\ J[it].existed]
        /\ UNCHANGED <<disk, it>> /\ Stay
     \/ ~Published(it) /\ ~Absent(it) /\ ~PostMatches(it) /\ Refuse("staged target")

RbRetire ==
  /\ pc = "rb retire"
  /\ \/ FinishRetired("st clear")
     \/ sq[it].k # "none" /\ ~RetiredIntact /\ Refuse("retired object")
     \/ /\ sq[it].k = "none" /\ StageOpens /\ Go("st retire")
        /\ UNCHANGED <<disk, it, mem>> /\ Stay
     \/ sq[it].k = "none" /\ ~StageOpens /\ Refuse("stage lost")

RbRestore == pc = "rb restore" /\ Restore /\ UNCHANGED <<disk, it>> /\ Stay

\* Mutant of RbNext: the journal goes although an artifact was left alone.
RbNextForgets ==
  /\ pc = "rb next" /\ UNCHANGED disk /\ Stay
  /\ IF it > 1
     THEN it' = it - 1 /\ Go("rb item") /\ mem' = [NoMem EXCEPT !.roll = TRUE]
     ELSE Go("finalize") /\ UNCHANGED <<it, mem>>

\* With errors the journal is kept; without, it is finalized.
RbNext ==
  /\ pc = "rb next" /\ UNCHANGED disk /\ Stay
  /\ IF it > 1
     THEN it' = it - 1 /\ Go("rb item")
          /\ mem' = [NoMem EXCEPT !.roll = TRUE, !.errs = mem.errs]
     ELSE Go(IF mem.errs THEN "idle" ELSE "finalize") /\ UNCHANGED <<it, mem>>

Undoing ==
  \/ Rollback \/ Recover \/ RbItem \/ RbAgain \/ RbRemoved \/ RbPublished
  \/ RbRetire \/ RbRestore \/ RbNext

-----------------------------------------------------------------------------
(* The environment. *)

Crash ==
  /\ pc # "idle" /\ Go("idle") /\ mem' = NoMem /\ it' = 1
  /\ UNCHANGED disk /\ Stay

EditClass(i) ==
  IF pc \in {"rp rename", "cp create"} /\ it = i THEN "boundary"
  ELSE IF pc \notin {"idle", "change", "failed"} /\ it = i THEN "window"
  ELSE IF i \in written THEN "after" ELSE "before"

\* People write an artifact of an open transaction.
Edit(i) ==
  /\ phase # "none" /\ edits < MaxEdits /\ edits' = edits + 1 /\ EditClass(i) \in EditWhen
  /\ tgt' = [tgt EXCEPT ![i] = Art(fresh, fresh)] /\ fresh' = fresh + 1
  /\ owed' = (owed \ {tgt[i].d}) \cup {fresh} /\ edited' = edited \cup {i}
  /\ UNCHANGED <<snap, J, phase, env, sq, dq, pc, it, mem, refused, base, goal, written, first>>
  /\ UNCHANGED <<calls, writes, errors>>

Next ==
  \/ BeginTransaction \/ CommitRefused \/ Commit \/ Finalize \/ OperationFails
  \/ \E i \in Items : BeginReplace(i) \/ BeginStage(i) \/ Edit(i)
  \/ Removal \/ Replacement \/ Staging \/ Undoing \/ Crash

Spec == Init /\ [][Next]_vars

----------------------------------------------------------------------------
(* Properties.                                                              *)

Contents == 0..(2 * (NItems + MaxWrites + MaxEdits + MaxErrors) + 4 * MaxCalls * NItems + 8)
Arts == [d : Contents, o : Contents]

\* Every variable keeps its type; a stage record without a name is empty.
TypeOK ==
  /\ tgt \in [Items -> Arts] /\ snap \in [Items -> Contents]
  /\ \A i \in Items : J[i].st.name \/ J[i].st = NoStage
  /\ phase \in {"none", "prepared", "committed"}
  /\ \A i \in Items : env[i].k \in {"none", "prep", "stage"} /\ env[i].obj \in Arts
  /\ \A i \in Items : sq[i].k \in {"none", "empty", "held"} /\ sq[i].obj \in Arts
  /\ dq \in [Items -> SUBSET Arts] /\ it \in Items
  /\ written \subseteq Items /\ first \in [Items -> Contents] /\ edited \subseteq Items

\* A transaction that is over has all of its changes or none: the artifacts people
\* did not touch are all what it made of them, or all what they were at its start,
\* with one exception: an artifact that was to be placed a second time may still be
\* the first placement (commit, rollbackInstallJournal, recoverInstallTransaction;
\* rollbackStagedInstallItem, transaction.go:2646-2651).
AllOrNothing ==
  pc = "idle" /\ phase = "none" =>
    \/ \A i \in Items \ edited : tgt[i].d = goal[i]
    \/ \A i \in Items \ edited : tgt[i].d = base[i] \/ (first[i] # 0 /\ tgt[i].d = first[i])

\* What people write after the transaction placed its own version is never
\* dropped, by the commit, the rollback or a later recovery.
EditsSurvive ==
  \A d \in owed : \E i \in Items : tgt[i].d = d \/ env[i].obj.d = d \/ \E a \in dq[i] : a.d = d

\* Without changes by people, a rollback leaves an artifact alone, and keeps the
\* journal, for five reasons only: it is not (or no longer) its post-image or the
\* object of its stage, the copy in its stage was never identified, a retired stage
\* was half deleted, or the stage is gone.  All five happen, and the next recovery
\* meets them again (KilledRunRecovers).
RefusalsAreKnown ==
  edits = 0 => refused \subseteq {"post-image", "staged target", "object unrecorded", "retired object", "stage lost"}

\* docs/agent-portability.md: "a killed run leaves a recoverable journal that
\* interrupted journal recovery finishes at the next lock acquisition".  A run killed
\* between declaring what it will leave and leaving it, while copying into a stage, or
\* while undoing, leaves one that every later recovery refuses.
KilledRunRecovers == edits = 0 => refused = {}

\* docs/agent-portability.md: a failed update "restores every root it owns to its
\* complete pre-run state".  When an artifact is placed twice and the second
\* placement is cut short before it removed the first, the rollback keeps the first.
FailedUpdateRestoresAll ==
  pc = "idle" /\ phase = "none" =>
    (\A i \in Items \ edited : tgt[i].d = base[i]) \/ (\A i \in Items \ edited : tgt[i].d = goal[i])

\* docs/agent-portability.md: "Concurrent foreign changes to a tracked path are refused
\* rather than overwritten".  A change made after the snapshot and before the
\* placement is removed with the old version.
ForeignChangeRefused == EditsSurvive

\* copyReplacement: "O_EXCL publication preserves anything that appears at the
\* destination boundary".  When O_EXCL finds something there, the failed copy removes it.
ExclusiveCopyPreserves == EditsSurvive
=============================================================================
