--------------------------- MODULE InstallJournal ---------------------------
(***************************************************************************)
(* The journal directory of the installer's transaction (internal/install:   *)
(* transaction.go).  Its metadata record is created through a temporary      *)
(* file, replaced through a staged file and a private quarantine of the old  *)
(* one, and two marker files make it prepared and committed.  A process may  *)
(* be killed between any two file-system steps; the next one that takes the  *)
(* operation lock recovers the directory first.                              *)
(***************************************************************************)
EXTENDS Naturals

CONSTANTS MaxCalls,    \* operations that take the lock
          MaxWrites,   \* metadata records asked for
          MaxErrors    \* writes the system refuses


Markers == {"prepared", "committed"}
\* A record being published: no file, an unfinished or a finished temporary one,
\* and for a marker the file itself.
TempStates == {"none", "partial", "complete"}

VARIABLES
  dir,     \* the journal directory: "none", "journal" or renamed to "tombstone"
  leak,    \* a deletion quarantine of a tombstone is left beside it
  live, next,   \* versions that journal.json and journal.json.next hold, 0: no file
  itemp, ntemp, \* temporary files of the first record and of a staged one
  mq,      \* quarantine of a replaced record: whether it exists, and what it holds
  res,     \* quarantines of retired temporary files that exist
  mark,    \* marker files
  pc, ret, \* next step, and the one after a shared step
  what,    \* the file being retired
  mode,    \* what loading the journal is for: "recover", "commit" or "rollback"
  refused, \* why recoveries were refused
  issued, calls, errors

content == <<live, next, itemp, ntemp, mq, res, mark>>
disk == <<dir, leak, content>>
bounds == <<calls, errors>>
vars == <<disk, pc, ret, what, mode, refused, issued, bounds>>

NoQuarantine == [dir |-> FALSE, v |-> 0]
NoMarks == [m \in Markers |-> "none"]

Init ==
  /\ dir = "none" /\ leak = FALSE
  /\ live = 0 /\ next = 0 /\ itemp = "none" /\ ntemp = "none"
  /\ mq = NoQuarantine /\ res = 0 /\ mark = NoMarks
  /\ pc = "idle" /\ ret = "none" /\ what = "none" /\ mode = "none"
  /\ refused = {} /\ issued = 0 /\ calls = 0 /\ errors = 0

-----------------------------------------------------------------------------
(* Control. *)

Go(l) == pc' = l
Same == UNCHANGED <<what, mode, refused, issued, bounds>>
Leave == pc' = "idle" /\ ret' = "none" /\ what' = "none" /\ mode' = "none"

\* retireInstallAuthorityTemp: a quarantine is made, the file moved in, file and
\* quarantine removed.  It returns to the step "back".
Retire(file, back) ==
  /\ res' = res + 1 /\ Go("retire") /\ what' = file /\ ret' = back
  /\ UNCHANGED <<dir, leak, live, next, itemp, ntemp, mq, mark, mode, refused, issued, bounds>>

RetireMoves ==
  /\ pc = "retire" /\ Go("retired")
  /\ itemp' = IF what = "itemp" THEN "none" ELSE itemp
  /\ ntemp' = IF what = "ntemp" THEN "none" ELSE ntemp
  /\ next' = IF what = "next" THEN 0 ELSE next
  /\ mark' = [m \in Markers |-> IF what = m THEN "none" ELSE mark[m]]
  /\ UNCHANGED <<dir, leak, live, mq, res, ret>> /\ Same

RetireEnds ==
  /\ pc = "retired" /\ res' = res - 1 /\ Go(ret) /\ ret' = "none" /\ what' = "none"
  /\ UNCHANGED <<dir, leak, live, next, itemp, ntemp, mq, mark, mode, refused, issued, bounds>>

-----------------------------------------------------------------------------
(* The end of a journal: finalizeInstallJournal, cleanupJournalTombstone. *)

Emptied ==
  /\ live' = 0 /\ next' = 0 /\ itemp' = "none" /\ ntemp' = "none"
  /\ mq' = NoQuarantine /\ res' = 0 /\ mark' = NoMarks

RenameToTombstone ==
  /\ pc = "finalize" /\ dir = "journal"
  /\ dir' = "tombstone" /\ Emptied /\ Go("clean") /\ ret' = "idle"
  /\ UNCHANGED leak /\ Same

\* durableRemoveAll: a quarantine left by an earlier removal goes first.
SweepLeak ==
  /\ pc = "clean" /\ dir = "tombstone" /\ leak
  /\ leak' = FALSE /\ UNCHANGED <<dir, content, pc, ret>> /\ Same

ParkTombstone ==
  /\ pc = "clean" /\ dir = "tombstone" /\ ~leak
  /\ dir' = "none" /\ leak' = TRUE /\ Go("drop")
  /\ UNCHANGED <<content, ret>> /\ Same

DropTombstone ==
  /\ pc = "drop" /\ leak' = FALSE /\ Go(ret) /\ ret' = "none"
  /\ UNCHANGED <<dir, content>> /\ Same

-----------------------------------------------------------------------------
(* recoverInstallTransaction, once the operation lock is held. *)

BeginCall ==
  /\ pc = "idle" /\ calls < MaxCalls /\ calls' = calls + 1
  /\ mode' = "recover"
  /\ IF dir = "tombstone" THEN Go("clean") /\ ret' = "inspect" ELSE Go("inspect") /\ UNCHANGED ret
  /\ UNCHANGED <<disk, what, refused, issued, errors>>

NothingToRecover ==
  /\ pc = "inspect" /\ dir = "none" /\ Go("ready")
  /\ UNCHANGED <<disk, ret>> /\ Same

\* recoverInitialJournalMetadata when journal.json is not there: a finished first
\* record is published, an unfinished one retired.
PromoteFirst ==
  /\ pc = "inspect" /\ dir = "journal" /\ live = 0 /\ itemp = "complete"
  /\ live' = issued /\ itemp' = "none"
  /\ UNCHANGED <<dir, leak, next, ntemp, mq, res, mark, pc, ret>> /\ Same

RetireFirst ==
  /\ pc = "inspect" /\ dir = "journal" /\ live = 0 /\ itemp = "partial"
  /\ Retire("itemp", "inspect")

\* Whatever else is in the directory then makes it foreign.
Residue == next # 0 \/ ntemp # "none" \/ mq.dir \/ res > 0 \/ \E m \in Markers : mark[m] # "none"

AbandonEmpty ==
  /\ pc = "inspect" /\ dir = "journal" /\ live = 0 /\ itemp = "none" /\ ~Residue
  /\ Go("finalize") /\ UNCHANGED <<disk, ret>> /\ Same

RecordFound ==
  /\ pc = "inspect" /\ dir = "journal" /\ live # 0
  /\ Go("replacement") /\ UNCHANGED <<disk, ret>> /\ Same

-----------------------------------------------------------------------------
(* recoverJournalMetadataReplacement, from recovery and before each replacement: *)

AfterReplacement == IF mode = "recover" THEN "load" ELSE "stage"

RetireStagedTemp ==
  /\ pc = "replacement" /\ ntemp # "none" /\ Retire("ntemp", "replacement")

RetireStaged ==
  /\ pc = "replacement" /\ ntemp = "none" /\ ~mq.dir /\ next # 0 /\ live # 0
  /\ Retire("next", "replacement")

\* An empty quarantine ends the function; a staged record stays for the next call.
FinishEmptyQuarantine ==
  /\ pc = "replacement" /\ ntemp = "none" /\ mq.dir /\ mq.v = 0
  /\ mq' = NoQuarantine /\ Go(AfterReplacement)
  /\ UNCHANGED <<dir, leak, live, next, itemp, ntemp, res, mark, ret>> /\ Same

\* With no record in place the parked one is put back; otherwise it goes.
SettleOldRecord ==
  /\ pc = "replacement" /\ ntemp = "none" /\ mq.v # 0 /\ (live = 0 \/ next = 0)
  /\ live' = (IF live = 0 THEN mq.v ELSE live) /\ mq' = [mq EXCEPT !.v = 0]
  /\ UNCHANGED <<dir, leak, next, itemp, ntemp, res, mark, pc, ret>> /\ Same

ReplacementDone ==
  /\ pc = "replacement" /\ ntemp = "none" /\ ~mq.dir /\ next = 0
  /\ Go(AfterReplacement) /\ UNCHANGED <<disk, ret>> /\ Same

-----------------------------------------------------------------------------
(* loadInstallJournal with validJournalMarker. *)

\* recoverInstallAuthorityRecord for a marker: finished ones are published,
\* unfinished ones retired.
RecoverMarker(m) ==
  /\ pc = "load" /\ live # 0 /\ mark[m] \in {"partial", "complete"}
  /\ IF mark[m] = "partial" THEN Retire(m, "load")
     ELSE /\ mark' = [mark EXCEPT ![m] = "live"]
          /\ UNCHANGED <<dir, leak, live, next, itemp, ntemp, mq, res, pc, ret>> /\ Same

MarkersSettled == \A m \in Markers : mark[m] \in {"none", "live"}

\* Mutant of Loaded: PREPARED is looked at first.
LoadedPreparedFirst == IF mark["prepared"] = "live" THEN "prepared" ELSE "snapshotting"

Loaded == IF mark["committed"] = "live" THEN "committed"
          ELSE IF mark["prepared"] = "live" THEN "prepared"
          ELSE "snapshotting"

\* Everything the directory can be refused for.  The two ways to find residue
\* instead of a first record are told apart, which the code does not.
Problems ==
  {why \in {"parked record", "retirement residue", "staged record alone", "ambiguous replacement",
            "record missing", "committed without prepared"} :
     CASE why = "parked record" -> pc = "inspect" /\ dir = "journal" /\ live = 0 /\ itemp = "none" /\ mq.v # 0
       [] why = "retirement residue" -> pc = "inspect" /\ dir = "journal" /\ live = 0 /\ itemp = "none" /\ Residue /\ mq.v = 0
       [] why = "staged record alone" -> pc = "replacement" /\ ntemp = "none" /\ ~mq.dir /\ next # 0 /\ live = 0
       [] why = "ambiguous replacement" -> pc = "replacement" /\ ntemp = "none" /\ mq.v # 0 /\ live # 0 /\ next # 0
       [] why = "record missing" -> pc = "load" /\ live = 0
       [] why = "committed without prepared" ->
            pc = "load" /\ MarkersSettled /\ mark["committed"] = "live" /\ mark["prepared"] = "none"}

Refuse ==
  /\ Problems # {} /\ refused' = refused \cup Problems /\ Leave
  /\ UNCHANGED <<disk, issued, bounds>>

\* Recovery acts on the phase; a rollback or a commit that does not find the
\* journal prepared returns an error and keeps it.
Load ==
  /\ pc = "load" /\ live # 0 /\ MarkersSettled
  /\ Problems = {}
  /\ CASE mode = "recover" /\ Loaded # "prepared" -> Go("finalize") /\ UNCHANGED <<ret, what, mode>>
       [] mode = "recover" /\ Loaded = "prepared" -> Go("rollback") /\ UNCHANGED <<ret, what, mode>>
       [] mode = "rollback" /\ Loaded = "prepared" -> Go("rollback") /\ UNCHANGED <<ret, what, mode>>
       [] mode = "commit" /\ Loaded = "prepared" -> Go("mark") /\ UNCHANGED <<ret, what, mode>>
       [] OTHER -> Leave
  /\ UNCHANGED <<disk, refused, issued, bounds>>

-----------------------------------------------------------------------------
(* A transaction: beginArtifactTransaction, changes that record themselves, commit. *)

MakeDirectory ==
  /\ pc = "ready" /\ issued + 2 <= MaxWrites /\ dir' = "journal" /\ Go("first") /\ mode' = "begin"
  /\ UNCHANGED <<leak, content, ret, what, refused, issued, bounds>>

\* publishInstallAuthorityRecord of the first record.
CreateFirst ==
  /\ pc = "first" /\ itemp = "none"
  /\ itemp' = "partial" /\ issued' = issued + 1
  /\ UNCHANGED <<dir, leak, live, next, ntemp, mq, res, mark, pc, ret, what, mode, refused, bounds>>

FinishFirst ==
  /\ pc = "first" /\ itemp = "partial" /\ itemp' = "complete"
  /\ UNCHANGED <<dir, leak, live, next, ntemp, mq, res, mark, pc, ret>> /\ Same

PublishFirst ==
  /\ pc = "first" /\ itemp = "complete"
  /\ itemp' = "none" /\ live' = issued /\ Go("replacement")
  /\ UNCHANGED <<dir, leak, next, ntemp, mq, res, mark, ret>> /\ Same

\* replaceJournalMetadata: the next record is staged, ...
CreateStaged ==
  /\ pc = "stage" /\ ntemp = "none" /\ next = 0
  /\ ntemp' = "partial" /\ issued' = issued + 1
  /\ UNCHANGED <<dir, leak, live, next, itemp, mq, res, mark, pc, ret, what, mode, refused, bounds>>

FinishStaged ==
  /\ pc = "stage" /\ ntemp = "partial" /\ ntemp' = "complete"
  /\ UNCHANGED <<dir, leak, live, next, itemp, mq, res, mark, pc, ret>> /\ Same

PublishStaged ==
  /\ pc = "stage" /\ ntemp = "complete"
  /\ ntemp' = "none" /\ next' = issued /\ Go("park")
  /\ UNCHANGED <<dir, leak, live, itemp, mq, res, mark, ret>> /\ Same

\* ... the old one moved into a quarantine, ...
MakeQuarantine ==
  /\ pc = "park" /\ ~mq.dir /\ mq' = [dir |-> TRUE, v |-> 0]
  /\ UNCHANGED <<dir, leak, live, next, itemp, ntemp, res, mark, pc, ret>> /\ Same

\* Mutant of ParkRecord: the quarantine was never made.
ParkRecordUnmade ==
  /\ pc = "park" /\ mq' = [dir |-> FALSE, v |-> live] /\ live' = 0
  /\ Go("install")
  /\ UNCHANGED <<dir, leak, next, itemp, ntemp, res, mark, ret>> /\ Same

\* Mutant of ParkRecord: the old record is removed first.
ParkRecordRemoves ==
  /\ pc = "park" /\ mq.dir /\ live' = 0 /\ UNCHANGED mq
  /\ Go("install")
  /\ UNCHANGED <<dir, leak, next, itemp, ntemp, res, mark, ret>> /\ Same

ParkRecord ==
  /\ pc = "park" /\ mq.dir /\ mq' = [mq EXCEPT !.v = live] /\ live' = 0
  /\ Go("install")
  /\ UNCHANGED <<dir, leak, next, itemp, ntemp, res, mark, ret>> /\ Same

\* ... the next one renamed into place, and the old one removed.
InstallRecord ==
  /\ pc = "install" /\ live' = next /\ next' = 0 /\ Go("retireOld")
  /\ UNCHANGED <<dir, leak, itemp, ntemp, mq, res, mark, ret>> /\ Same

\* Renaming failed: the old record is put back and the error returned.
InstallFails ==
  /\ pc = "install" /\ errors < MaxErrors /\ errors' = errors + 1
  /\ live' = mq.v /\ mq' = NoQuarantine
  /\ Go("failed")
  /\ UNCHANGED <<dir, leak, next, itemp, ntemp, res, mark, ret, what, mode, refused, issued, calls>>

\* Where a record written leads: the first replacement is followed by the PREPARED
\* marker, later ones by more changes.
AfterWrite == IF mode = "begin" THEN "mark" ELSE IF mode = "change" THEN "change" ELSE "rollback"

RemoveOldRecord ==
  /\ pc = "retireOld"
  /\ IF mq.v # 0 THEN mq' = [mq EXCEPT !.v = 0] /\ UNCHANGED pc
     ELSE mq' = NoQuarantine /\ Go(AfterWrite)
  /\ UNCHANGED <<dir, leak, live, next, itemp, ntemp, res, mark, ret>> /\ Same

\* createJournalMarker: PREPARED when beginning, COMMITTED when committing.

\* Mutant of Marker: the names are swapped.
MarkerSwapped == IF mode = "begin" THEN "committed" ELSE "prepared"

Marker == IF mode = "begin" THEN "prepared" ELSE "committed"

WriteMarker ==
  /\ pc = "mark" /\ mark[Marker] # "live"
  /\ mark' = [mark EXCEPT ![Marker] = CASE @ = "none" -> "partial" [] @ = "partial" -> "complete" [] OTHER -> "live"]
  /\ UNCHANGED <<dir, leak, live, next, itemp, ntemp, mq, res, pc, ret>> /\ Same

Marked ==
  /\ pc = "mark" /\ mark[Marker] = "live"
  /\ IF mode = "begin" THEN Go("change") /\ mode' = "change" ELSE Go("finalize") /\ UNCHANGED mode
  /\ UNCHANGED <<disk, ret, what, refused, issued, bounds>>

\* A change to an artifact records itself first (declareInstallPostImage,
\* mutateInstallStageItem).
Record ==
  /\ pc \in {"change", "rollback"} /\ issued < MaxWrites
  /\ Go("replacement") /\ mode' = (IF pc = "change" THEN "change" ELSE "rollback")
  /\ UNCHANGED <<disk, ret, what, refused, issued, bounds>>

BeginCommit ==
  /\ pc = "change" /\ Go("load") /\ mode' = "commit"
  /\ UNCHANGED <<disk, ret, what, refused, issued, bounds>>

BeginRollback ==
  /\ pc = "change" /\ Go("load") /\ mode' = "rollback"
  /\ UNCHANGED <<disk, ret, what, refused, issued, bounds>>

\* rollbackInstallJournal: every item restored, or errors and a retained journal.
RollbackEnds ==
  /\ pc = "rollback"
  /\ \/ Go("finalize") /\ UNCHANGED <<ret, what, mode>>
     \/ Leave
  /\ UNCHANGED <<disk, refused, issued, bounds>>

\* A write the system refuses leaves what is there; when the old record cannot be
\* parked, the staged one is retired.
WriteFails ==
  /\ pc \in {"first", "stage", "park", "mark"} /\ errors < MaxErrors /\ errors' = errors + 1
  /\ Go("failed")
  /\ IF pc = "park" THEN next' = 0 /\ mq' = NoQuarantine ELSE UNCHANGED <<next, mq>>
  /\ UNCHANGED <<dir, leak, live, itemp, ntemp, res, mark, ret, what, mode, refused, issued, calls>>

\* Before PREPARED the journal is abandoned; a failed change or commit is rolled
\* back; a failed rollback keeps the journal.
Failed ==
  /\ pc = "failed"
  /\ CASE mode = "begin" -> Go("finalize") /\ UNCHANGED <<ret, what, mode>>
       [] mode \in {"change", "commit"} -> Go("load") /\ mode' = "rollback" /\ UNCHANGED <<ret, what>>
       [] OTHER -> Leave
  /\ UNCHANGED <<disk, refused, issued, bounds>>

\* The process is killed, and the lock with it.
Crash ==
  /\ pc # "idle" /\ Leave /\ UNCHANGED <<disk, refused, issued, bounds>>

End == RenameToTombstone \/ SweepLeak \/ ParkTombstone \/ DropTombstone
Recovery ==
  \/ BeginCall \/ NothingToRecover \/ PromoteFirst \/ RetireFirst \/ AbandonEmpty
  \/ RecordFound \/ RetireStagedTemp \/ RetireStaged \/ FinishEmptyQuarantine
  \/ SettleOldRecord \/ ReplacementDone
  \/ \E m \in Markers : RecoverMarker(m)
  \/ Refuse \/ Load \/ RetireMoves \/ RetireEnds
Transaction ==
  \/ MakeDirectory \/ CreateFirst \/ FinishFirst \/ PublishFirst
  \/ CreateStaged \/ FinishStaged \/ PublishStaged \/ MakeQuarantine \/ ParkRecord \/ InstallRecord
  \/ InstallFails \/ RemoveOldRecord \/ WriteMarker \/ Marked
  \/ Record \/ BeginCommit \/ BeginRollback \/ RollbackEnds \/ WriteFails \/ Failed

Done == pc = "idle" /\ calls = MaxCalls /\ UNCHANGED vars
Next == End \/ Recovery \/ Transaction \/ Crash \/ Done
Spec == Init /\ [][Next]_vars

----------------------------------------------------------------------------
(* Properties.                                                              *)

\* Every variable keeps its type; in particular at most one version is parked.
TypeOK ==
  /\ dir \in {"none", "journal", "tombstone"} /\ leak \in BOOLEAN
  /\ live \in 0..MaxWrites /\ next \in 0..MaxWrites
  /\ itemp \in TempStates /\ ntemp \in TempStates
  /\ mq \in [dir : BOOLEAN, v : 0..MaxWrites] /\ (mq.v # 0 => mq.dir)
  /\ res \in 0..MaxCalls
  /\ mark \in [Markers -> TempStates \cup {"live"}]
  /\ mode \in {"none", "recover", "begin", "change", "commit", "rollback"}
  /\ issued \in 0..MaxWrites /\ calls \in 0..MaxCalls /\ errors \in 0..MaxErrors

\* The record in force: the one in place, or the parked one while a replacement
\* is under way (replaceJournalMetadata).
InForce == IF live # 0 THEN live ELSE mq.v

\* The files, temporary files and quarantines around journal.json implement a
\* register: whatever is killed or fails, the record in force is whole, only the one
\* asked for last replaces it, and it goes only with the journal directory
\* (replaceJournalMetadata, its recovery, finalizeInstallJournal).
Register == INSTANCE JournalRegister WITH val <- InForce, open <- (dir = "journal")
RecordIsAtomic == Register!Next \/ UNCHANGED <<InForce, dir = "journal", issued>>

\* Once the COMMITTED marker is written, finished or published, no operation rolls
\* this journal back (commit, rollback, loadInstallJournal).
CommitIsFinal == pc = "rollback" => mark["committed"] \in {"none", "partial"}

\* A recovery is refused only where a record is parked by an unfinished replacement
\* or where retiring a temporary file was interrupted: never for an ambiguous
\* replacement, a staged record alone, or a commit without a preparation.
RefusalsAreKnown == refused \subseteq {"parked record", "retirement residue"}

\* docs/agent-portability.md: a killed run leaves a recoverable journal.  A run
\* killed while the old record is parked leaves one that is refused.
ParkedRecordRecovers == "parked record" \notin refused

\* TestInstallAuthorityRecordsRecoverEveryPublicationBoundary: an unfinished first
\* record is recovered from.  A recovery killed while it retires that record leaves
\* a directory that is refused.
InterruptedRetirementRecovers == "retirement residue" \notin refused
=============================================================================
