------------------------------ MODULE ModelithTx ------------------------------
(***************************************************************************)
(* The directory transaction that publishes the rendered Modelith corpus   *)
(* (internal/modelithtx), driven by scripts/modelith-render.sh: the old     *)
(* examples directory is parked, the staged one is renamed into its place,  *)
(* and a journal under three names says how far it got.                     *)
(*                                                                          *)
(* A step is one rename, creation or removal with the directory sync that   *)
(* follows it.  A renderer may crash between any two steps, an I/O error may *)
(* end a call, and a person may edit the corpus under any public name.      *)
(***************************************************************************)
EXTENDS Naturals, FiniteSets

CONSTANTS Renderers,   \* processes that run the render script
          MaxRenders,  \* renderings started, all renderers together
          MaxEdits,    \* edits by people
          MaxErrors    \* I/O errors that end a call


VARIABLES
  fs,       \* what each protocol name holds
  qdirs,    \* names whose deletion quarantine exists
  lock,     \* holder of the advisory publication lock, or Nobody
  pc, rm,   \* per renderer: the next step, and the removal in progress
  mem,      \* per renderer: snapshots taken by the running call
  refused,  \* calls that recovery refused, by the reason
  owed,     \* contents people saved that no publication has superseded
  fresh,    \* source of unused contents and identities
  renders, edits, errors

vars == <<fs, qdirs, lock, pc, rm, mem, refused, owed, fresh, renders, edits, errors>>
counters == <<renders, edits, errors>>

Nobody == "nobody"
Trees == {"target", "backup", "retire", "stage"}
JournalNames == {"journal", "authority", "jretire"}
Files == JournalNames \cup {"next", "previous"}
Removable == {"retire", "stage", "jretire", "previous", "next"}
\* The object of a deletion quarantine.
Slot == [retire |-> "q-retire", stage |-> "q-stage", jretire |-> "q-jretire",
         previous |-> "q-previous", next |-> "q-next"]
Names == Trees \cup Files \cup {Slot[n] : n \in Removable}

\* Contents: 0 is a tree of which a part is missing.  A stage directory without
\* its examples entry is hollow.
None == [k |-> "none"]
Hollow == [k |-> "hollow"]
TornFile == [k |-> "torn"]
Tree(d, i) == [k |-> "tree", d |-> d, i |-> i]
Torn(t) == [t EXCEPT !.d = 0]
\* Mutant of Journal: the two digests are swapped.
JournalSwapped(phase, live, staged) ==
  [k |-> "journal", phase |-> phase, exp |-> staged.d, ident |-> live.i, staged |-> live.d]

Journal(phase, live, staged) ==
  [k |-> "journal", phase |-> phase, exp |-> live.d, ident |-> live.i, staged |-> staged.d]

Present(n) == fs[n].k # "none"
HasCorpus(n) == fs[n].k = "tree"

\* captureCorpusState reads one consistent snapshot of a tree: its digest and
\* the native identity of its entries.
Captured(n) == fs[n]

\* corpusState.revalidateAt: the same entries, identities and bytes as captured.
Intact(n, state) == fs[n] = state

\* Fingerprint and fingerprintRootDir: contents only.
Digest(n) == fs[n].d

\* Two phases of one journal, the second the exact successor of the first.
IsJournalPhaseSuccessor(previous, next) ==
  /\ previous.k = "journal" /\ next.k = "journal"
  /\ next.phase = "restoring"
  /\ [previous EXCEPT !.phase = next.phase] = next

NoRm == [name |-> "none", obj |-> None, step |-> "none"]
NoMem == [live |-> None, staged |-> None, auth |-> None, exp |-> 0]

Init ==
  /\ fs = [n \in Names |-> IF n = "target" THEN Tree(1, 1) ELSE None]
  /\ qdirs = {} /\ lock = Nobody
  /\ pc = [r \in Renderers |-> "idle"]
  /\ rm = [r \in Renderers |-> NoRm]
  /\ mem = [r \in Renderers |-> NoMem]
  /\ refused = {} /\ owed = {1} /\ fresh = 2
  /\ renders = 0 /\ edits = 0 /\ errors = 0

-----------------------------------------------------------------------------
(* Control. *)

At(r, l) == pc[r] = l /\ rm[r] = NoRm
Go(r, l) == pc' = [pc EXCEPT ![r] = l]
Move(a, b) == fs' = [fs EXCEPT ![b] = fs[a], ![a] = None]

\* removeIfPresent and removeValidated: start the exact removal of a name.
Remove(r, n, obj, next) ==
  /\ rm' = IF Present(n) THEN [rm EXCEPT ![r] = [name |-> n, obj |-> obj, step |-> "mkdir"]]
           ELSE rm
  /\ Go(r, next)

\* A call returns: the advisory lock is released and its snapshots are dropped.
Return(r, l) == lock' = Nobody /\ Go(r, l) /\ mem' = [mem EXCEPT ![r] = NoMem]

\* A call fails.  Once it holds a journal, its deferred restoration runs.
Fail(r) ==
  IF mem[r].auth = None THEN Return(r, "idle")
  ELSE Go(r, "restorePath") /\ UNCHANGED <<lock, mem>>

\* recoverRoot gives up on what it found.
Refuse(r, why) ==
  /\ refused' = refused \cup {why}
  /\ Fail(r)
  /\ UNCHANGED <<fs, qdirs, rm, owed, fresh, counters>>

-----------------------------------------------------------------------------
(* Exact removal (removeCorpusStateExact, removeRegularStateExact). *)

\* Mutant of RmMkdir: the quarantine is assumed to exist.
RmMkdirSkipped(r) ==
  /\ rm[r].step = "mkdir"
  /\ rm' = [rm EXCEPT ![r].step = "move"]
  /\ UNCHANGED <<fs, qdirs, lock, pc, mem, refused, owed, fresh, counters>>

RmMkdir(r) ==
  /\ rm[r].step = "mkdir"
  /\ qdirs' = qdirs \cup {rm[r].name}
  /\ rm' = [rm EXCEPT ![r].step = "move"]
  /\ UNCHANGED <<fs, lock, pc, mem, refused, owed, fresh, counters>>

RmMove(r) ==
  /\ rm[r].step = "move"
  /\ Move(rm[r].name, Slot[rm[r].name])
  /\ rm' = [rm EXCEPT ![r].step = "check"]
  /\ UNCHANGED <<qdirs, lock, pc, mem, refused, owed, fresh, counters>>

\* The isolated object is not the one the decision was about: it stays in its
\* quarantine and the call fails.
RmChanged(r) ==
  /\ rm[r].step = "check" /\ ~Intact(Slot[rm[r].name], rm[r].obj)
  /\ rm' = [rm EXCEPT ![r] = NoRm]
  /\ Fail(r)
  /\ UNCHANGED <<fs, qdirs, refused, owed, fresh, counters>>

\* A tree is removed entry by entry: it is torn before it is gone.
RmPartly(r) ==
  LET s == Slot[rm[r].name] IN
  /\ rm[r].step = "check" /\ Intact(s, rm[r].obj) /\ fs[s].k = "tree"
  /\ \E left \in (IF rm[r].name = "stage" THEN {Torn(fs[s]), Hollow} ELSE {Torn(fs[s])}) :
       fs' = [fs EXCEPT ![s] = left]
  /\ rm' = [rm EXCEPT ![r].step = "delete"]
  /\ UNCHANGED <<qdirs, lock, pc, mem, refused, owed, fresh, counters>>

RmDelete(r) ==
  LET s == Slot[rm[r].name] IN
  /\ \/ rm[r].step = "delete"
     \/ rm[r].step = "check" /\ Intact(s, rm[r].obj) /\ fs[s].k # "tree"
  /\ fs' = [fs EXCEPT ![s] = None]
  /\ rm' = [rm EXCEPT ![r].step = "rmdir"]
  /\ UNCHANGED <<qdirs, lock, pc, mem, refused, owed, fresh, counters>>

RmRmdir(r) ==
  /\ rm[r].step = "rmdir"
  /\ qdirs' = qdirs \ {rm[r].name}
  /\ rm' = [rm EXCEPT ![r] = NoRm]
  /\ UNCHANGED <<fs, lock, pc, mem, refused, owed, fresh, counters>>

Removal(r) == RmMkdir(r) \/ RmMove(r) \/ RmChanged(r) \/ RmPartly(r) \/ RmDelete(r) \/ RmRmdir(r)

-----------------------------------------------------------------------------
(* Recover, under the publication lock. *)

\* withRoot: the script calls recover before it renders and again when it exits.
BeginRecover(r) ==
  /\ At(r, "idle") /\ lock = Nobody
  /\ lock' = r /\ Go(r, "quarantines")
  /\ UNCHANGED <<fs, qdirs, rm, mem, refused, owed, fresh, counters>>

\* recoverModelithQuarantines: an empty quarantine is retired, a held object is
\* put back under its public name.
RecoverQuarantine(r) ==
  /\ At(r, "quarantines")
  /\ \E n \in qdirs :
       IF Present(Slot[n])
       THEN ~Present(n) /\ Move(Slot[n], n) /\ UNCHANGED qdirs
       ELSE qdirs' = qdirs \ {n} /\ UNCHANGED fs
  /\ UNCHANGED <<lock, pc, rm, mem, refused, owed, fresh, counters>>

QuarantinesDone(r) ==
  /\ At(r, "quarantines") /\ qdirs = {}
  /\ Go(r, IF Present("previous") THEN "replacement" ELSE "isolate")
  /\ UNCHANGED <<fs, qdirs, lock, rm, mem, refused, owed, fresh, counters>>

\* recoverJournalReplacement resolves an interrupted phase transition.
RecoverJournalReplacement(r) ==
  /\ At(r, "replacement")
  /\ \/ /\ Present("authority") /\ ~Present("next")
        /\ IsJournalPhaseSuccessor(fs["previous"], fs["authority"])
        /\ Remove(r, "previous", fs["previous"], "isolate") /\ UNCHANGED fs
     \/ /\ ~Present("authority") /\ ~Present("next")
        /\ Move("previous", "authority") /\ Go(r, "isolate") /\ UNCHANGED rm
     \/ /\ ~Present("authority") /\ Present("next")
        /\ IsJournalPhaseSuccessor(fs["previous"], fs["next"])
        /\ Move("next", "authority") /\ UNCHANGED <<pc, rm>>
  /\ UNCHANGED <<qdirs, lock, mem, refused, owed, fresh, counters>>

\* isolateJournalAuthority: exactly one of the three journal names may exist.
IsolateAuthority(r) ==
  /\ At(r, "isolate")
  /\ \E n \in JournalNames :
       /\ \A m \in JournalNames : Present(m) <=> m = n
       /\ fs' = [fs EXCEPT ![n] = None, !["authority"] = fs[n]]
       /\ mem' = [mem EXCEPT ![r].auth = fs[n]]
  /\ Go(r, "decide")
  /\ UNCHANGED <<qdirs, lock, rm, refused, owed, fresh, counters>>

\* Mutant of NoAuthority: the unjournaled scratch is left for the next renderer.
NoAuthorityKeepsScratch(r) ==
  /\ At(r, "isolate") /\ \A n \in JournalNames : ~Present(n)
  /\ ~Present("backup") /\ ~Present("retire")
  /\ Go(r, "recovered")
  /\ UNCHANGED <<fs, qdirs, lock, rm, mem, refused, owed, fresh, counters>>

\* No journal: nothing may be parked, and unjournaled scratch is discarded.
NoAuthority(r) ==
  /\ At(r, "isolate") /\ \A n \in JournalNames : ~Present(n)
  /\ ~Present("backup") /\ ~Present("retire")
  /\ IF Present("stage") THEN Remove(r, "stage", fs["stage"], "isolate")
     ELSE Remove(r, "next", fs["next"], "recovered")
  /\ UNCHANGED <<fs, qdirs, lock, mem, refused, owed, fresh, counters>>

\* Two journals, or parked trees without one.
AuthorityUnexplained(r) ==
  /\ At(r, "isolate")
  /\ \/ Cardinality({n \in JournalNames : Present(n)}) > 1
     \/ /\ \A n \in JournalNames : ~Present(n)
        /\ Present("backup") \/ Present("retire")
  /\ Refuse(r, "authority")

\* recoverRoot, a retirement was interrupted: verify both trees, then delete the
\* old one or put it back as the backup.
ResumeRetirement(r) ==
  LET j == mem[r].auth IN
  /\ At(r, "decide")
  /\ Present("retire") /\ Present("target") /\ ~Present("backup") /\ ~HasCorpus("stage")
  /\ \/ /\ Digest("target") = j.staged
        /\ Digest("retire") = j.exp /\ fs["retire"].i = j.ident
        /\ mem' = [mem EXCEPT ![r].live = Captured("retire"), ![r].staged = Captured("target")]
        /\ Go(r, "verifyRetirement")
        /\ UNCHANGED <<fs, refused>>
     \/ /\ Digest("target") = j.staged
        /\ Digest("retire") # j.exp \/ fs["retire"].i # j.ident
        /\ refused' = refused \cup {"retirement"}
        /\ Move("retire", "backup") /\ Go(r, "restorePath") /\ UNCHANGED mem
     \/ /\ Digest("target") # j.staged
        /\ refused' = refused \cup {"installed target"}
        /\ Go(r, "restorePath") /\ UNCHANGED <<fs, mem>>
  /\ UNCHANGED <<qdirs, lock, rm, owed, fresh, counters>>

\* recoverRoot, the live corpus is parked and nothing took its place: a second
\* journal phase is recorded and the backup goes back.
StartRestore(r) ==
  LET j == mem[r].auth IN
  /\ At(r, "decide") /\ Present("backup") /\ ~Present("target") /\ ~Present("retire")
  /\ Digest("backup") = j.exp /\ fs["backup"].i = j.ident
  /\ mem' = [mem EXCEPT ![r].live = Captured("backup")]
  /\ Remove(r, "next", fs["next"], "stageNext")
  /\ UNCHANGED <<fs, qdirs, lock, refused, owed, fresh, counters>>

RestoreRefused(r) ==
  LET j == mem[r].auth IN
  /\ At(r, "decide") /\ Present("backup") /\ ~Present("target") /\ ~Present("retire")
  /\ Digest("backup") # j.exp \/ fs["backup"].i # j.ident
  /\ Refuse(r, "parked backup")

\* createJournalNext: a crash may leave the new file torn.
StageNext(r) ==
  /\ At(r, "stageNext")
  /\ \/ /\ fs' = [fs EXCEPT !["next"] = TornFile] /\ UNCHANGED pc
     \/ /\ fs' = [fs EXCEPT !["next"] = [mem[r].auth EXCEPT !.phase = "restoring"]]
        /\ Go(r, "setPrevious")
  /\ UNCHANGED <<qdirs, lock, rm, mem, refused, owed, fresh, counters>>

SetPrevious(r) ==
  /\ At(r, "setPrevious")
  /\ Move("authority", "previous") /\ Go(r, "installNext")
  /\ UNCHANGED <<qdirs, lock, rm, mem, refused, owed, fresh, counters>>


InstallNext(r) ==
  /\ At(r, "installNext")
  /\ Move("next", "authority") /\ Go(r, "dropPrevious")
  /\ mem' = [mem EXCEPT ![r].auth = fs["next"]]
  /\ UNCHANGED <<qdirs, lock, rm, refused, owed, fresh, counters>>

DropPrevious(r) ==
  /\ At(r, "dropPrevious")
  /\ Remove(r, "previous", fs["previous"], "restore")
  /\ UNCHANGED <<fs, qdirs, lock, mem, refused, owed, fresh, counters>>

\* The backup is revalidated and renamed back; an occupied target is an error.
RestoreBackup(r) ==
  /\ At(r, "restore")
  /\ IF Intact("backup", mem[r].live) /\ ~Present("target")
     THEN Move("backup", "target") /\ Go(r, "verifyRestored")
     ELSE Go(r, "restorePath") /\ UNCHANGED fs
  /\ UNCHANGED <<qdirs, lock, rm, mem, refused, owed, fresh, counters>>

VerifyRestored(r) ==
  /\ At(r, "verifyRestored")
  /\ IF Intact("target", mem[r].live) THEN Remove(r, "stage", fs["stage"], "finish")
     ELSE Go(r, "restorePath") /\ UNCHANGED rm
  /\ UNCHANGED <<fs, qdirs, lock, mem, refused, owed, fresh, counters>>

\* recoverRoot, both trees exist and nothing is staged: the install happened.
ResumeInstalled(r) ==
  LET j == mem[r].auth IN
  /\ At(r, "decide")
  /\ Present("backup") /\ Present("target") /\ ~HasCorpus("stage") /\ ~Present("retire")
  /\ Digest("target") = j.staged /\ Digest("backup") = j.exp /\ fs["backup"].i = j.ident
  /\ mem' = [mem EXCEPT ![r].live = Captured("backup"), ![r].staged = Captured("target")]
  /\ Go(r, "retire")
  /\ UNCHANGED <<fs, qdirs, lock, rm, refused, owed, fresh, counters>>

InstalledRefused(r) ==
  LET j == mem[r].auth IN
  /\ At(r, "decide")
  /\ Present("backup") /\ Present("target") /\ ~HasCorpus("stage") /\ ~Present("retire")
  /\ Digest("target") # j.staged \/ Digest("backup") # j.exp \/ fs["backup"].i # j.ident
  /\ Refuse(r, "installed pair")

\* recoverRoot, a restoration was interrupted while the stage still exists.
ResumeRestored(r) ==
  LET j == mem[r].auth IN
  /\ At(r, "decide") /\ ~Present("backup") /\ Present("target") /\ ~Present("retire")
  /\ HasCorpus("stage") /\ j.phase = "restoring"
  /\ \/ /\ Digest("target") = j.exp /\ fs["target"].i = j.ident
        /\ Remove(r, "stage", fs["stage"], "finish") /\ UNCHANGED refused
     \/ /\ Digest("target") # j.exp \/ fs["target"].i # j.ident
        /\ refused' = refused \cup {"restored target"}
        /\ Go(r, "restorePath") /\ UNCHANGED rm
  /\ UNCHANGED <<fs, qdirs, lock, mem, owed, fresh, counters>>

\* recoverRoot, nothing was parked: the journal is revoked before its stage.
AbortUnparked(r) ==
  /\ At(r, "decide") /\ ~Present("backup") /\ Present("target") /\ ~Present("retire")
  /\ HasCorpus("stage") /\ mem[r].auth.phase = "prepared"
  /\ Go(r, "clearJournal")
  /\ UNCHANGED <<fs, qdirs, lock, rm, mem, refused, owed, fresh, counters>>

\* recoverRoot, only the target is left: it has to be the staged corpus.
ResumeFinished(r) ==
  /\ At(r, "decide") /\ ~Present("backup") /\ Present("target") /\ ~Present("retire")
  /\ ~HasCorpus("stage")
  /\ \/ /\ Digest("target") = mem[r].auth.staged
        /\ Remove(r, "stage", fs["stage"], "finish") /\ UNCHANGED refused
     \/ /\ Digest("target") # mem[r].auth.staged
        /\ refused' = refused \cup {"finished target"}
        /\ Go(r, "restorePath") /\ UNCHANGED rm
  /\ UNCHANGED <<fs, qdirs, lock, mem, owed, fresh, counters>>

\* The default case of the switch.
StateImpossible(r) ==
  /\ At(r, "decide")
  /\ \/ ~Present("target") /\ (~Present("backup") \/ Present("retire"))
     \/ Present("target") /\ Present("retire") /\ (Present("backup") \/ HasCorpus("stage"))
     \/ Present("target") /\ Present("backup") /\ ~Present("retire") /\ HasCorpus("stage")
  /\ Refuse(r, "impossible")

\* finishRecovery: stage, then the next journal, then the journal itself.
Finish(r) ==
  /\ At(r, "finish")
  /\ IF Present("stage") THEN Remove(r, "stage", fs["stage"], "finish")
     ELSE Remove(r, "next", fs["next"], "retireJournal")
  /\ UNCHANGED <<fs, qdirs, lock, mem, refused, owed, fresh, counters>>

\* retireJournalAuthority: one rename revokes the journal, then it is removed.
RetireJournal(r) ==
  /\ At(r, "retireJournal") \/ At(r, "clearJournal")
  /\ Move("authority", "jretire")
  /\ Go(r, IF pc[r] = "retireJournal" THEN "dropJournal" ELSE "clearDropJournal")
  /\ UNCHANGED <<qdirs, lock, rm, mem, refused, owed, fresh, counters>>

DropJournal(r) ==
  /\ At(r, "dropJournal") \/ At(r, "clearDropJournal")
  /\ Remove(r, "jretire", mem[r].auth, IF pc[r] = "dropJournal" THEN "recovered" ELSE "clearScratch")
  /\ UNCHANGED <<fs, qdirs, lock, mem, refused, owed, fresh, counters>>

\* clearAbortedUnparked after its journal: scratch without a journal.
ClearScratch(r) ==
  /\ At(r, "clearScratch")
  /\ IF Present("next") THEN Remove(r, "next", fs["next"], "clearScratch")
     ELSE Remove(r, "stage", fs["stage"], "recovered")
  /\ UNCHANGED <<fs, qdirs, lock, mem, refused, owed, fresh, counters>>

\* restoreJournalAuthorityPath: a failed call leaves its journal under the
\* canonical name.
RestorePath(r) ==
  /\ At(r, "restorePath")
  /\ IF Present("journal") THEN UNCHANGED fs
     ELSE IF Present("authority") /\ ~Present("jretire") THEN Move("authority", "journal")
     ELSE IF Present("jretire") /\ ~Present("authority") THEN Move("jretire", "journal")
     ELSE UNCHANGED fs
  /\ Return(r, "idle")
  /\ UNCHANGED <<qdirs, rm, refused, owed, fresh, counters>>

\* Recover or Publish returns without an error.
Recovered(r) ==
  /\ At(r, "recovered")
  /\ \/ Return(r, "idle") \/ Return(r, "clean")
  /\ UNCHANGED <<fs, qdirs, rm, refused, owed, fresh, counters>>

-----------------------------------------------------------------------------
(* The render script between recover and publish, and Publish itself. *)

\* The digest the publication will expect, and a private stage.  mkdir refuses
\* an existing stage; then cp fills it, entry by entry.
MakeStage(r) ==
  /\ At(r, "clean") /\ renders < MaxRenders /\ fs["target"].k = "tree"
  /\ IF Present("stage") THEN Go(r, "idle") /\ UNCHANGED <<fs, mem>>
     ELSE /\ fs' = [fs EXCEPT !["stage"] = Tree(0, 0)]
          /\ mem' = [mem EXCEPT ![r].exp = Digest("target")]
          /\ Go(r, "render")
  /\ renders' = renders + 1
  /\ UNCHANGED <<qdirs, lock, rm, refused, owed, fresh, edits, errors>>

\* The copy is complete and rendered.  A stage somebody removed ends the script.
Render(r) ==
  /\ At(r, "render")
  /\ IF HasCorpus("stage")
     THEN /\ fs' = [fs EXCEPT !["stage"] = Tree(fresh, fresh)]
          /\ fresh' = fresh + 1 /\ Go(r, "publish")
     ELSE Go(r, "idle") /\ UNCHANGED <<fs, fresh>>
  /\ UNCHANGED <<qdirs, lock, rm, mem, refused, owed, counters>>

\* publish up to its journal: no residue, the live corpus is the expected one,
\* the stage is a real tree.
BeginPublish(r) ==
  /\ At(r, "publish") /\ lock = Nobody
  /\ IF /\ qdirs = {}
        /\ \A n \in Files \cup {"backup", "retire"} : ~Present(n)
        /\ HasCorpus("target") /\ Digest("target") = mem[r].exp
        /\ HasCorpus("stage")
     THEN /\ lock' = r /\ Go(r, "createNext")
          /\ mem' = [mem EXCEPT ![r].live = Captured("target"), ![r].staged = Captured("stage")]
     ELSE Go(r, "idle") /\ UNCHANGED <<lock, mem>>
  /\ UNCHANGED <<fs, qdirs, rm, refused, owed, fresh, counters>>

CreateNext(r) ==
  /\ At(r, "createNext")
  /\ \/ fs' = [fs EXCEPT !["next"] = TornFile] /\ UNCHANGED pc
     \/ /\ fs' = [fs EXCEPT !["next"] = Journal("prepared", mem[r].live, mem[r].staged)]
        /\ Go(r, "installJournal")
  /\ UNCHANGED <<qdirs, lock, rm, mem, refused, owed, fresh, counters>>

InstallJournal(r) ==
  /\ At(r, "installJournal")
  /\ Move("next", "journal") /\ Go(r, "isolateJournal")
  /\ UNCHANGED <<qdirs, lock, rm, mem, refused, owed, fresh, counters>>

IsolateJournal(r) ==
  /\ At(r, "isolateJournal")
  /\ Move("journal", "authority") /\ Go(r, "revalidate")
  /\ mem' = [mem EXCEPT ![r].auth = fs["journal"]]
  /\ UNCHANGED <<qdirs, lock, rm, refused, owed, fresh, counters>>

\* The last look at the live corpus before it is parked.
Revalidate(r) ==
  /\ At(r, "revalidate")
  /\ Go(r, IF Intact("target", mem[r].live) THEN "park" ELSE "clearJournal")
  /\ UNCHANGED <<fs, qdirs, lock, rm, mem, refused, owed, fresh, counters>>

Park(r) ==
  /\ At(r, "park")
  /\ IF Present("target") THEN Move("target", "backup") /\ Go(r, "verifyParked")
     ELSE Go(r, "restorePath") /\ UNCHANGED fs
  /\ UNCHANGED <<qdirs, lock, rm, mem, refused, owed, fresh, counters>>

\* What was parked is what was captured, or abortParked puts it back.
VerifyParked(r) ==
  /\ At(r, "verifyParked")
  /\ IF Intact("backup", mem[r].live) THEN Go(r, "install") /\ UNCHANGED fs
     ELSE IF Present("target") THEN Go(r, "restorePath") /\ UNCHANGED fs
     ELSE Move("backup", "target") /\ Go(r, "clearJournal")
  /\ UNCHANGED <<qdirs, lock, rm, mem, refused, owed, fresh, counters>>

\* Renaming the staged corpus over nothing: the commit point of the publication.
Install(r) ==
  /\ At(r, "install")
  /\ IF Present("target") \/ ~HasCorpus("stage")
     THEN Go(r, "restorePath") /\ UNCHANGED <<fs, owed>>
     ELSE /\ fs' = [fs EXCEPT !["target"] = fs["stage"], !["stage"] = Hollow]
          /\ owed' = owed \ {mem[r].live.d}
          /\ Go(r, "verifyInstalled")
  /\ UNCHANGED <<qdirs, lock, rm, mem, refused, fresh, counters>>

VerifyInstalled(r) ==
  /\ At(r, "verifyInstalled")
  /\ Go(r, IF Intact("target", mem[r].staged) THEN "retire" ELSE "restorePath")
  /\ UNCHANGED <<fs, qdirs, lock, rm, mem, refused, owed, fresh, counters>>

\* retireCorpusIfUnchanged: the parked tree moves to its own name first.
Retire(r) ==
  /\ At(r, "retire")
  /\ Move("backup", "retire") /\ Go(r, "verifyRetirement")
  /\ UNCHANGED <<qdirs, lock, rm, mem, refused, owed, fresh, counters>>

\* Mutant of DeleteRetirement: the retired tree is not compared with the capture.
DeleteRetirementBlindly(r) ==
  /\ At(r, "verifyRetirement")
  /\ Remove(r, "retire", fs["retire"], "finish")
  /\ UNCHANGED <<fs, qdirs, lock, mem, refused, owed, fresh, counters>>

\* deleteRetirementIfUnchanged, and restoreRetirement when either tree changed.
DeleteRetirement(r) ==
  /\ At(r, "verifyRetirement")
  /\ IF Intact("target", mem[r].staged) /\ Intact("retire", mem[r].live)
     THEN Remove(r, "retire", mem[r].live, "finish") /\ UNCHANGED fs
     ELSE /\ IF Present("backup") THEN UNCHANGED fs ELSE Move("retire", "backup")
          /\ Go(r, "restorePath") /\ UNCHANGED rm
  /\ UNCHANGED <<qdirs, lock, mem, refused, owed, fresh, counters>>

-----------------------------------------------------------------------------
(* Faults and people. *)

\* The process dies; the operating system drops its lock.
Crash(r) ==
  /\ pc[r] # "idle"
  /\ pc' = [pc EXCEPT ![r] = "idle"]
  /\ rm' = [rm EXCEPT ![r] = NoRm]
  /\ mem' = [mem EXCEPT ![r] = NoMem]
  /\ lock' = IF lock = r THEN Nobody ELSE lock
  /\ UNCHANGED <<fs, qdirs, refused, owed, fresh, counters>>

\* An operation fails: the call returns through its deferred restoration.
IOError(r) ==
  /\ errors < MaxErrors /\ errors' = errors + 1
  /\ lock = r /\ ~At(r, "restorePath") /\ ~At(r, "recovered")
  /\ Fail(r)
  /\ rm' = [rm EXCEPT ![r] = NoRm]
  /\ UNCHANGED <<fs, qdirs, refused, owed, fresh, renders, edits>>

\* A person changes files of a public tree in place, replaces the tree, or
\* recreates a missing target.
Edit ==
  /\ edits < MaxEdits /\ edits' = edits + 1
  /\ \E n \in {"target", "backup", "retire"}, inPlace \in BOOLEAN :
       /\ Present(n) \/ (n = "target" /\ ~inPlace)
       /\ fs' = [fs EXCEPT ![n] = Tree(fresh, IF inPlace THEN fs[n].i ELSE fresh)]
       /\ owed' = (owed \ (IF Present(n) THEN {fs[n].d} ELSE {})) \cup {fresh}
  /\ fresh' = fresh + 1
  /\ UNCHANGED <<qdirs, lock, pc, rm, mem, refused, renders, errors>>

Recovery(r) ==
  \/ BeginRecover(r) \/ RecoverQuarantine(r) \/ QuarantinesDone(r)
  \/ RecoverJournalReplacement(r)
  \/ IsolateAuthority(r) \/ NoAuthority(r) \/ AuthorityUnexplained(r)
  \/ ResumeRetirement(r) \/ StartRestore(r) \/ RestoreRefused(r) \/ StageNext(r)
  \/ SetPrevious(r) \/ InstallNext(r) \/ DropPrevious(r) \/ RestoreBackup(r)
  \/ VerifyRestored(r) \/ ResumeInstalled(r) \/ InstalledRefused(r) \/ ResumeRestored(r)
  \/ AbortUnparked(r) \/ ResumeFinished(r) \/ StateImpossible(r)
  \/ Finish(r) \/ RetireJournal(r) \/ DropJournal(r) \/ ClearScratch(r)
  \/ RestorePath(r) \/ Recovered(r)

Publication(r) ==
  \/ MakeStage(r) \/ Render(r) \/ BeginPublish(r) \/ CreateNext(r) \/ InstallJournal(r)
  \/ IsolateJournal(r) \/ Revalidate(r) \/ Park(r) \/ VerifyParked(r) \/ Install(r)
  \/ VerifyInstalled(r) \/ Retire(r) \/ DeleteRetirement(r)

Next ==
  \/ \E r \in Renderers : Removal(r) \/ Recovery(r) \/ Publication(r) \/ Crash(r) \/ IOError(r)
  \/ Edit

Spec == Init /\ [][Next]_vars

-----------------------------------------------------------------------------
(* Properties. *)

Objects ==
  {None, Hollow, TornFile} \cup [k : {"tree"}, d : 0..fresh, i : 0..fresh]
  \cup [k : {"journal"}, phase : {"prepared", "restoring"}, exp : 0..fresh,
        ident : 0..fresh, staged : 0..fresh]

TypeOK ==
  /\ fs \in [Names -> Objects]
  /\ qdirs \subseteq Removable
  /\ lock \in Renderers \cup {Nobody}
  /\ \A r \in Renderers : rm[r].name \in Removable \cup {"none"} /\ rm[r].obj \in Objects
  /\ \A n \in Removable : Present(Slot[n]) => n \in qdirs

\* Contents a person saved under any public name stay on disk, in a tree that
\* is complete, until a publication that was rendered from them is installed.
EditsSurvive == \A d \in owed : \E n \in Names : fs[n].k = "tree" /\ fs[n].d = d

\* When recovery or a publication returns without an error, nothing of the
\* protocol is left beside a corpus.
SuccessIsClean ==
  \A r \in Renderers : At(r, "recovered") =>
     /\ qdirs = {} /\ HasCorpus("target")
     /\ \A n \in Names \ {"target"} : ~Present(n)

\* Whatever died where and whatever was edited, unless a call failed with an
\* error in the middle, the journal files recovery finds are explained: two phases of one journal, one authority, and none only if
\* nothing is parked.
JournalExplained ==
  errors = 0 =>
     /\ "authority" \notin refused
     /\ \A r \in Renderers : At(r, "replacement") =>
          /\ Present("authority") => /\ ~Present("next")
                                    /\ IsJournalPhaseSuccessor(fs["previous"], fs["authority"])
          /\ Present("next") => IsJournalPhaseSuccessor(fs["previous"], fs["next"])

\* Recovery refuses nothing but a retired tree whose removal was interrupted, a
\* restoration whose stage is already gone, after a call that failed two
\* authorities, and after an edit the trees that are not the journaled ones.
RefusalsAreKnown ==
  refused \subseteq {"retirement", "installed pair", "finished target"}
     \cup (IF errors > 0 THEN {"authority"} ELSE {})
     \cup (IF edits > 0 THEN {"impossible", "installed target", "parked backup", "restored target"} ELSE {})

\* What recovery restores is what was parked: without edits the corpus is always
\* one that was live or one that was completely rendered.
CorpusIsWhole == edits = 0 /\ HasCorpus("target") => fs["target"].d # 0

\* transaction.go calls the transaction crash-recoverable: without edits the
\* removal of the old corpus can be finished after a crash.
RetirementRecoverable == edits = 0 => "retirement" \notin refused

\* The comment on recoverJournalReplacement says that a crash either restores the
\* previous phase or finishes its successor; a call that failed in the middle of
\* the transition has to leave files of that kind too.
TransitionRecoverable == edits = 0 => "authority" \notin refused

\* The same for a rollback: a crash between the removal of the stage and the
\* retirement of the journal can be finished.
RestorationRecoverable == edits = 0 => "finished target" \notin refused
=============================================================================
