------------------------------ MODULE FormalTx ------------------------------
(***************************************************************************)
(* The transaction that replaces generated formal artifacts as one set      *)
(* (internal/formal: commitGeneratedArtifactsRoot, recoverFormalTransaction)*)
(* Staged files come first, then a journal with their witnesses, then old   *)
(* files are parked and staged ones installed, each rename followed by a    *)
(* record of the witness it produced.                                       *)
(*                                                                          *)
(* A witness is the native object and a generation stamp.  Where the file   *)
(* system has no birth time the stamp is the change time, which every       *)
(* rename advances: ChangeTime says which kind this is.                     *)
(***************************************************************************)
EXTENDS Naturals, Sequences, FiniteSets

CONSTANTS NTargets,   \* generated files, ordered by name
          ChangeTime, \* TRUE: a rename changes the witness (Linux)
          MaxCalls, MaxEdits, MaxErrors


Targets == 1..NTargets
FileNames == {"target", "stage", "backup", "q"}
JournalNames == {"journal", "jretire", "qjournal", "qfailed"}
Phases == <<"prepared", "parking", "installing", "committed">>

VARIABLES
  file,    \* file[t][n]: what name n of target t holds; q is inside a quarantine
  qsrc,    \* qsrc[t]: name recorded by the deletion quarantine of t, or "none"
  jf, qj,  \* what each journal name holds; journal quarantines that exist
  pc, ops, rm, \* next step, operations left, removal in progress
  mem,     \* the call: what it generates and drops, where recovery returns, its plan
  refused, \* reasons for which a call was refused
  owed,    \* contents not yet superseded
  made,    \* those of files people made while the old one was parked
  base, goal, \* digests of the live files before and after the transaction
  fresh, calls, edits, errors

vars == <<file, qsrc, jf, qj, pc, ops, rm, mem, refused, owed, made, base, goal, fresh, calls, edits, errors>>
bounds == <<calls, edits, errors>>
disk == <<file, qsrc, jf, qj>>

None == [k |-> "none"]
TornHeader == [k |-> "torn"]
\* A file: contents d (0 when unfinished), native object i, generation stamp g.
File(d, i) == [k |-> "file", d |-> d, i |-> i, g |-> 0]
\* What a rename makes of a file.
Renamed(f) == IF ChangeTime THEN [f EXCEPT !.g = @ + 1] ELSE f

Exists(t, n) == file[t][n] # None
\* formalRegularSnapshot with formalNativeWitness: contents, object and stamp.
Matches(t, n, f) == file[t][n] = f
\* sameFormalNativeObject, with the contents.
SameObject(a, b) == a.k = "file" /\ b.k = "file" /\ a.d = b.d /\ a.i = b.i
LiveDigest(t) == IF Exists(t, "target") THEN file[t]["target"].d ELSE 0
Live == [t \in Targets |-> LiveDigest(t)]

NoMem == [want |-> {}, drop |-> {}, ret |-> "none", gen |-> 0, plan |-> <<>>]
NoRm == [step |-> "none", t |-> 1, from |-> "none", f |-> None]

Init ==
  /\ file = [t \in Targets |-> [n \in FileNames |->
               IF n = "target" /\ t # NTargets THEN File(t, t) ELSE None]]
  /\ qsrc = [t \in Targets |-> "none"]
  /\ jf = [n \in JournalNames |-> None] /\ qj = {}
  /\ pc = "idle" /\ ops = <<>> /\ rm = NoRm /\ mem = NoMem
  /\ refused = {} /\ owed = {<<t, t>> : t \in 1..(NTargets - 1)}
  /\ made = {} /\ base = Live /\ goal = base
  /\ fresh = NTargets + 1
  /\ calls = 0 /\ edits = 0 /\ errors = 0

-----------------------------------------------------------------------------
(* The journal. *)

Phase(j) == Phases[j.phase]
Existed(e) == e.old # None
First(S) == CHOOSE t \in S : \A o \in S : t <= o

\* Records still to come in the current phase: the witness of each parked old
\* file, then of each installed new one.
Unrecorded(j) ==
  CASE Phase(j) = "parking" -> {t \in DOMAIN j.ent : Existed(j.ent[t]) /\ ~j.ent[t].parked}
    [] Phase(j) = "installing" -> {t \in DOMAIN j.ent : ~j.ent[t].deletes /\ ~j.ent[t].installed}
    [] OTHER -> {}

\* recoverableFormalWitnessTail: an unfinished witness record is derived again from
\* the file it was about, if that is still where the rename put it.  (A fragment
\* is taken to end before the stamp.)
TailAt(j) == IF Phase(j) = "parking" THEN "backup" ELSE "target"
TailFrom(j) == IF Phase(j) = "parking" THEN "target" ELSE "stage"
TailImage(j, t) == IF Phase(j) = "parking" THEN j.ent[t].old ELSE j.ent[t].new
TailProblem(j) ==
  /\ j.frag /\ Unrecorded(j) # {}
  /\ LET t == First(Unrecorded(j)) IN
       Exists(t, TailFrom(j)) \/ ~SameObject(file[t][TailAt(j)], TailImage(j, t))

\* parseFormalJournal: the entries with the witnesses recorded so far, the derived
\* one included.
Parsed(j) ==
  IF ~j.frag \/ Unrecorded(j) = {} THEN j.ent
  ELSE LET t == First(Unrecorded(j)) IN
       IF Phase(j) = "parking" THEN [j.ent EXCEPT ![t].old = file[t]["backup"]]
       ELSE [j.ent EXCEPT ![t].new = file[t]["target"]]

Journal == jf["journal"]
Isolated == jf["jretire"]

-----------------------------------------------------------------------------
(* Control. *)

Go(l) == pc' = l
Plain == UNCHANGED <<refused, owed, made, base, goal, fresh, bounds>>
Move(t, a, b) == file' = [file EXCEPT ![t][b] = Renamed(file[t][a]), ![t][a] = None]
MoveJournal(a, b) == jf' = [jf EXCEPT ![b] = jf[a], ![a] = None]
Leave == pc' = "idle" /\ ops' = <<>> /\ mem' = NoMem /\ rm' = NoRm

\* recoverFormalTransaction returns an error; the deferred
\* restoreFormalRecoveryAuthority runs once the journal is isolated.
RecoveryFails ==
  IF pc \in {"entries", "preflight", "operate", "final"}
  THEN Go("restoreJournal") /\ ops' = <<>> /\ rm' = NoRm /\ UNCHANGED mem
  ELSE Leave

Refuse(why) ==
  /\ refused' = refused \cup why /\ RecoveryFails
  /\ UNCHANGED <<disk, owed, made, base, goal, fresh, bounds>>

FailCall == Go("recover") /\ mem' = [mem EXCEPT !.ret = "failed"] /\ UNCHANGED <<ops, rm>>

-----------------------------------------------------------------------------
(* recoverFormalTransaction. *)

\* acquireDesignLock, then recovery.
BeginCall(want, drop) ==
  /\ pc = "idle" /\ calls < MaxCalls /\ calls' = calls + 1
  /\ Go("recover") /\ mem' = [NoMem EXCEPT !.want = want, !.drop = drop, !.ret = "plan"]
  /\ UNCHANGED <<disk, ops, rm, refused, owed, made, base, goal, fresh, edits, errors>>

\* The first pass looks only for the quarantine of a recovering journal: an empty
\* one is retired, a held journal is put back.
ResumeJournal ==
  /\ pc = "recover" /\ "qjournal" \in qj
  /\ IF jf["qjournal"] # None THEN MoveJournal("qjournal", "jretire") ELSE UNCHANGED jf
  /\ qj' = qj \ {"qjournal"}
  /\ UNCHANGED <<file, qsrc, pc, ops, rm, mem>> /\ Plain

\* Quarantines that no journal explains: a staged file is finished, any other
\* source is refused.
UnjournaledSources ==
  {qsrc[t] : t \in {o \in Targets : qsrc[o] \notin {"none", "stage"}}} \cup {"journal" : q \in qj}

UnjournaledRefused ==
  /\ pc = "recover" /\ "qjournal" \notin qj /\ Journal = None /\ Isolated = None
  /\ UnjournaledSources # {}
  /\ Refuse({"quarantine source"})

FinishUnjournaledStage(t) ==
  /\ pc = "recover" /\ "qjournal" \notin qj /\ Journal = None /\ Isolated = None
  /\ UnjournaledSources = {} /\ qsrc[t] = "stage"
  /\ IF Exists(t, "q") THEN file' = [file EXCEPT ![t]["q"] = None] /\ UNCHANGED qsrc
     ELSE qsrc' = [qsrc EXCEPT ![t] = "none"] /\ UNCHANGED file
  /\ UNCHANGED <<jf, qj, pc, ops, rm, mem>> /\ Plain

NothingToRecover ==
  /\ pc = "recover" /\ qj = {} /\ Journal = None /\ Isolated = None
  /\ \A t \in Targets : qsrc[t] = "none"
  /\ IF mem.ret = "plan" THEN Go("plan") /\ UNCHANGED <<ops, rm, mem>> ELSE Leave
  /\ UNCHANGED disk /\ Plain

AuthorityProblems ==
  {why \in {"two journals", "header", "tail"} :
     CASE why = "two journals" -> Journal # None /\ Isolated # None
       [] why = "header" -> \E n \in {"journal", "jretire"} : jf[n] = TornHeader
       [] why = "tail" -> \E n \in {"journal", "jretire"} : jf[n].k = "journal" /\ TailProblem(jf[n])}

AuthorityRefused ==
  /\ pc = "recover" /\ "qjournal" \notin qj /\ AuthorityProblems # {}
  /\ Refuse(AuthorityProblems)

\* acquireFormalRecoveryJournal isolates the journal, or resumes an isolated one;
\* what it parsed is kept.
AcquireJournal ==
  /\ pc = "recover" /\ "qjournal" \notin qj /\ AuthorityProblems = {}
  /\ \/ Journal # None /\ MoveJournal("journal", "jretire") /\ mem' = [mem EXCEPT !.plan = Parsed(Journal)]
     \/ Isolated # None /\ UNCHANGED jf /\ mem' = [mem EXCEPT !.plan = Parsed(Isolated)]
  /\ Go("entries")
  /\ UNCHANGED <<file, qsrc, qj, ops, rm>> /\ Plain

\* The second pass: deletion quarantines of journaled names are undone.  A file
\* made under the name of a quarantined one is in the way.
QuarantineProblems ==
  {why \in {"quarantine source", "occupied"} :
     CASE why = "quarantine source" -> qj # {} \/ \E t \in Targets : qsrc[t] # "none" /\ t \notin DOMAIN mem.plan
       [] why = "occupied" -> \E t \in Targets : qsrc[t] # "none" /\ Exists(t, "q") /\ Exists(t, qsrc[t])}

QuarantineRefused ==
  /\ pc = "entries" /\ QuarantineProblems # {}
  /\ Refuse(QuarantineProblems)

UndoQuarantine(t) ==
  /\ pc = "entries" /\ QuarantineProblems = {} /\ qsrc[t] # "none"
  /\ IF Exists(t, "q") THEN Move(t, "q", qsrc[t]) ELSE UNCHANGED file
  /\ qsrc' = [qsrc EXCEPT ![t] = "none"]
  /\ UNCHANGED <<jf, qj, pc, ops, rm, mem>> /\ Plain

QuarantinesDone ==
  /\ pc = "entries" /\ qj = {} /\ \A t \in Targets : qsrc[t] = "none"
  /\ Go("preflight") /\ UNCHANGED <<disk, ops, rm, mem>> /\ Plain

\* The witnesses recovery works with: a rename whose record never reached the
\* journal is recognised by its native object.
Effective(j, t) ==
  LET e == mem.plan[t]
      o == IF SameObject(file[t]["backup"], e.old) THEN file[t]["backup"] ELSE e.old
      n == IF /\ Phase(j) = "installing" /\ ~e.deletes /\ ~Exists(t, "stage")
              /\ SameObject(file[t]["target"], e.new)
           THEN file[t]["target"] ELSE e.new
  IN [e EXCEPT !.old = o, !.new = n]

\* validateFormalRecoveryState, and the checks of stage and backup before it.
EntryProblems(j, t) ==
  LET e == Effective(j, t)
      targetOld == Existed(e) /\ Matches(t, "target", e.old)
      targetNew == ~e.deletes /\ Matches(t, "target", e.new)
      backup == Exists(t, "backup")
      target == Exists(t, "target")
      phase == Phase(j) IN
  {why \in {"stage", "backup", "prepared", "parking", "installing", "committed", "late stage"} :
     CASE why = "stage" -> Exists(t, "stage") /\ ~Matches(t, "stage", e.new)
       [] why = "backup" -> backup /\ ~Matches(t, "backup", e.old)
       [] why = "prepared" -> phase = why /\ (backup \/ (Existed(e) /\ ~targetOld) \/ (~Existed(e) /\ target))
       [] why = "parking" -> phase = why /\ IF Existed(e) THEN targetNew \/ targetOld = backup ELSE target \/ backup
       [] why = "installing" ->
            phase = why /\ IF Existed(e) THEN ~((backup /\ (~target \/ targetNew)) \/ (~backup /\ targetOld))
                           ELSE backup \/ (target /\ ~targetNew)
       [] why = "committed" -> phase = why /\ IF e.deletes THEN target ELSE ~targetNew
       [] why = "late stage" -> phase = "committed" /\ Exists(t, "stage")}

Problems(j) == UNION {EntryProblems(j, t) : t \in DOMAIN mem.plan}

PreflightRefused ==
  /\ pc = "preflight" /\ Problems(Isolated) # {}
  /\ Refuse(Problems(Isolated))

Op(what, t, from) == [what |-> what, t |-> t, from |-> from, f |-> file[t][from]]
When(c, op) == IF c THEN <<op>> ELSE <<>>
FinalizeOps(t) == When(Exists(t, "backup"), Op("remove", t, "backup"))

\* Mutant of RollbackOps: an added file stays.
RollbackOpsKeepsAdded(t, e) ==
  (IF Existed(e) /\ Exists(t, "backup")
   THEN When(Exists(t, "target"), Op("remove", t, "target")) \o <<Op("restore", t, "backup")>>
   ELSE <<>>)
  \o When(Exists(t, "stage"), Op("remove", t, "stage"))

RollbackOps(t, e) ==
  (IF Existed(e) /\ Exists(t, "backup")
   THEN When(Exists(t, "target"), Op("remove", t, "target")) \o <<Op("restore", t, "backup")>>
   ELSE When(~Existed(e) /\ Exists(t, "target"), Op("remove", t, "target")))
  \o When(Exists(t, "stage"), Op("remove", t, "stage"))

OpsFrom(j) ==
  LET order == [i \in 1..NTargets |-> IF Phase(j) = "committed" THEN i ELSE NTargets + 1 - i]
      ofTarget(t) == IF t \notin DOMAIN mem.plan THEN <<>>
                     ELSE IF Phase(j) = "committed" THEN FinalizeOps(t) ELSE RollbackOps(t, mem.plan[t])
      upTo[i \in 0..NTargets] == IF i = 0 THEN <<>> ELSE upTo[i - 1] \o ofTarget(order[i])
  IN upTo[NTargets]

Preflight ==
  /\ pc = "preflight" /\ Problems(Isolated) = {}
  /\ ops' = OpsFrom(Isolated) /\ Go("operate")
  /\ UNCHANGED <<disk, rm, mem>> /\ Plain

\* Each operation first compares with the preflight snapshot (requireFormalSnapshot).
OpProblem(op) ==
  ~Matches(op.t, op.from, op.f) \/ (op.what = "restore" /\ Exists(op.t, "target"))

OpRefused ==
  /\ pc = "operate" /\ ops # <<>> /\ rm = NoRm /\ OpProblem(Head(ops))
  /\ Refuse({"changed"})

RestoreBackup ==
  LET op == Head(ops) IN
  /\ pc = "operate" /\ ops # <<>> /\ rm = NoRm /\ op.what = "restore" /\ ~OpProblem(op)
  /\ Move(op.t, "backup", "target") /\ ops' = Tail(ops)
  /\ UNCHANGED <<qsrc, jf, qj, pc, rm, mem>> /\ Plain

\* Mutant of BeginRemove: the quarantine records its own entry name.
BeginRemoveMisnamed ==
  LET op == Head(ops) IN
  /\ pc \in {"operate", "cleanup"} /\ ops # <<>> /\ rm = NoRm /\ op.what = "remove" /\ ~OpProblem(op)
  /\ qsrc' = [qsrc EXCEPT ![op.t] = "q"]
  /\ rm' = [step |-> "move", t |-> op.t, from |-> op.from, f |-> op.f]
  /\ UNCHANGED <<file, jf, qj, pc, ops, mem>> /\ Plain

\* removeFormalSnapshotExact: a quarantine that records the name, the move, the
\* comparison, the removal and the end of the directory.
BeginRemove ==
  LET op == Head(ops) IN
  /\ pc \in {"operate", "cleanup"} /\ ops # <<>> /\ rm = NoRm /\ op.what = "remove" /\ ~OpProblem(op)
  /\ qsrc' = [qsrc EXCEPT ![op.t] = op.from]
  /\ rm' = [step |-> "move", t |-> op.t, from |-> op.from, f |-> op.f]
  /\ UNCHANGED <<file, jf, qj, pc, ops, mem>> /\ Plain

RmMove ==
  /\ rm.step = "move" /\ Exists(rm.t, rm.from)
  /\ Move(rm.t, rm.from, "q") /\ rm' = [rm EXCEPT !.step = "check"]
  /\ UNCHANGED <<qsrc, jf, qj, pc, ops, mem>> /\ Plain

RmHeldChanged ==
  /\ rm.step = "check" /\ ~SameObject(file[rm.t]["q"], rm.f)
  /\ Refuse({"changed"})

\* Mutant of RmDelete: whatever is in the quarantine is removed.
RmDeleteBlindly ==
  /\ rm.step = "check"
  /\ file' = [file EXCEPT ![rm.t]["q"] = None] /\ rm' = [rm EXCEPT !.step = "rmdir"]
  /\ UNCHANGED <<qsrc, jf, qj, pc, ops, mem>> /\ Plain

RmDelete ==
  /\ rm.step = "check" /\ SameObject(file[rm.t]["q"], rm.f)
  /\ file' = [file EXCEPT ![rm.t]["q"] = None] /\ rm' = [rm EXCEPT !.step = "rmdir"]
  /\ UNCHANGED <<qsrc, jf, qj, pc, ops, mem>> /\ Plain

RmRmdir ==
  /\ rm.step = "rmdir"
  /\ qsrc' = [qsrc EXCEPT ![rm.t] = "none"] /\ rm' = NoRm /\ ops' = Tail(ops)
  /\ UNCHANGED <<file, jf, qj, pc, mem>> /\ Plain

Removal == BeginRemove \/ RmMove \/ RmHeldChanged \/ RmDelete \/ RmRmdir

\* The final comparison of every target with the image it must have now, and of
\* every scratch name with nothing.
FinalProblem ==
  \E t \in DOMAIN mem.plan :
    \/ LiveDigest(t) # (IF Phase(Isolated) = "committed"
                        THEN (IF mem.plan[t].deletes THEN 0 ELSE mem.plan[t].new.d)
                        ELSE (IF Existed(mem.plan[t]) THEN mem.plan[t].old.d ELSE 0))
    \/ Exists(t, "stage") \/ Exists(t, "backup")

FinalRefused ==
  /\ pc = "operate" /\ ops = <<>> /\ FinalProblem
  /\ Refuse({"changed"})

\* Mutant of RetireJournal: a committed journal goes while a backup is left.
RetireJournalEarly ==
  /\ pc = "operate" /\ rm = NoRm
  /\ IF Phase(Isolated) = "committed" THEN Len(ops) <= 1 ELSE ops = <<>> /\ ~FinalProblem
  /\ qj' = qj \cup {"qjournal"} /\ MoveJournal("jretire", "qjournal") /\ Go("dropJournal")
  /\ UNCHANGED <<file, qsrc, ops, rm, mem>> /\ Plain

RetireJournal ==
  /\ pc = "operate" /\ ops = <<>> /\ ~FinalProblem
  /\ qj' = qj \cup {"qjournal"} /\ MoveJournal("jretire", "qjournal") /\ Go("dropJournal")
  /\ UNCHANGED <<file, qsrc, ops, rm, mem>> /\ Plain

\* Mutant of DropJournal: the empty quarantine stays.
DropJournalKeepsDirectory ==
  /\ pc = "dropJournal"
  /\ IF jf["qjournal"] # None
     THEN jf' = [jf EXCEPT !["qjournal"] = None] /\ UNCHANGED <<pc, ops, rm, mem>>
     ELSE /\ UNCHANGED jf
          /\ IF mem.ret = "commit" THEN Go("done") /\ UNCHANGED <<ops, rm, mem>> ELSE Leave
  /\ UNCHANGED <<file, qsrc, qj>> /\ Plain

DropJournal ==
  /\ pc = "dropJournal"
  /\ IF jf["qjournal"] # None
     THEN jf' = [jf EXCEPT !["qjournal"] = None] /\ UNCHANGED <<qj, pc, ops, rm, mem>>
     ELSE /\ qj' = qj \ {"qjournal"} /\ UNCHANGED jf
          /\ CASE mem.ret = "plan" -> Go("plan") /\ UNCHANGED <<ops, rm, mem>>
               [] mem.ret = "commit" -> Go("done") /\ UNCHANGED <<ops, rm, mem>>
               [] OTHER -> Leave
  /\ UNCHANGED <<file, qsrc>> /\ Plain

RestoreJournal ==
  /\ pc = "restoreJournal"
  /\ MoveJournal("jretire", "journal")
  /\ Leave /\ UNCHANGED <<file, qsrc, qj>> /\ Plain

-----------------------------------------------------------------------------
(* commitGeneratedArtifactsRoot after recovery. *)

\* Mutant of Planned: retired artifacts are forgotten.
PlannedWithoutDrops == IF mem.want = {} THEN mem.drop ELSE mem.want

Planned == mem.want \cup mem.drop
Scratch == {"stage", "backup"}
Orphan == \E t \in Planned, n \in Scratch : Exists(t, n)

\* Scratch without a journal stops the call.
PlanRefused ==
  /\ pc = "plan" /\ Orphan
  /\ refused' = refused \cup {"orphan scratch"} /\ Leave
  /\ UNCHANGED <<disk, owed, made, base, goal, fresh, bounds>>

\* Nothing to do, or a drop of what is not there.
NothingPlanned ==
  /\ pc = "plan" /\ ~Orphan /\ (Planned = {} \/ \E t \in mem.drop : ~Exists(t, "target"))
  /\ Leave /\ UNCHANGED disk /\ Plain

Plan ==
  /\ pc = "plan" /\ Planned # {} /\ ~Orphan
  /\ \A t \in mem.drop : Exists(t, "target")
  /\ mem' = [mem EXCEPT !.gen = fresh,
               !.plan = [t \in Planned |-> [deletes |-> t \in mem.drop, old |-> file[t]["target"],
                                            new |-> None, parked |-> FALSE, installed |-> FALSE]]]
  /\ base' = Live
  /\ goal' = [t \in Targets |-> IF t \in mem.want THEN fresh ELSE IF t \in mem.drop THEN 0 ELSE LiveDigest(t)]
  /\ fresh' = fresh + 1 /\ Go("stage")
  /\ UNCHANGED <<disk, ops, rm, refused, owed, made, bounds>>

Unstaged == {t \in mem.want : mem.plan[t].new = None}

CreateStage ==
  /\ pc = "stage" /\ Unstaged # {} /\ ~Exists(First(Unstaged), "stage")
  /\ file' = [file EXCEPT ![First(Unstaged)]["stage"] = File(0, fresh)] /\ fresh' = fresh + 1
  /\ UNCHANGED <<qsrc, jf, qj, pc, ops, rm, mem, refused, owed, made, base, goal, bounds>>

\* The contents, then the witness of the finished file.
WriteStage ==
  /\ pc = "stage" /\ Unstaged # {} /\ Exists(First(Unstaged), "stage")
  /\ LET t == First(Unstaged)
         f == [file[t]["stage"] EXCEPT !.d = mem.gen] IN
       /\ file' = [file EXCEPT ![t]["stage"] = f]
       /\ mem' = [mem EXCEPT !.plan[t].new = f]
  /\ UNCHANGED <<qsrc, jf, qj, pc, ops, rm>> /\ Plain

CreateJournal ==
  /\ pc = "stage" /\ Unstaged = {}
  /\ jf' = [jf EXCEPT !["journal"] = TornHeader] /\ Go("header")
  /\ UNCHANGED <<file, qsrc, qj, ops, rm, mem>> /\ Plain

WriteHeader ==
  /\ pc = "header"
  /\ jf' = [jf EXCEPT !["journal"] = [k |-> "journal", phase |-> 1, frag |-> FALSE, ent |-> mem.plan]]
  /\ Go("prepared")
  /\ UNCHANGED <<file, qsrc, qj, ops, rm, mem>> /\ Plain

\* cleanupUnjournaledStages removes the finished stages, last first.
StageRemovals(S) ==
  LET nth(i) == CHOOSE t \in S : Cardinality({o \in S : o > t}) = i - 1 IN
  [i \in 1..Cardinality(S) |-> Op("remove", nth(i), "stage")]

\* cleanupCreatedFormalJournal: into its quarantine, then gone.
CleanupHeader ==
  /\ pc = "cleanupHeader"
  /\ IF Journal # None THEN qj' = qj \cup {"qfailed"} /\ MoveJournal("journal", "qfailed") /\ UNCHANGED <<pc, ops>>
     ELSE IF jf["qfailed"] # None THEN jf' = [jf EXCEPT !["qfailed"] = None] /\ UNCHANGED <<qj, pc, ops>>
     ELSE /\ qj' = qj \ {"qfailed"} /\ UNCHANGED jf
          /\ Go("cleanup")
          /\ ops' = StageRemovals(mem.want)
  /\ UNCHANGED <<file, qsrc, rm, mem>> /\ Plain

CleanupDone ==
  /\ pc = "cleanup" /\ ops = <<>>
  /\ Leave /\ UNCHANGED disk /\ Plain

\* The renamed file is still the one the transaction moved.
RenamedIntact ==
  LET t == First(Unrecorded(Journal)) IN SameObject(file[t][TailAt(Journal)], TailImage(Journal, t))

\* The next record: the witness of what was just renamed, or the next phase.
ReadyToRecord ==
  \/ pc \in {"parked", "installed"} /\ RenamedIntact
  \/ (pc \in {"prepared", "parking", "installing"} /\ Unrecorded(Journal) = {})

\* A committed set supersedes exactly what its journal witnessed.
Superseded ==
  {<<t, Journal.ent[t].old.d>> : t \in {o \in DOMAIN Journal.ent : Existed(Journal.ent[o])}}

Record ==
  /\ ReadyToRecord
  /\ IF pc = "parked" THEN
       LET t == First(Unrecorded(Journal)) IN
       /\ jf' = [jf EXCEPT !["journal"].ent[t].old = file[t]["backup"], !["journal"].ent[t].parked = TRUE]
       /\ Go("parking") /\ UNCHANGED <<mem, owed, made>>
     ELSE IF pc = "installed" THEN
       LET t == First(Unrecorded(Journal)) IN
       /\ jf' = [jf EXCEPT !["journal"].ent[t].new = file[t]["target"], !["journal"].ent[t].installed = TRUE]
       /\ Go("installing") /\ UNCHANGED <<mem, owed, made>>
     ELSE
       /\ jf' = [jf EXCEPT !["journal"].phase = @ + 1]
       /\ IF Phases[Journal.phase + 1] = "committed"
          THEN /\ Go("recover") /\ mem' = [mem EXCEPT !.ret = "commit"]
               /\ made' = made \ Superseded
               /\ owed' = (owed \ Superseded)
                          \cup {<<t, mem.gen>> : t \in {o \in mem.want : LiveDigest(o) = mem.gen}}
          ELSE Go(Phases[Journal.phase + 1]) /\ UNCHANGED <<mem, owed, made>>
  /\ UNCHANGED <<file, qsrc, qj, ops, rm, refused, base, goal, fresh, bounds>>

\* The writer dies in the middle of an append, or the append fails half way.
RecordTorn(failing) ==
  /\ ReadyToRecord
  /\ jf' = [jf EXCEPT !["journal"].frag = TRUE]
  /\ IF failing THEN errors < MaxErrors /\ errors' = errors + 1 /\ FailCall
     ELSE Leave /\ UNCHANGED errors
  /\ UNCHANGED <<file, qsrc, qj, refused, owed, made, base, goal, fresh, calls, edits>>

\* requireFormalDurableWitness before parking and installing, and the look at the
\* renamed file.
Park ==
  /\ pc = "parking" /\ Unrecorded(Journal) # {}
  /\ LET t == First(Unrecorded(Journal)) IN
       IF Matches(t, "target", Journal.ent[t].old)
       THEN Move(t, "target", "backup") /\ Go("parked") /\ UNCHANGED <<ops, rm, mem>>
       ELSE UNCHANGED file /\ FailCall
  /\ UNCHANGED <<qsrc, jf, qj>> /\ Plain

Install ==
  /\ pc = "installing" /\ Unrecorded(Journal) # {}
  /\ LET t == First(Unrecorded(Journal)) IN
       IF ~Exists(t, "target") /\ Matches(t, "stage", Journal.ent[t].new)
       THEN Move(t, "stage", "target") /\ Go("installed") /\ UNCHANGED <<ops, rm, mem>>
       ELSE UNCHANGED file /\ FailCall
  /\ UNCHANGED <<qsrc, jf, qj>> /\ Plain

\* The renamed file was changed before its witness was taken.
RenamedChanged ==
  /\ pc \in {"parked", "installed"} /\ ~RenamedIntact
  /\ FailCall /\ UNCHANGED disk /\ Plain

CallDone ==
  /\ pc = "done" /\ Leave /\ UNCHANGED disk /\ Plain

-----------------------------------------------------------------------------
(* Faults and people. *)

Crash == pc # "idle" /\ Leave /\ UNCHANGED disk /\ Plain

IOError ==
  /\ errors < MaxErrors /\ errors' = errors + 1
  /\ CASE pc \in {"prepared", "parking", "parked", "installing", "installed"} -> FailCall
       [] pc = "header" -> Go("cleanupHeader") /\ UNCHANGED <<ops, rm, mem>>
       [] pc = "stage" ->
            /\ Go("cleanup") /\ UNCHANGED <<rm, mem>>
            /\ ops' = StageRemovals({t \in mem.want : mem.plan[t].new # None})
       [] pc \in {"recover", "entries", "operate", "cleanup"} -> RecoveryFails
       [] OTHER -> FALSE
  /\ UNCHANGED <<disk, refused, owed, made, base, goal, fresh, calls, edits>>

\* A person rewrites a live or parked file.
Edit(t, n) ==
  /\ edits < MaxEdits /\ edits' = edits + 1
  /\ Exists(t, n)
  /\ file' = [file EXCEPT ![t][n] = File(fresh, fresh)]
  /\ owed' = (owed \ {<<t, file[t][n].d>>}) \cup {<<t, fresh>>}
  /\ fresh' = fresh + 1
  /\ UNCHANGED <<qsrc, jf, qj, pc, ops, rm, mem, refused, made, base, goal, calls, errors>>

\* A person makes a file where none is, or where the old one is parked.
Make(t) ==
  /\ edits < MaxEdits /\ edits' = edits + 1
  /\ ~Exists(t, "target")
  /\ file' = [file EXCEPT ![t]["target"] = File(fresh, fresh)]
  /\ made' = IF Exists(t, "backup") THEN made \cup {<<t, fresh>>} ELSE made
  /\ owed' = IF Exists(t, "backup") THEN owed ELSE owed \cup {<<t, fresh>>}
  /\ fresh' = fresh + 1
  /\ UNCHANGED <<qsrc, jf, qj, pc, ops, rm, mem, refused, base, goal, calls, errors>>

Recovery ==
  \/ ResumeJournal \/ UnjournaledRefused \/ NothingToRecover \/ AuthorityRefused \/ AcquireJournal
  \/ QuarantineRefused \/ QuarantinesDone \/ PreflightRefused \/ Preflight
  \/ \E t \in Targets : FinishUnjournaledStage(t) \/ UndoQuarantine(t)
  \/ OpRefused \/ RestoreBackup \/ Removal \/ FinalRefused \/ RetireJournal \/ DropJournal \/ RestoreJournal

Publication ==
  \/ PlanRefused \/ NothingPlanned \/ Plan \/ CreateStage \/ WriteStage \/ CreateJournal \/ WriteHeader
  \/ CleanupHeader \/ CleanupDone \/ Record \/ (\E b \in BOOLEAN : RecordTorn(b)) \/ Park \/ Install
  \/ RenamedChanged \/ CallDone

Next ==
  \/ \E want, drop \in SUBSET Targets : want \cap drop = {} /\ BeginCall(want, drop)
  \/ Recovery \/ Publication \/ Crash \/ IOError
  \/ \E t \in Targets, n \in {"target", "backup"} : Edit(t, n)
  \/ \E t \in Targets : Make(t)

Spec == Init /\ [][Next]_vars

-----------------------------------------------------------------------------
(* Properties. *)

TypeOK ==
  /\ \A t \in Targets, n \in FileNames : file[t][n].k \in {"none", "file"}
  /\ qsrc \in [Targets -> {"none", "target", "stage", "backup"}]
  /\ qj \subseteq {"qjournal", "qfailed"}
  /\ \A n \in JournalNames : jf[n].k \in {"none", "torn", "journal"}
  /\ calls <= MaxCalls /\ edits <= MaxEdits /\ errors <= MaxErrors

Authority == \E n \in {"journal", "jretire", "qjournal"} : jf[n] # None

\* Whenever no journal is left the live files are the ones found or the ones
\* generated, all of one set.
AllOrNothing == ~Authority /\ edits = 0 => Live \in {base, goal}

\* Every content a person saved, or an earlier call published, is under some name
\* until a committed set that witnessed it supersedes it.  Not promised: a file
\* that a person makes under a target name while the old file is parked; in phase
\* parking validateFormalRecoveryState lets it pass and the rollback removes it
\* (transaction.go:1267-1275, 1491-1495).
Kept(o) == \E n \in FileNames : file[o[1]][n].k = "file" /\ file[o[1]][n].d = o[2]
FilesSurvive == \A o \in owed : Kept(o)

\* What FilesSurvive leaves out: a file that someone makes under a target name
\* while the old one is parked is kept until a call that planned around it
\* commits.  TLC refutes it.
MadeFilesSurvive == \A o \in made : Kept(o)

\* A call that succeeds leaves no journal, scratch or quarantine of its targets.
SuccessIsClean ==
  pc = "done" =>
    /\ ~Authority /\ qj = {} /\ (edits = 0 => Live = goal)
    /\ \A t \in Planned : qsrc[t] = "none" /\ ~Exists(t, "stage") /\ ~Exists(t, "backup")

\* Backups never exist without the journal that can restore them.
BackupsExplained == (\E t \in Targets : Exists(t, "backup")) => Authority

\* Calls are refused only for what a crash or an error leaves and recovery knows
\* not how to finish, or because a person changed files under it.  Where a
\* rename advances the witness (the change time, on Linux) this includes a
\* rollback that was interrupted after it had put a file back: every later call
\* is refused, because the witness it finds is not the journaled one
\* (transaction.go:1200, 1482-1509).
RefusalsAreKnown ==
  refused \subseteq {"header", "tail", "orphan scratch", "quarantine source"}
    \cup (IF edits > 0 THEN {"changed", "occupied", "prepared", "parking", "installing", "committed", "backup"} ELSE {})
    \cup (IF ChangeTime THEN {"parking", "installing", "stage"} ELSE {})

\* A rollback that is interrupted can be taken up again by the next call.  TLC
\* refutes it where ChangeTime.
RollbackRestartable == refused \cap {"parking", "installing", "stage"} = {}

\* An unfinished witness record never stops recovery.
TailRecoverable == "tail" \notin refused
=============================================================================
