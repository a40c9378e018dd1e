------------------------------- MODULE PackTx -------------------------------
(***************************************************************************)
(* The pack-set transaction (internal/pack): every subsystem pack of a      *)
(* design is replaced, added or deleted as one set.  An append-only journal *)
(* records a witness of each tree and the phase reached; the next call, or  *)
(* the failing one, finalises a committed set and rolls back any other.     *)
(*                                                                          *)
(* A step is one rename, creation, append or removal with its directory     *)
(* sync.  The writer may crash between any two steps, an I/O error may fail *)
(* one, and a person may edit packs.  The advisory lock lets one writer in, *)
(* so a single writer is modelled.                                          *)
(***************************************************************************)
EXTENDS Naturals, Sequences, FiniteSets

CONSTANTS NPacks,     \* subsystems a design may have, ordered by name
          MaxCalls,   \* writePacks calls
          MaxEdits,   \* edits by people
          MaxErrors   \* I/O errors that fail a step


Packs == 1..NPacks
TreeNames == {"target", "stage", "backup", "retire", "q"}
JournalNames == {"journal", "jretire", "qjournal", "qfailed"}
Phases == <<"prepared", "staged", "parking", "installing", "committed">>

VARIABLES
  tree,    \* tree[p][n]: what name n of pack p holds; q is inside a quarantine
  qsrc,    \* qsrc[p]: name recorded by the deletion quarantine of p, or "none"
  jf,      \* jf[n]: what each journal name holds
  qj,      \* journal quarantine directories that exist
  pc, ops, \* the writer: next step, and the recovery operations left
  mem,     \* the call: packs wanted, recovery's continuation, its generation
  rm,      \* the tree removal in progress
  refused, \* reasons recovery gave for refusing
  owed,    \* contents of people or of earlier sets, not yet superseded
  base, goal, \* digests of the live packs before and after the transaction
  fresh, calls, edits, errors

vars == <<tree, qsrc, jf, qj, pc, ops, mem, rm, refused, owed, base, goal, fresh, calls, edits, errors>>
bounds == <<calls, edits, errors>>
files == <<tree, qsrc, jf, qj>>

None == [k |-> "none"]
TornHeader == [k |-> "torn"]
\* A tree with its witness: digest d (0 when a part is missing) and identity i.
Tree(d, i) == [k |-> "tree", d |-> d, i |-> i]
Torn(t) == [t EXCEPT !.d = 0]

\* capturePackTree: the witness of a tree, or absent.
Witness(p, n) == tree[p][n]
Exists(p, n) == tree[p][n] # None

LiveDigest(p) == IF Exists(p, "target") THEN tree[p]["target"].d ELSE 0

\* revalidateAt and captureExpectedPackTree.
Matches(p, n, w) == tree[p][n] = w

NoMem == [want |-> {}, ret |-> "none", gen |-> 0]
NoRm == [step |-> "none", p |-> 1, from |-> "none", via |-> "none", w |-> None]

Init ==
  /\ tree = [p \in Packs |-> [n \in TreeNames |->
               IF n = "target" /\ p # NPacks THEN Tree(p, p) ELSE None]]
  /\ qsrc = [p \in Packs |-> "none"]
  /\ jf = [n \in JournalNames |-> None] /\ qj = {}
  /\ pc = "idle" /\ ops = <<>> /\ mem = NoMem /\ rm = NoRm
  /\ refused = {} /\ owed = {<<p, p>> : p \in 1..(NPacks - 1)}
  /\ base = [p \in Packs |-> IF p # NPacks THEN p ELSE 0] /\ goal = base
  /\ fresh = NPacks + 1
  /\ calls = 0 /\ edits = 0 /\ errors = 0

-----------------------------------------------------------------------------
(* The journal file. *)

\* createPackJournal's header: one entry per wanted or stale pack.
Entry(p, want) ==
  [pack |-> p, deletes |-> p \notin want, before |-> Witness(p, "target"), after |-> None]
Planned(want) == {p \in Packs : p \in want \/ Exists(p, "target")}
Header(want) ==
  [k |-> "journal", phase |-> 1, frag |-> FALSE,
   ent |-> [p \in Planned(want) |-> Entry(p, want)]]

\* readPackJournalAt, on the complete lines; an unfinished last line is ignored
\* and an unfinished header cannot be read.
Phase(j) == Phases[j.phase]
Readable(j) == j.k = "journal"
Stageable(j) == {p \in DOMAIN j.ent : ~j.ent[p].deletes}
Existed(e) == e.before # None
\* The entry the next stage record must be about.
NextToStage(j) ==
  {p \in Stageable(j) : j.ent[p].after = None /\ \A o \in Stageable(j) : o < p => j.ent[o].after # None}

Journal == jf["journal"]
Isolated == jf["jretire"]

-----------------------------------------------------------------------------
(* Control. *)

Go(l) == pc' = l
Plain == UNCHANGED <<refused, owed, base, goal, fresh, bounds>>
MoveTree(p, a, b) == tree' = [tree EXCEPT ![p][b] = tree[p][a], ![p][a] = None]
MoveFile(a, b) == jf' = [jf EXCEPT ![b] = jf[a], ![a] = None]

\* The call is over: lock and memory are given up.
Leave == pc' = "idle" /\ ops' = <<>> /\ mem' = NoMem /\ rm' = NoRm

\* recoverPackTransaction returns an error: once it has isolated the journal its
\* deferred restorePackRecoveryJournal runs.
RecoveryFails ==
  IF Isolated # None THEN Go("restoreJournal") /\ ops' = <<>> /\ rm' = NoRm /\ UNCHANGED mem
  ELSE Leave

Refuse(why) ==
  /\ refused' = refused \cup why /\ RecoveryFails
  /\ UNCHANGED <<files, owed, base, goal, fresh, bounds>>

\* The writer's fail: rollback through recovery.
FailCall == Go("recover") /\ mem' = [mem EXCEPT !.ret = "failed"] /\ UNCHANGED <<ops, rm>>

-----------------------------------------------------------------------------
(* recoverPackTransaction. *)

\* acquirePackWriteLock, then recovery before anything else.
BeginCall(want) ==
  /\ pc = "idle" /\ calls < MaxCalls
  /\ calls' = calls + 1
  /\ Go("recover") /\ mem' = [NoMem EXCEPT !.want = want, !.ret = "plan"]
  /\ UNCHANGED <<files, ops, rm, refused, owed, base, goal, fresh, edits, errors>>

\* resumeFailedPackJournalQuarantine and resumePackJournalQuarantine: a held
\* journal is removed, then the empty directory.
ResumeJournalQuarantine(q) ==
  /\ pc = "recover" /\ q \in qj
  /\ IF jf[q] # None THEN jf' = [jf EXCEPT ![q] = None] /\ UNCHANGED qj
     ELSE qj' = qj \ {q} /\ UNCHANGED jf
  /\ UNCHANGED <<tree, qsrc, pc, ops, mem, rm>> /\ Plain

\* What reading the two journal names can find wrong.
AuthorityProblems ==
  {why \in {"two journals", "header"} :
     CASE why = "two journals" -> Journal # None /\ Isolated # None
       [] why = "header" -> \E n \in {"journal", "jretire"} : jf[n] # None /\ ~Readable(jf[n])}

AuthorityRefused ==
  /\ pc = "recover" /\ qj = {} /\ AuthorityProblems # {}
  /\ Refuse(AuthorityProblems)

\* No journal: nothing to recover.
NothingToRecover ==
  /\ pc = "recover" /\ qj = {} /\ Journal = None /\ Isolated = None
  /\ IF mem.ret = "plan" THEN Go("plan") /\ UNCHANGED <<ops, mem, rm>> ELSE Leave
  /\ UNCHANGED files /\ Plain

\* isolatePackRecoveryJournal, or resuming one already isolated.
IsolateJournal ==
  /\ pc = "recover" /\ qj = {} /\ AuthorityProblems = {}
  /\ \/ Journal # None /\ MoveFile("journal", "jretire")
     \/ Isolated # None /\ UNCHANGED jf
  /\ Go("quarantines") /\ UNCHANGED <<tree, qsrc, qj, ops, mem, rm>> /\ Plain

\* resumePackTreeQuarantines: the recorded source must be a journaled
\* retirement name and the tree one of the two journaled ones.
SourceProblems ==
  {"quarantine source" : p \in {o \in Packs : qsrc[o] # "none" /\ (o \notin DOMAIN Isolated.ent \/ qsrc[o] # "retire")}}
HeldProblems ==
  {"quarantine tree" : p \in {o \in DOMAIN Isolated.ent :
      /\ qsrc[o] # "none" /\ Exists(o, "q")
      /\ ~Matches(o, "q", Isolated.ent[o].before)
      /\ Isolated.ent[o].after = None \/ ~Matches(o, "q", Isolated.ent[o].after)}}
QuarantineProblems == IF SourceProblems # {} THEN SourceProblems ELSE HeldProblems

QuarantineRefused ==
  /\ pc = "quarantines" /\ QuarantineProblems # {}
  /\ Refuse(QuarantineProblems)

ResumeTreeQuarantine(p) ==
  /\ pc = "quarantines" /\ QuarantineProblems = {} /\ qsrc[p] # "none"
  /\ IF Exists(p, "q") THEN ~Exists(p, "retire") /\ MoveTree(p, "q", "retire")
     ELSE UNCHANGED tree
  /\ qsrc' = [qsrc EXCEPT ![p] = "none"]
  /\ UNCHANGED <<jf, qj, pc, ops, mem, rm>> /\ Plain

\* An installed target, as the uncommitted branch recognises it.
TargetInstalled(j, p) ==
  /\ Phase(j) = "installing" /\ Exists(p, "target")
  /\ ~(Existed(j.ent[p]) /\ ~Exists(p, "backup"))

\* The whole live authority is validated before anything is touched.
EntryProblems(j, p) ==
  LET e == j.ent[p]
      committed == Phase(j) = "committed"
      Changed(n, w) == Exists(p, n) /\ ~Matches(p, n, w) IN
  {why \in {"committed target", "lost", "impossible backup", "deletion staged", "no witness",
            "changed", "staged after commit", "concurrent target"} :
     CASE why = "committed target" -> committed /\ e.deletes = Exists(p, "target")
       [] why = "lost" ->
            ~committed /\ Existed(e) /\ ~Exists(p, "target") /\ ~Exists(p, "backup")
       [] why = "impossible backup" -> ~committed /\ ~Existed(e) /\ Exists(p, "backup")
       [] why = "deletion staged" -> e.deletes /\ Exists(p, "stage")
       [] why = "no witness" -> ~e.deletes /\ Exists(p, "stage") /\ e.after = None
       [] why = "staged after commit" -> committed /\ Exists(p, "stage")
       [] why = "changed" ->
            \/ e.after # None /\ Changed("stage", e.after)
            \/ Changed("backup", e.before)
            \/ Changed("retire", IF committed THEN e.before ELSE e.after)
            \/ committed /\ ~e.deletes /\ Changed("target", e.after)
            \/ /\ Phase(j) = "installing" /\ ~(e.deletes /\ Exists(p, "backup"))
               /\ Changed("target", IF TargetInstalled(j, p) THEN e.after ELSE e.before)
       [] why = "concurrent target" ->
            /\ ~committed /\ Exists(p, "target")
            /\ \/ Phase(j) = "installing" /\ e.deletes /\ TargetInstalled(j, p)
               \/ Phase(j) # "installing" /\ (~Existed(e) \/ Exists(p, "backup"))}

Problems(j) == UNION {EntryProblems(j, p) : p \in DOMAIN j.ent}

PreflightRefused ==
  /\ pc = "quarantines" /\ \A p \in Packs : qsrc[p] = "none"
  /\ Problems(Isolated) # {}
  /\ Refuse(Problems(Isolated))

\* The operations recovery then performs, entry by entry.
Op(what, p, from, via, w) == [what |-> what, p |-> p, from |-> from, via |-> via, w |-> w]
When(c, op) == IF c THEN <<op>> ELSE <<>>
FinalizeOps(e) ==
  IF Exists(e.pack, "backup") THEN <<Op("remove", e.pack, "backup", "retire", e.before)>>
  ELSE When(Exists(e.pack, "retire"), Op("remove", e.pack, "retire", "backup", e.before))

\* Mutant of RollbackOps: the backup is restored before the installed pack is removed.
RollbackOpsReordered(j, e) ==
     When(Existed(e) /\ Exists(e.pack, "backup"), Op("restore", e.pack, "backup", "target", e.before))
  \o When(TargetInstalled(j, e.pack), Op("remove", e.pack, "target", "retire", e.after))
  \o When(Exists(e.pack, "retire"), Op("remove", e.pack, "retire", "stage", e.after))
  \o When(Exists(e.pack, "stage"), Op("remove", e.pack, "stage", "retire", e.after))

\* Mutant of RollbackOps: an added pack stays installed.
RollbackOpsKeepsAdded(j, e) ==
     When(TargetInstalled(j, e.pack) /\ Existed(e), Op("remove", e.pack, "target", "retire", e.after))
  \o When(Exists(e.pack, "retire"), Op("remove", e.pack, "retire", "stage", e.after))
  \o When(Existed(e) /\ Exists(e.pack, "backup"), Op("restore", e.pack, "backup", "target", e.before))
  \o When(Exists(e.pack, "stage"), Op("remove", e.pack, "stage", "retire", e.after))

RollbackOps(j, e) ==
     When(TargetInstalled(j, e.pack), Op("remove", e.pack, "target", "retire", e.after))
  \o When(Exists(e.pack, "retire"), Op("remove", e.pack, "retire", "stage", e.after))
  \o When(Existed(e) /\ Exists(e.pack, "backup"), Op("restore", e.pack, "backup", "target", e.before))
  \o When(Exists(e.pack, "stage"), Op("remove", e.pack, "stage", "retire", e.after))

\* Committed entries in order, others in reverse.
OpsFrom(j) ==
  LET order == [i \in 1..NPacks |-> IF Phase(j) = "committed" THEN i ELSE NPacks + 1 - i]
      ofPack(p) == IF p \notin DOMAIN j.ent THEN <<>>
                   ELSE IF Phase(j) = "committed" THEN FinalizeOps(j.ent[p])
                   ELSE RollbackOps(j, j.ent[p])
      upTo[i \in 0..NPacks] == IF i = 0 THEN <<>> ELSE upTo[i - 1] \o ofPack(order[i])
  IN upTo[NPacks]

Preflight ==
  /\ pc = "quarantines" /\ \A p \in Packs : qsrc[p] = "none"
  /\ Problems(Isolated) = {}
  /\ ops' = OpsFrom(Isolated) /\ Go("operate")
  /\ UNCHANGED <<files, mem, rm>> /\ Plain

\* restorePackBackup, or the start of isolateAndRemovePackTree.
NextOp ==
  LET op == Head(ops) IN
  /\ pc = "operate" /\ ops # <<>> /\ rm = NoRm
  /\ Matches(op.p, op.from, op.w) /\ ~Exists(op.p, op.via)
  /\ MoveTree(op.p, op.from, op.via)
  /\ IF op.what = "restore" THEN ops' = Tail(ops) /\ UNCHANGED rm
     ELSE /\ rm' = [step |-> "quarantine", p |-> op.p, from |-> op.from, via |-> op.via, w |-> op.w]
          /\ UNCHANGED ops
  /\ UNCHANGED <<qsrc, jf, qj, pc, mem>> /\ Plain

OpRefused ==
  LET op == Head(ops) IN
  /\ pc = "operate" /\ ops # <<>> /\ rm = NoRm
  /\ ~Matches(op.p, op.from, op.w) \/ Exists(op.p, op.via)
  /\ Refuse({IF Exists(op.p, op.via) THEN "occupied" ELSE "changed"})

\* The retired tree is not the one the decision was about: it is put back.
RmChanged ==
  /\ rm.step = "quarantine" /\ ~Matches(rm.p, rm.via, rm.w)
  /\ IF Exists(rm.p, rm.from) THEN UNCHANGED tree ELSE MoveTree(rm.p, rm.via, rm.from)
  /\ refused' = refused \cup {"changed"} /\ RecoveryFails
  /\ UNCHANGED <<qsrc, jf, qj, owed, base, goal, fresh, bounds>>

\* Mutant of RmMkdir: the quarantine records the name before the retirement.
RmMkdirOldName ==
  /\ rm.step = "quarantine" /\ Matches(rm.p, rm.via, rm.w)
  /\ qsrc' = [qsrc EXCEPT ![rm.p] = rm.from]
  /\ rm' = [rm EXCEPT !.step = "move"]
  /\ UNCHANGED <<tree, jf, qj, pc, ops, mem>> /\ Plain

\* fsatomic.Quarantine makes a directory that records the name, then moves.
RmMkdir ==
  /\ rm.step = "quarantine" /\ Matches(rm.p, rm.via, rm.w)
  /\ qsrc' = [qsrc EXCEPT ![rm.p] = rm.via]
  /\ rm' = [rm EXCEPT !.step = "move"]
  /\ UNCHANGED <<tree, jf, qj, pc, ops, mem>> /\ Plain

RmMove ==
  /\ rm.step = "move"
  /\ MoveTree(rm.p, rm.via, "q") /\ rm' = [rm EXCEPT !.step = "check"]
  /\ UNCHANGED <<qsrc, jf, qj, pc, ops, mem>> /\ Plain

\* A tree that changed on its way stays in the quarantine.
RmHeldChanged ==
  /\ rm.step = "check" /\ ~Matches(rm.p, "q", rm.w)
  /\ Refuse({"changed"})

\* Mutant of RmPartly: the tree is removed without a last look at it.
RmPartlyBlindly ==
  /\ rm.step = "check"
  /\ tree' = [tree EXCEPT ![rm.p]["q"] = Torn(@)]
  /\ rm' = [rm EXCEPT !.step = "delete"]
  /\ UNCHANGED <<qsrc, jf, qj, pc, ops, mem>> /\ Plain

\* RemoveAll is not atomic: the tree is torn before it is gone.
RmPartly ==
  /\ rm.step = "check" /\ Matches(rm.p, "q", rm.w)
  /\ tree' = [tree EXCEPT ![rm.p]["q"] = Torn(@)]
  /\ rm' = [rm EXCEPT !.step = "delete"]
  /\ UNCHANGED <<qsrc, jf, qj, pc, ops, mem>> /\ Plain

RmDelete ==
  /\ rm.step = "delete"
  /\ tree' = [tree EXCEPT ![rm.p]["q"] = None] /\ rm' = [rm EXCEPT !.step = "rmdir"]
  /\ UNCHANGED <<qsrc, jf, qj, pc, ops, mem>> /\ Plain

RmRmdir ==
  /\ rm.step = "rmdir"
  /\ qsrc' = [qsrc EXCEPT ![rm.p] = "none"] /\ rm' = NoRm /\ ops' = Tail(ops)
  /\ UNCHANGED <<tree, jf, qj, pc, mem>> /\ Plain

Removal == RmChanged \/ RmMkdir \/ RmMove \/ RmHeldChanged \/ RmPartly \/ RmDelete \/ RmRmdir

\* removePackRecoveryJournal: into its quarantine, then gone, then the directory.
\* Mutant of RetireJournal: the journal goes while a removal is still to be done.
RetireJournalEarly ==
  /\ pc = "operate" /\ Len(ops) <= 1 /\ rm = NoRm
  /\ qj' = qj \cup {"qjournal"} /\ MoveFile("jretire", "qjournal")
  /\ Go("dropJournal")
  /\ UNCHANGED <<tree, qsrc, ops, mem, rm>> /\ Plain

RetireJournal ==
  /\ pc = "operate" /\ ops = <<>>
  /\ qj' = qj \cup {"qjournal"} /\ MoveFile("jretire", "qjournal")
  /\ Go("dropJournal")
  /\ UNCHANGED <<tree, qsrc, ops, mem, rm>> /\ Plain

\* Mutant of DropJournal: the quarantine directory is left behind.
DropJournalKeepsDirectory ==
  /\ pc = "dropJournal"
  /\ IF jf["qjournal"] # None
     THEN jf' = [jf EXCEPT !["qjournal"] = None] /\ UNCHANGED <<pc, ops, mem, rm>>
     ELSE /\ UNCHANGED jf
          /\ IF mem.ret = "commit" THEN Go("committed") /\ UNCHANGED <<ops, mem, rm>> ELSE Leave
  /\ UNCHANGED <<tree, qsrc, qj>> /\ Plain

DropJournal ==
  /\ pc = "dropJournal"
  /\ IF jf["qjournal"] # None
     THEN jf' = [jf EXCEPT !["qjournal"] = None] /\ UNCHANGED <<qj, pc, ops, mem, rm>>
     ELSE /\ qj' = qj \ {"qjournal"} /\ UNCHANGED jf
          /\ IF mem.ret = "plan" THEN Go("plan") /\ UNCHANGED <<ops, mem, rm>>
             ELSE IF mem.ret = "commit" THEN Go("committed") /\ UNCHANGED <<ops, mem, rm>> ELSE Leave
  /\ UNCHANGED <<tree, qsrc>> /\ Plain

\* restorePackRecoveryJournal; the writer's call is over either way.
RestoreJournal ==
  /\ pc = "restoreJournal"
  /\ IF Journal = None THEN MoveFile("jretire", "journal") ELSE UNCHANGED jf
  /\ Leave /\ UNCHANGED <<tree, qsrc, qj>> /\ Plain

-----------------------------------------------------------------------------
(* writePacksRootedWithRename after recovery. *)

\* Scratch that no journal explains would stop the planning of a pack.
Scratch == {"stage", "backup", "retire"}

\* validatePackJournal rejects a header without entries.
NothingPlanned ==
  /\ pc = "plan" /\ Planned(mem.want) = {}
  /\ Leave /\ UNCHANGED files /\ Plain

CreateJournal ==
  /\ pc = "plan" /\ Planned(mem.want) # {}
  /\ \A p \in Planned(mem.want), n \in Scratch : ~Exists(p, n)
  /\ jf' = [jf EXCEPT !["journal"] = TornHeader]
  /\ base' = [p \in Packs |-> IF Exists(p, "target") THEN tree[p]["target"].d ELSE 0]
  /\ goal' = [p \in Packs |-> IF p \in mem.want THEN fresh ELSE 0]
  /\ mem' = [mem EXCEPT !.gen = fresh] /\ fresh' = fresh + 1
  /\ Go("header")
  /\ UNCHANGED <<tree, qsrc, qj, ops, rm, refused, owed, bounds>>

WriteHeader ==
  /\ pc = "header"
  /\ jf' = [jf EXCEPT !["journal"] = Header(mem.want)]
  /\ Go("stage")
  /\ UNCHANGED <<tree, qsrc, qj, ops, mem, rm>> /\ Plain

\* cleanupCreatedPackJournal after a failed write of the header.
CleanupHeader ==
  /\ pc = "cleanup"
  /\ IF Journal # None THEN qj' = qj \cup {"qfailed"} /\ MoveFile("journal", "qfailed") /\ UNCHANGED <<pc, ops, mem, rm>>
     ELSE IF jf["qfailed"] # None THEN jf' = [jf EXCEPT !["qfailed"] = None] /\ UNCHANGED <<qj, pc, ops, mem, rm>>
     ELSE qj' = qj \ {"qfailed"} /\ Leave /\ UNCHANGED jf
  /\ UNCHANGED <<tree, qsrc>> /\ Plain

\* The stage of the next pack: a directory, then its members.
MakeStage ==
  /\ pc = "stage"
  /\ \E p \in NextToStage(Journal) :
       /\ ~Exists(p, "stage")
       /\ tree' = [tree EXCEPT ![p]["stage"] = Tree(0, fresh)]
  /\ fresh' = fresh + 1
  /\ UNCHANGED <<qsrc, jf, qj, pc, ops, mem, rm, refused, owed, base, goal, bounds>>

FillStage ==
  /\ pc = "stage"
  /\ \E p \in NextToStage(Journal) :
       /\ Exists(p, "stage") /\ tree[p]["stage"].d = 0
       /\ tree' = [tree EXCEPT ![p]["stage"].d = mem.gen]
  /\ UNCHANGED <<qsrc, jf, qj, pc, ops, mem, rm>> /\ Plain

\* appendPackStage records the witness of a stage whose digest is the generated one.
AppendStage ==
  /\ pc = "stage"
  /\ \E p \in NextToStage(Journal) :
       /\ Exists(p, "stage") /\ tree[p]["stage"].d = mem.gen
       /\ jf' = [jf EXCEPT !["journal"].ent[p].after = Witness(p, "stage")]
  /\ UNCHANGED <<tree, qsrc, qj, pc, ops, mem, rm>> /\ Plain

AllStaged == \A p \in Stageable(Journal) : Journal.ent[p].after # None
Unparked == {p \in DOMAIN Journal.ent : Existed(Journal.ent[p]) /\ ~Exists(p, "backup")}
Uninstalled == {p \in Stageable(Journal) : Exists(p, "stage")}
First(S) == CHOOSE p \in S : \A o \in S : p <= o
\* Where a live target is no longer the one the journal witnesses.
Stale == {p \in DOMAIN Journal.ent : Existed(Journal.ent[p]) /\ ~Matches(p, "target", Journal.ent[p].before)}

\* appendPackPhase and appendPackStaged: the next record of the journal.
ReadyToAppend ==
  \/ pc = "stage" /\ AllStaged
  \/ pc = "staged" /\ Stale = {}
  \/ pc = "parking" /\ Unparked = {}
  \/ pc = "installing" /\ Uninstalled = {}
Appended == [jf EXCEPT !["journal"].phase = @ + 1]

\* A committed set supersedes exactly the packs its journal witnessed.
Superseded == {<<p, Journal.ent[p].before.d>> : p \in {o \in DOMAIN Journal.ent : Existed(Journal.ent[o])}}

AppendPhase ==
  /\ ReadyToAppend
  /\ jf' = Appended
  /\ IF Phases[Journal.phase + 1] = "committed"
     THEN /\ Go("recover") /\ mem' = [mem EXCEPT !.ret = "commit"]
          /\ owed' = (owed \ Superseded) \cup {<<p, mem.gen>> : p \in {o \in Stageable(Journal) : LiveDigest(o) = mem.gen}}
     ELSE Go(Phases[Journal.phase + 1]) /\ UNCHANGED <<mem, owed>>
  /\ UNCHANGED <<tree, qsrc, qj, ops, rm, refused, base, goal, fresh, bounds>>

\* The writer dies, or the write fails, in the middle of an append: the last line
\* is unfinished.  After a failure the journal is no longer the retained one, so
\* the rollback is blocked and the call ends like a crash.
AppendTorn ==
  /\ ReadyToAppend \/ (pc = "stage" /\ \E p \in NextToStage(Journal) : Exists(p, "stage") /\ tree[p]["stage"].d = mem.gen)
  /\ jf' = [jf EXCEPT !["journal"].frag = TRUE]
  /\ Leave /\ UNCHANGED <<tree, qsrc, qj>> /\ Plain

\* revalidateAt before parking.
TargetsChanged ==
  /\ pc = "staged" /\ Stale # {}
  /\ FailCall /\ UNCHANGED files /\ Plain

Park ==
  /\ pc = "parking" /\ Unparked # {}
  /\ LET p == First(Unparked) IN
       /\ Exists(p, "target")
       /\ MoveTree(p, "target", "backup")
       /\ IF Matches(p, "target", Journal.ent[p].before) THEN UNCHANGED <<pc, ops, mem, rm>> ELSE FailCall
  /\ UNCHANGED <<qsrc, jf, qj>> /\ Plain

\* renamePublic onto a name someone else took in the meantime.
InstallBlocked ==
  /\ pc = "installing" /\ Uninstalled # {} /\ Exists(First(Uninstalled), "target")
  /\ FailCall /\ UNCHANGED files /\ Plain

Install ==
  /\ pc = "installing" /\ Uninstalled # {} /\ ~Exists(First(Uninstalled), "target")
  /\ MoveTree(First(Uninstalled), "stage", "target")
  /\ UNCHANGED <<qsrc, jf, qj, pc, ops, mem, rm>> /\ Plain

\* The finalised call returns the ids it wrote.
CallDone ==
  /\ pc = "committed"
  /\ Leave /\ UNCHANGED files /\ Plain

-----------------------------------------------------------------------------
(* Faults and people. *)

Crash ==
  /\ pc # "idle" /\ Leave
  /\ UNCHANGED files /\ Plain

\* A step of the writer, or of recovery, fails.
IOError ==
  /\ errors < MaxErrors /\ errors' = errors + 1
  /\ CASE pc \in {"stage", "staged", "parking", "installing"} -> FailCall
       [] pc = "header" -> Go("cleanup") /\ UNCHANGED <<ops, mem, rm>>
       [] pc \in {"recover", "quarantines", "operate", "dropJournal"} -> RecoveryFails
       [] OTHER -> FALSE
  /\ UNCHANGED <<files, refused, owed, base, goal, fresh, calls, edits>>

\* A person changes a live pack, or writes to a file of it that is now parked.
Edit(p, n) ==
  /\ edits < MaxEdits /\ edits' = edits + 1
  /\ n \in {"target", "backup"} /\ Exists(p, n)
  /\ tree' = [tree EXCEPT ![p][n] = Tree(fresh, fresh)]
  /\ owed' = (owed \ {<<p, tree[p][n].d>>}) \cup {<<p, fresh>>}
  /\ fresh' = fresh + 1
  /\ UNCHANGED <<qsrc, jf, qj, pc, ops, mem, rm, refused, base, goal, calls, errors>>

\* A person makes a pack where none is.
Make(p) ==
  /\ edits < MaxEdits /\ edits' = edits + 1
  /\ ~Exists(p, "target")
  /\ tree' = [tree EXCEPT ![p]["target"] = Tree(fresh, fresh)]
  /\ owed' = owed \cup {<<p, fresh>>} /\ fresh' = fresh + 1
  /\ UNCHANGED <<qsrc, jf, qj, pc, ops, mem, rm, refused, base, goal, calls, errors>>

Recovery ==
  \/ \E q \in qj : ResumeJournalQuarantine(q)
  \/ AuthorityRefused \/ NothingToRecover \/ IsolateJournal \/ QuarantineRefused
  \/ \E p \in Packs : ResumeTreeQuarantine(p)
  \/ PreflightRefused \/ Preflight \/ NextOp \/ OpRefused \/ Removal
  \/ RetireJournal \/ DropJournal \/ RestoreJournal

Publication ==
  \/ NothingPlanned \/ CreateJournal \/ WriteHeader \/ CleanupHeader
  \/ MakeStage \/ FillStage \/ AppendStage \/ AppendPhase \/ AppendTorn
  \/ TargetsChanged \/ Park \/ InstallBlocked \/ Install \/ CallDone

Next ==
  \/ \E want \in SUBSET Packs : BeginCall(want)
  \/ Recovery \/ Publication \/ Crash \/ IOError
  \/ \E p \in Packs, n \in {"target", "backup"} : Edit(p, n)
  \/ \E p \in Packs : Make(p)

Spec == Init /\ [][Next]_vars

-----------------------------------------------------------------------------
(* Properties. *)

TypeOK ==
  /\ \A p \in Packs, n \in TreeNames : tree[p][n].k \in {"none", "tree"}
  /\ qsrc \in [Packs -> {"none", "retire", "backup", "stage"}]
  /\ qj \subseteq {"qjournal", "qfailed"}
  /\ \A n \in JournalNames : jf[n].k \in {"none", "torn", "journal"}
  /\ calls <= MaxCalls /\ edits <= MaxEdits /\ errors <= MaxErrors

\* Some name still holds the journal.
Authority == \E n \in JournalNames : jf[n] # None
Live == [p \in Packs |-> LiveDigest(p)]

\* The pack set is replaced as one: whenever no journal is left, whatever crashed
\* or failed on the way, the live packs are all the ones found or all the ones
\* generated (writePacksRootedWithRename, recoverPackTransaction).
AllOrNothing == ~Authority /\ edits = 0 => Live \in {base, goal}

\* No pack is lost: every content a person saved, or an earlier call published,
\* is under some name until a committed set that witnessed it supersedes it.
PacksSurvive == \A o \in owed : \E n \in TreeNames : tree[o[1]][n].k = "tree" /\ tree[o[1]][n].d = o[2]

\* A call that returns its ids leaves the generated set and no journal, not even
\* an empty quarantine of one.
SuccessIsClean ==
  pc = "committed" =>
    /\ ~Authority /\ qj = {} /\ (edits = 0 => Live = goal)

\* The journal outlives what it explains: scratch and tree quarantines never
\* exist without it, so planning never meets orphan scratch.
JournalExplains ==
  Authority \/ \A p \in Packs : qsrc[p] = "none" /\ \A n \in Scratch \cup {"q"} : ~Exists(p, n)

\* Recovery refuses only for four states that a crash or an error can leave, or
\* because a person changed packs under it; the other refusals of
\* recoverPackTransaction are unreachable.
RefusalsAreKnown ==
  refused \subseteq {"header", "no witness", "quarantine tree", "quarantine source"}
     \cup (IF edits > 0 THEN {"changed", "concurrent target", "occupied", "committed target"} ELSE {})

\* Recovery resumes every tree quarantine that it made itself
\* (resumePackTreeQuarantines).
QuarantineResumable == "quarantine source" \notin refused
=============================================================================
