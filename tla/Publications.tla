---------------------------- MODULE Publications ----------------------------
(* The directory transactions of the repository side by side: every writer   *)
(* that publishes several files through a journal, the locks and caches they *)
(* share, the refresh of a copied table that such a writer publishes, and    *)
(* what the registration store publishes: what a head may say after the ones *)
(* before it, and who waits for its writer.                                  *)
(* They keep separate files, so a behaviour of the suite moves one of them,  *)
(* the component `which', and checks the promise they have in common in the  *)
(* terms of each.                                                            *)
EXTENDS Integers, FiniteSets

CONSTANTS Active,  \* the components that this run exercises
          Unset    \* no token, no head

VARIABLE which       \* the component that moves in this behaviour
VARIABLES art_files, art_moved, art_dirs, art_held, art_journal, art_updating, art_retiring,
  art_plan, art_decided, art_tx, art_edits, art_pc, art_mode, art_item, art_work, art_request,
  art_outcome
VARIABLES mod_fs, mod_qdirs, mod_lock, mod_pc, mod_rm, mod_mem, mod_refused, mod_owed, mod_fresh,
  mod_renders, mod_edits, mod_errors
VARIABLES pck_tree, pck_qsrc, pck_jf, pck_qj, pck_pc, pck_ops, pck_mem, pck_rm, pck_refused,
  pck_owed, pck_base, pck_goal, pck_fresh, pck_calls, pck_edits, pck_errors
VARIABLES frm_file, frm_qsrc, frm_jf, frm_qj, frm_pc, frm_ops, frm_rm, frm_mem, frm_refused,
  frm_owed, frm_made, frm_base, frm_goal, frm_fresh, frm_calls, frm_edits, frm_errors
VARIABLES prj_file, prj_quarantine, prj_record, prj_before, prj_run, prj_pc, prj_todo, prj_failing,
  prj_staged, prj_hollow, prj_linked, prj_edits, prj_kills
VARIABLES emb_file, emb_linked, emb_control, emb_quarantine, emb_plan, emb_old, emb_pc, emb_todo,
  emb_recovering, emb_latest, emb_edited, emb_torn, emb_kills, emb_faults, emb_edits
VARIABLES cch_lock, cch_stage, cch_quar, cch_ver, cch_planted, cch_target, cch_pc, cch_mine,
  cch_wit, cch_after, cch_kills, cch_edits, cch_lost, cch_held
VARIABLES dsn_design, dsn_sentinel, dsn_stage, dsn_quarantine, dsn_residue, dsn_holder, dsn_proc,
  dsn_touched, dsn_wedged, dsn_edits, dsn_kills
VARIABLES tab_source, tab_copy, tab_complete, tab_where, tab_resolves, tab_pass, tab_runs,
  tab_consumed, tab_settled, tab_orphans, tab_ambiguous, tab_vague, tab_start
VARIABLES reg_plans, reg_milestones, reg_history
VARIABLES sto_head, sto_archived, sto_unsynced, sto_controls, sto_retained, sto_staging, sto_token,
  sto_expired, sto_headNext, sto_residue, sto_pc, sto_expected, sto_successor, sto_seen, sto_outcome

\* The variables of the components, and a component that does not move.
art == <<art_files, art_moved, art_dirs, art_held, art_journal, art_updating, art_retiring,
  art_plan, art_decided, art_tx, art_edits, art_pc, art_mode, art_item, art_work, art_request,
  art_outcome>>
mod == <<mod_fs, mod_qdirs, mod_lock, mod_pc, mod_rm, mod_mem, mod_refused, mod_owed, mod_fresh,
  mod_renders, mod_edits, mod_errors>>
pck == <<pck_tree, pck_qsrc, pck_jf, pck_qj, pck_pc, pck_ops, pck_mem, pck_rm, pck_refused,
  pck_owed, pck_base, pck_goal, pck_fresh, pck_calls, pck_edits, pck_errors>>
frm == <<frm_file, frm_qsrc, frm_jf, frm_qj, frm_pc, frm_ops, frm_rm, frm_mem, frm_refused,
  frm_owed, frm_made, frm_base, frm_goal, frm_fresh, frm_calls, frm_edits, frm_errors>>
prj == <<prj_file, prj_quarantine, prj_record, prj_before, prj_run, prj_pc, prj_todo, prj_failing,
  prj_staged, prj_hollow, prj_linked, prj_edits, prj_kills>>
emb == <<emb_file, emb_linked, emb_control, emb_quarantine, emb_plan, emb_old, emb_pc, emb_todo,
  emb_recovering, emb_latest, emb_edited, emb_torn, emb_kills, emb_faults, emb_edits>>
cch == <<cch_lock, cch_stage, cch_quar, cch_ver, cch_planted, cch_target, cch_pc, cch_mine, cch_wit,
  cch_after, cch_kills, cch_edits, cch_lost, cch_held>>
dsn == <<dsn_design, dsn_sentinel, dsn_stage, dsn_quarantine, dsn_residue, dsn_holder, dsn_proc,
  dsn_touched, dsn_wedged, dsn_edits, dsn_kills>>
tab == <<tab_source, tab_copy, tab_complete, tab_where, tab_resolves, tab_pass, tab_runs,
  tab_consumed, tab_settled, tab_orphans, tab_ambiguous, tab_vague, tab_start>>
reg == <<reg_plans, reg_milestones, reg_history>>
sto == <<sto_head, sto_archived, sto_unsynced, sto_controls, sto_retained, sto_staging, sto_token,
  sto_expired, sto_headNext, sto_residue, sto_pc, sto_expected, sto_successor, sto_seen,
  sto_outcome>>
Idle == 0
artIdle == art_files = Idle /\ art_moved = Idle /\ art_dirs = Idle /\ art_held = Idle /\ art_journal
  = Idle /\ art_updating = Idle /\ art_retiring = Idle /\ art_plan = Idle /\ art_decided = Idle /\
  art_tx = Idle /\ art_edits = Idle /\ art_pc = Idle /\ art_mode = Idle /\ art_item = Idle /\
  art_work = Idle /\ art_request = Idle /\ art_outcome = Idle
modIdle == mod_fs = Idle /\ mod_qdirs = Idle /\ mod_lock = Idle /\ mod_pc = Idle /\ mod_rm = Idle /\
  mod_mem = Idle /\ mod_refused = Idle /\ mod_owed = Idle /\ mod_fresh = Idle /\ mod_renders = Idle
  /\ mod_edits = Idle /\ mod_errors = Idle
pckIdle == pck_tree = Idle /\ pck_qsrc = Idle /\ pck_jf = Idle /\ pck_qj = Idle /\ pck_pc = Idle /\
  pck_ops = Idle /\ pck_mem = Idle /\ pck_rm = Idle /\ pck_refused = Idle /\ pck_owed = Idle /\
  pck_base = Idle /\ pck_goal = Idle /\ pck_fresh = Idle /\ pck_calls = Idle /\ pck_edits = Idle /\
  pck_errors = Idle
frmIdle == frm_file = Idle /\ frm_qsrc = Idle /\ frm_jf = Idle /\ frm_qj = Idle /\ frm_pc = Idle /\
  frm_ops = Idle /\ frm_rm = Idle /\ frm_mem = Idle /\ frm_refused = Idle /\ frm_owed = Idle /\
  frm_made = Idle /\ frm_base = Idle /\ frm_goal = Idle /\ frm_fresh = Idle /\ frm_calls = Idle /\
  frm_edits = Idle /\ frm_errors = Idle
prjIdle == prj_file = Idle /\ prj_quarantine = Idle /\ prj_record = Idle /\ prj_before = Idle /\
  prj_run = Idle /\ prj_pc = Idle /\ prj_todo = Idle /\ prj_failing = Idle /\ prj_staged = Idle /\
  prj_hollow = Idle /\ prj_linked = Idle /\ prj_edits = Idle /\ prj_kills = Idle
embIdle == emb_file = Idle /\ emb_linked = Idle /\ emb_control = Idle /\ emb_quarantine = Idle /\
  emb_plan = Idle /\ emb_old = Idle /\ emb_pc = Idle /\ emb_todo = Idle /\ emb_recovering = Idle /\
  emb_latest = Idle /\ emb_edited = Idle /\ emb_torn = Idle /\ emb_kills = Idle /\ emb_faults = Idle
  /\ emb_edits = Idle
cchIdle == cch_lock = Idle /\ cch_stage = Idle /\ cch_quar = Idle /\ cch_ver = Idle /\ cch_planted =
  Idle /\ cch_target = Idle /\ cch_pc = Idle /\ cch_mine = Idle /\ cch_wit = Idle /\ cch_after =
  Idle /\ cch_kills = Idle /\ cch_edits = Idle /\ cch_lost = Idle /\ cch_held = Idle
dsnIdle == dsn_design = Idle /\ dsn_sentinel = Idle /\ dsn_stage = Idle /\ dsn_quarantine = Idle /\
  dsn_residue = Idle /\ dsn_holder = Idle /\ dsn_proc = Idle /\ dsn_touched = Idle /\ dsn_wedged =
  Idle /\ dsn_edits = Idle /\ dsn_kills = Idle
tabIdle == tab_source = Idle /\ tab_copy = Idle /\ tab_complete = Idle /\ tab_where = Idle /\
  tab_resolves = Idle /\ tab_pass = Idle /\ tab_runs = Idle /\ tab_consumed = Idle /\ tab_settled =
  Idle /\ tab_orphans = Idle /\ tab_ambiguous = Idle /\ tab_vague = Idle /\ tab_start = Idle
regIdle == reg_plans = Idle /\ reg_milestones = Idle /\ reg_history = Idle
stoIdle == sto_head = Idle /\ sto_archived = Idle /\ sto_unsynced = Idle /\ sto_controls = Idle /\
  sto_retained = Idle /\ sto_staging = Idle /\ sto_token = Idle /\ sto_expired = Idle /\
  sto_headNext = Idle /\ sto_residue = Idle /\ sto_pc = Idle /\ sto_expected = Idle /\ sto_successor
  = Idle /\ sto_seen = Idle /\ sto_outcome = Idle
vars == <<which, art, mod, pck, frm, prj, emb, cch, dsn, tab, reg, sto>>

\* What stays as it is while a component moves.
artRest == <<which, mod, pck, frm, prj, emb, cch, dsn, tab, reg, sto>>
modRest == <<which, art, pck, frm, prj, emb, cch, dsn, tab, reg, sto>>
pckRest == <<which, art, mod, frm, prj, emb, cch, dsn, tab, reg, sto>>
frmRest == <<which, art, mod, pck, prj, emb, cch, dsn, tab, reg, sto>>
prjRest == <<which, art, mod, pck, frm, emb, cch, dsn, tab, reg, sto>>
embRest == <<which, art, mod, pck, frm, prj, cch, dsn, tab, reg, sto>>
cchRest == <<which, art, mod, pck, frm, prj, emb, dsn, tab, reg, sto>>
dsnRest == <<which, art, mod, pck, frm, prj, emb, cch, tab, reg, sto>>
tabRest == <<which, art, mod, pck, frm, prj, emb, cch, dsn, reg, sto>>
regRest == <<which, art, mod, pck, frm, prj, emb, cch, dsn, tab, sto>>
stoRest == <<which, art, mod, pck, frm, prj, emb, cch, dsn, tab, reg>>

\* The outputs that the two writers of the design make and remove.
Made == [op \in {"compose", "tla"} |-> IF op = "compose" THEN {"a1", "a2"} ELSE {"b1"}]
Stale == [op \in {"compose", "tla"} |-> IF op = "compose" THEN {"a0"} ELSE {}]

\* The components, with the bounds of this suite.
Artifact == INSTANCE ArtifactSet WITH N <- 2, MaxTx <- 1, MaxEdits <- 1, RenameTouches <- TRUE,
  files <- art_files, moved <- art_moved, dirs <- art_dirs, held <- art_held, journal <-
  art_journal, updating <- art_updating, retiring <- art_retiring, plan <- art_plan, decided <-
  art_decided, tx <- art_tx, edits <- art_edits, pc <- art_pc, mode <- art_mode, item <- art_item,
  work <- art_work, request <- art_request, outcome <- art_outcome
Modelith == INSTANCE ModelithTx WITH Renderers <- {"r1"}, MaxRenders <- 2, MaxEdits <- 2, MaxErrors
  <- 1, fs <- mod_fs, qdirs <- mod_qdirs, lock <- mod_lock, pc <- mod_pc, rm <- mod_rm, mem <-
  mod_mem, refused <- mod_refused, owed <- mod_owed, fresh <- mod_fresh, renders <- mod_renders,
  edits <- mod_edits, errors <- mod_errors
Pack == INSTANCE PackTx WITH NPacks <- 2, MaxCalls <- 2, MaxEdits <- 1, MaxErrors <- 1, tree <-
  pck_tree, qsrc <- pck_qsrc, jf <- pck_jf, qj <- pck_qj, pc <- pck_pc, ops <- pck_ops, mem <-
  pck_mem, rm <- pck_rm, refused <- pck_refused, owed <- pck_owed, base <- pck_base, goal <-
  pck_goal, fresh <- pck_fresh, calls <- pck_calls, edits <- pck_edits, errors <- pck_errors
Formal == INSTANCE FormalTx WITH NTargets <- 2, ChangeTime <- TRUE, MaxCalls <- 2, MaxEdits <- 1,
  MaxErrors <- 1, file <- frm_file, qsrc <- frm_qsrc, jf <- frm_jf, qj <- frm_qj, pc <- frm_pc, ops
  <- frm_ops, rm <- frm_rm, mem <- frm_mem, refused <- frm_refused, owed <- frm_owed, made <-
  frm_made, base <- frm_base, goal <- frm_goal, fresh <- frm_fresh, calls <- frm_calls, edits <-
  frm_edits, errors <- frm_errors
Projection == INSTANCE ProjectionTx WITH Targets <- {1, 2, 3}, MaxRuns <- 2, MaxKills <- 3, MaxEdits
  <- 1, file <- prj_file, quarantine <- prj_quarantine, record <- prj_record, before <- prj_before,
  run <- prj_run, pc <- prj_pc, todo <- prj_todo, failing <- prj_failing, staged <- prj_staged,
  hollow <- prj_hollow, linked <- prj_linked, edits <- prj_edits, kills <- prj_kills
Embed == INSTANCE EmbedTx WITH Docs <- {1, 2, 3}, MaxKills <- 2, MaxFaults <- 1, MaxEdits <- 2, file
  <- emb_file, linked <- emb_linked, control <- emb_control, quarantine <- emb_quarantine, plan <-
  emb_plan, old <- emb_old, pc <- emb_pc, todo <- emb_todo, recovering <- emb_recovering, latest <-
  emb_latest, edited <- emb_edited, torn <- emb_torn, kills <- emb_kills, faults <- emb_faults,
  edits <- emb_edits
Cache == INSTANCE CacheStage WITH Procs <- {"p", "q"}, Stages <- {"s", "t"}, MaxKills <- 2, MaxEdits
  <- 2, lock <- cch_lock, stage <- cch_stage, quar <- cch_quar, ver <- cch_ver, planted <-
  cch_planted, target <- cch_target, pc <- cch_pc, mine <- cch_mine, wit <- cch_wit, after <-
  cch_after, kills <- cch_kills, edits <- cch_edits, lost <- cch_lost, held <- cch_held
Design == INSTANCE DesignLock WITH Procs <- {"p", "q"}, Ops <- {"compose", "tla"}, Source <- "src",
  Made <- Made, Stale <- Stale, Editable <- {"src", "a1"}, MaxEdits <- 2, MaxKills <- 2, design <-
  dsn_design, sentinel <- dsn_sentinel, stage <- dsn_stage, quarantine <- dsn_quarantine, residue <-
  dsn_residue, holder <- dsn_holder, proc <- dsn_proc, touched <- dsn_touched, wedged <- dsn_wedged,
  edits <- dsn_edits, kills <- dsn_kills
Table == INSTANCE EmbedTable WITH Keys <- {1, 2}, Texts <- {1, 2}, OwnText <- 3, MaxSource <- 2,
  MaxCopy <- 2, source <- tab_source, copy <- tab_copy, complete <- tab_complete, where <-
  tab_where, resolves <- tab_resolves, pass <- tab_pass, runs <- tab_runs, consumed <- tab_consumed,
  settled <- tab_settled, orphans <- tab_orphans, ambiguous <- tab_ambiguous, vague <- tab_vague,
  start <- tab_start
Registry == INSTANCE Registration WITH Designs <- {"d1", "d2"}, Milestones <- {"m1", "m2"},
  PlanTexts <- {"v"}, Texts <- {"a"}, MaxRevision <- 2, None <- Unset, plans <- reg_plans,
  milestones <- reg_milestones, history <- reg_history
ProjectionRerun == INSTANCE ProjectionTx WITH Targets <- {1, 2}, MaxRuns <- 2, MaxKills <- 2,
  MaxEdits <- 0, file <- prj_file, quarantine <- prj_quarantine, record <- prj_record, before <-
  prj_before, run <- prj_run, pc <- prj_pc, todo <- prj_todo, failing <- prj_failing, staged <-
  prj_staged, hollow <- prj_hollow, linked <- prj_linked, edits <- prj_edits, kills <- prj_kills
EmbedRerun == INSTANCE EmbedTx WITH Docs <- {1, 2, 3}, MaxKills <- 3, MaxFaults <- 1, MaxEdits <- 0,
  file <- emb_file, linked <- emb_linked, control <- emb_control, quarantine <- emb_quarantine, plan
  <- emb_plan, old <- emb_old, pc <- emb_pc, todo <- emb_todo, recovering <- emb_recovering, latest
  <- emb_latest, edited <- emb_edited, torn <- emb_torn, kills <- emb_kills, faults <- emb_faults,
  edits <- emb_edits
CacheWait == INSTANCE CacheStage WITH Procs <- {"p", "q", "r"}, Stages <- {"s"}, MaxKills <- 2,
  MaxEdits <- 0, lock <- cch_lock, stage <- cch_stage, quar <- cch_quar, ver <- cch_ver, planted <-
  cch_planted, target <- cch_target, pc <- cch_pc, mine <- cch_mine, wit <- cch_wit, after <-
  cch_after, kills <- cch_kills, edits <- cch_edits, lost <- cch_lost, held <- cch_held
DesignRerun == INSTANCE DesignLock WITH Procs <- {"p", "q"}, Ops <- {"compose", "tla"}, Source <-
  "src", Made <- Made, Stale <- Stale, Editable <- {"src"}, MaxEdits <- 1, MaxKills <- 1, design <-
  dsn_design, sentinel <- dsn_sentinel, stage <- dsn_stage, quarantine <- dsn_quarantine, residue <-
  dsn_residue, holder <- dsn_holder, proc <- dsn_proc, touched <- dsn_touched, wedged <- dsn_wedged,
  edits <- dsn_edits, kills <- dsn_kills
StoreWait == INSTANCE AssuranceStore WITH Procs <- {"p", "q"}, Updates <- {"u"}, MaxGeneration <- 1,
  LeaseExpiry <- "crashed", Races <- TRUE, None <- Unset, head <- sto_head, archived <-
  sto_archived, unsynced <- sto_unsynced, controls <- sto_controls, retained <- sto_retained,
  staging <- sto_staging, token <- sto_token, expired <- sto_expired, headNext <- sto_headNext,
  residue <- sto_residue, pc <- sto_pc, expected <- sto_expected, successor <- sto_successor, seen
  <- sto_seen, outcome <- sto_outcome

Components == {"artifact", "modelith", "pack", "formal", "projection", "embed", "cache", "design", "table", "registration", "projection rerun", "embed rerun", "cache wait", "design rerun", "store wait"}
ASSUME ActiveAssumption == Active \subseteq Components

Init == /\ which \in Active
        /\ (IF which = "artifact" THEN Artifact!Init ELSE artIdle)
        /\ (IF which = "modelith" THEN Modelith!Init ELSE modIdle)
        /\ (IF which = "pack" THEN Pack!Init ELSE pckIdle)
        /\ (IF which = "formal" THEN Formal!Init ELSE frmIdle)
        /\ (IF which = "projection" THEN Projection!Init ELSE IF which = "projection rerun" THEN ProjectionRerun!Init ELSE prjIdle)
        /\ (IF which = "embed" THEN Embed!Init ELSE IF which = "embed rerun" THEN EmbedRerun!Init ELSE embIdle)
        /\ (IF which = "cache" THEN Cache!Init ELSE IF which = "cache wait" THEN CacheWait!Init ELSE cchIdle)
        /\ (IF which = "design" THEN Design!Init ELSE IF which = "design rerun" THEN DesignRerun!Init ELSE dsnIdle)
        /\ (IF which = "table" THEN Table!Init ELSE tabIdle)
        /\ (IF which = "registration" THEN Registry!Init ELSE regIdle)
        /\ (IF which = "store wait" THEN StoreWait!Init ELSE stoIdle)
Next ==
  \/ which = "artifact" /\ Artifact!Next /\ UNCHANGED artRest
  \/ which = "modelith" /\ Modelith!Next /\ UNCHANGED modRest
  \/ which = "pack" /\ Pack!Next /\ UNCHANGED pckRest
  \/ which = "formal" /\ Formal!Next /\ UNCHANGED frmRest
  \/ which = "projection" /\ Projection!Next /\ UNCHANGED prjRest
  \/ which = "embed" /\ Embed!Next /\ UNCHANGED embRest
  \/ which = "cache" /\ Cache!Next /\ UNCHANGED cchRest
  \/ which = "design" /\ Design!Next /\ UNCHANGED dsnRest
  \/ which = "table" /\ Table!Next /\ UNCHANGED tabRest
  \/ which = "registration" /\ Registry!Next /\ UNCHANGED regRest
  \/ which = "projection rerun" /\ ProjectionRerun!Next /\ UNCHANGED prjRest
  \/ which = "embed rerun" /\ EmbedRerun!Next /\ UNCHANGED embRest
  \/ which = "cache wait" /\ CacheWait!Next /\ UNCHANGED cchRest
  \/ which = "design rerun" /\ DesignRerun!Next /\ UNCHANGED dsnRest
  \/ which = "store wait" /\ StoreWait!Next /\ UNCHANGED stoRest
Spec == Init /\ [][Next]_vars
\* A process that is not killed goes on; an interrupted command is run again,
\* the named writer of the design until it succeeds.  Time passes over the token
\* of a dead registrar, and a registrar that looks at the clock for ever sees
\* its deadline pass.
FairSpec ==
  /\ Spec
  /\ WF_vars(\/ which = "projection rerun" /\ (ProjectionRerun!Start \/ ProjectionRerun!Work) /\ UNCHANGED prjRest
             \/ which = "store wait" /\ StoreWait!ExpireLease /\ UNCHANGED stoRest
             \/ which = "embed rerun" /\ (EmbedRerun!Start \/ EmbedRerun!Work) /\ UNCHANGED embRest)
  /\ \A p \in {"p", "q", "r"} :
       WF_vars(\/ which = "cache wait" /\ CacheWait!Work(p) /\ UNCHANGED cchRest
               \/ which = "design rerun" /\ p # "r" /\ DesignRerun!Step(p) /\ UNCHANGED dsnRest
               \/ which = "store wait" /\ p # "r" /\ StoreWait!Step(p) /\ UNCHANGED stoRest)
  /\ SF_vars(\/ which = "design rerun" /\ DesignRerun!Rerun /\ UNCHANGED dsnRest
             \/ which = "store wait" /\ StoreWait!Timeout("p") /\ UNCHANGED stoRest)
  /\ SF_vars(which = "store wait" /\ StoreWait!Timeout("q") /\ UNCHANGED stoRest)

----------------------------------------------------------------------------
(* Properties: what the components promise, each in its own terms.          *)

\* A publication that ended, at whatever point a process died or a call failed,
\* was applied whole or not at all; a reader of the design sees no publication
\* in part, and a cache that is used is complete.
WholeOrNothing ==
  /\ which = "artifact" => Artifact!AllOrNothing
  /\ which = "pack" => Pack!AllOrNothing
  /\ which = "formal" => Formal!AllOrNothing
  /\ which = "projection" => Projection!AllOrNothing
  /\ which = "embed" => Embed!AllOrNothing
  /\ which = "cache" => Cache!TargetWhole
  /\ which = "design" => Design!ReadableWhole /\ Design!FreshPublication

\* Nothing that a person wrote, and no stage that a live process still builds,
\* is destroyed unseen by a publication, by its rollback or by a recovery, with
\* one exception: a formal artifact that a person makes under a target's name
\* while the old one is parked is not promised to survive
\* (formal/transaction.go:1267-1275 and 1491-1495 can remove it; FormalTx's
\* MadeFilesSurvive says that it would and TLC refutes it).  A refreshed table
\* keeps its rows in place and what an author localized.
NothingLost ==
  /\ which = "modelith" => Modelith!EditsSurvive
  /\ which = "pack" => Pack!PacksSurvive
  /\ which = "formal" => Formal!FilesSurvive
  /\ which = "embed" => Embed!EditKept
  /\ which = "table" => Table!RowsKept
  /\ which = "cache" => Cache!LiveStageKept /\ Cache!NothingUnseenDeleted


\* What one step never does: overwrite a target that is not the one it checked,
\* take a plan back after it was committed, return a cache that was not
\* validated, or clear a sentinel over outputs that are not complete.
StepsKeepPromises ==
  [][/\ which = "artifact" => Artifact!EditsSurvive
     /\ which = "projection" => Projection!HandKept
     /\ which = "embed" => Embed!NoRegress
     /\ which = "cache" => Cache!WholeInventoryFirst /\ Cache!TargetNotReplaced /\ Cache!ReturnedValid /\ Cache!CleanEnd
     /\ which = "design" => Design!ClearedComplete]_vars

\* Running an interrupted command again ends what it left, up to the leftovers
\* the models name; whoever waits for the provisioning lock gets an answer.
RerunsEnd ==
  /\ []<>(which = "projection rerun" => ProjectionRerun!RerunReached)
  /\ <>(which = "embed rerun" => EmbedRerun!RerunReached)
  /\ \A p \in {"p", "q", "r"} :
       (which = "cache wait" /\ CacheWait!Waiting(p)) ~> (which = "cache wait" /\ CacheWait!HasAnswer(p))
  /\ (which = "design rerun" /\ DesignRerun!Marked) ~> (which = "design rerun" /\ DesignRerun!RerunCleared)

\* The registrations of this suite are meant as the proofs about Registration ask.
ASSUME RegistryAssumption == Registry!Meaningful

\* Over any sequence of registrations, of any selection of milestones of any
\* design, every revision after the first names the manifest of the same key that
\* was registered one revision before (BuildRegistrationSuccessor compares with the
\* expected head only).
LineageUnbroken == which = "registration" => Registry!LineageUnbroken

\* What a head registers for a design is declared by the plan the same head
\* registers for it (ValidateRegistrationGraph and the rule about untargeted
\* milestones), whatever plans replaced one another.
RegisteredDeclared == which = "registration" => Registry!RegisteredDeclared

\* Every registration call ends, whoever holds the writer token: the loop of
\* acquireStoreWriter gives up at the caller's deadline.
CallsReturn ==
  \A p \in {"p", "q"} :
    (which = "store wait" /\ StoreWait!Running(p)) ~> (which = "store wait" /\ ~StoreWait!Running(p))

\* A writer token that is nobody's, of a dead registrar or of one whose release
\* failed, is taken over as long as registrars keep trying to make the token.
DeadWriterReplaced ==
  []<><<which = "store wait" /\ \E q \in {"p", "q"} : StoreWait!MakeToken(q)>>_sto
    => \A p \in {"p", "q"} : ~<>[](which = "store wait" /\ sto_token = p /\ StoreWait!Abandoned(p))
=============================================================================
