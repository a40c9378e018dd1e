----------------------------- MODULE Operations -----------------------------
(* The installer and the agent hooks side by side: the two parts that act on *)
(* a machine between the commands of a person, keep their state in files of  *)
(* their own and may be killed at any moment.  A behaviour of the suite      *)
(* moves one component, `which', and the properties state what they promise  *)
(* in the terms of each.                                                     *)
EXTENDS Integers, FiniteSets, Sequences

CONSTANT Active   \* the components that this run exercises

VARIABLE which       \* the component that moves in this behaviour
VARIABLES jrn_dir, jrn_leak, jrn_live, jrn_next, jrn_itemp, jrn_ntemp, jrn_mq, jrn_res, jrn_mark,
  jrn_pc, jrn_ret, jrn_what, jrn_mode, jrn_refused, jrn_issued, jrn_calls, jrn_errors
VARIABLES ins_tgt, ins_snap, ins_J, ins_phase, ins_env, ins_sq, ins_dq, ins_pc, ins_it, ins_mem,
  ins_refused, ins_base, ins_goal, ins_written, ins_first, ins_edited, ins_owed, ins_fresh,
  ins_calls, ins_writes, ins_edits, ins_errors
VARIABLES ldg_pub, ldg_tmp, ldg_q, ldg_dq, ldg_rt, ldg_rtmp, ldg_W, ldg_tool, ldg_stop, ldg_cfg,
  ldg_edited, ldg_owed, ldg_under, ldg_waived, ldg_weak, ldg_aba, ldg_restarted, ldg_born,
  ldg_kills, ldg_errors, ldg_changes, ldg_releases
VARIABLES sto_mk, sto_mq, sto_lm, sto_cfg, sto_dir, sto_parked, sto_jr, sto_jq, sto_made, sto_owed,
  sto_last, sto_adopted, sto_exposed, sto_reset, sto_faults, sto_kills, sto_adoptions
VARIABLES ret_root, ret_led, ret_routes, ret_temp, ret_crashed, ret_stamp, ret_lock, ret_C,
  ret_owed, ret_arms, ret_moves, ret_kills
VARIABLES pol_config, pol_marker, pol_wave, pol_ratchet, pol_red, pol_record, pol_route, pol_call,
  pol_stop, pol_last, pol_debt, pol_accepted, pol_routed, pol_calls, pol_acts
VARIABLES top_disk, top_bin, top_receipt, top_newest, top_host, top_cli, top_op, top_last,
  top_taken, top_kept, top_ops, top_faults, top_hands

\* The variables of the components, and a component that does not move.
jrn == <<jrn_dir, jrn_leak, jrn_live, jrn_next, jrn_itemp, jrn_ntemp, jrn_mq, jrn_res, jrn_mark,
  jrn_pc, jrn_ret, jrn_what, jrn_mode, jrn_refused, jrn_issued, jrn_calls, jrn_errors>>
ins == <<ins_tgt, ins_snap, ins_J, ins_phase, ins_env, ins_sq, ins_dq, ins_pc, ins_it, ins_mem,
  ins_refused, ins_base, ins_goal, ins_written, ins_first, ins_edited, ins_owed, ins_fresh,
  ins_calls, ins_writes, ins_edits, ins_errors>>
ldg == <<ldg_pub, ldg_tmp, ldg_q, ldg_dq, ldg_rt, ldg_rtmp, ldg_W, ldg_tool, ldg_stop, ldg_cfg,
  ldg_edited, ldg_owed, ldg_under, ldg_waived, ldg_weak, ldg_aba, ldg_restarted, ldg_born,
  ldg_kills, ldg_errors, ldg_changes, ldg_releases>>
sto == <<sto_mk, sto_mq, sto_lm, sto_cfg, sto_dir, sto_parked, sto_jr, sto_jq, sto_made, sto_owed,
  sto_last, sto_adopted, sto_exposed, sto_reset, sto_faults, sto_kills, sto_adoptions>>
ret == <<ret_root, ret_led, ret_routes, ret_temp, ret_crashed, ret_stamp, ret_lock, ret_C, ret_owed,
  ret_arms, ret_moves, ret_kills>>
pol == <<pol_config, pol_marker, pol_wave, pol_ratchet, pol_red, pol_record, pol_route, pol_call,
  pol_stop, pol_last, pol_debt, pol_accepted, pol_routed, pol_calls, pol_acts>>
top == <<top_disk, top_bin, top_receipt, top_newest, top_host, top_cli, top_op, top_last, top_taken,
  top_kept, top_ops, top_faults, top_hands>>
Idle == 0
jrnIdle == jrn_dir = Idle /\ jrn_leak = Idle /\ jrn_live = Idle /\ jrn_next = Idle /\ jrn_itemp =
  Idle /\ jrn_ntemp = Idle /\ jrn_mq = Idle /\ jrn_res = Idle /\ jrn_mark = Idle /\ jrn_pc = Idle /\
  jrn_ret = Idle /\ jrn_what = Idle /\ jrn_mode = Idle /\ jrn_refused = Idle /\ jrn_issued = Idle /\
  jrn_calls = Idle /\ jrn_errors = Idle
insIdle == ins_tgt = Idle /\ ins_snap = Idle /\ ins_J = Idle /\ ins_phase = Idle /\ ins_env = Idle
  /\ ins_sq = Idle /\ ins_dq = Idle /\ ins_pc = Idle /\ ins_it = Idle /\ ins_mem = Idle /\
  ins_refused = Idle /\ ins_base = Idle /\ ins_goal = Idle /\ ins_written = Idle /\ ins_first = Idle
  /\ ins_edited = Idle /\ ins_owed = Idle /\ ins_fresh = Idle /\ ins_calls = Idle /\ ins_writes =
  Idle /\ ins_edits = Idle /\ ins_errors = Idle
ldgIdle == ldg_pub = Idle /\ ldg_tmp = Idle /\ ldg_q = Idle /\ ldg_dq = Idle /\ ldg_rt = Idle /\
  ldg_rtmp = Idle /\ ldg_W = Idle /\ ldg_tool = Idle /\ ldg_stop = Idle /\ ldg_cfg = Idle /\
  ldg_edited = Idle /\ ldg_owed = Idle /\ ldg_under = Idle /\ ldg_waived = Idle /\ ldg_weak = Idle
  /\ ldg_aba = Idle /\ ldg_restarted = Idle /\ ldg_born = Idle /\ ldg_kills = Idle /\ ldg_errors =
  Idle /\ ldg_changes = Idle /\ ldg_releases = Idle
stoIdle == sto_mk = Idle /\ sto_mq = Idle /\ sto_lm = Idle /\ sto_cfg = Idle /\ sto_dir = Idle /\
  sto_parked = Idle /\ sto_jr = Idle /\ sto_jq = Idle /\ sto_made = Idle /\ sto_owed = Idle /\
  sto_last = Idle /\ sto_adopted = Idle /\ sto_exposed = Idle /\ sto_reset = Idle /\ sto_faults =
  Idle /\ sto_kills = Idle /\ sto_adoptions = Idle
retIdle == ret_root = Idle /\ ret_led = Idle /\ ret_routes = Idle /\ ret_temp = Idle /\ ret_crashed
  = Idle /\ ret_stamp = Idle /\ ret_lock = Idle /\ ret_C = Idle /\ ret_owed = Idle /\ ret_arms =
  Idle /\ ret_moves = Idle /\ ret_kills = Idle
polIdle == pol_config = Idle /\ pol_marker = Idle /\ pol_wave = Idle /\ pol_ratchet = Idle /\
  pol_red = Idle /\ pol_record = Idle /\ pol_route = Idle /\ pol_call = Idle /\ pol_stop = Idle /\
  pol_last = Idle /\ pol_debt = Idle /\ pol_accepted = Idle /\ pol_routed = Idle /\ pol_calls = Idle
  /\ pol_acts = Idle
topIdle == top_disk = Idle /\ top_bin = Idle /\ top_receipt = Idle /\ top_newest = Idle /\ top_host
  = Idle /\ top_cli = Idle /\ top_op = Idle /\ top_last = Idle /\ top_taken = Idle /\ top_kept =
  Idle /\ top_ops = Idle /\ top_faults = Idle /\ top_hands = Idle
vars == <<which, jrn, ins, ldg, sto, ret, pol, top>>

\* What stays as it is while a component moves.
jrnRest == <<which, ins, ldg, sto, ret, pol, top>>
insRest == <<which, jrn, ldg, sto, ret, pol, top>>
ldgRest == <<which, jrn, ins, sto, ret, pol, top>>
stoRest == <<which, jrn, ins, ldg, ret, pol, top>>
retRest == <<which, jrn, ins, ldg, sto, pol, top>>
polRest == <<which, jrn, ins, ldg, sto, ret, top>>
topRest == <<which, jrn, ins, ldg, sto, ret, pol>>

\* Call 1 is session a's, call 2 session b's, call 3 a's subagent's; call 4 has
\* no recorded session.
Owner == <<"a", "b", "a", "none">>
Lane == <<"main", "main", "sub", "main">>

\* The homes that people name: the default order, a group without its
\* second home, and one that shares a home with the others.
Topologies == {<<"agents", "claude">>, <<"agents">>, <<"other", "claude">>}

\* The configurations that an operator switches between.
Plain(k) == [kind |-> k, strict |-> FALSE, impl |-> FALSE, staged |-> {}]
On(st, im, g) == [kind |-> "on", strict |-> st, impl |-> im, staged |-> g]
Switches == {Plain("off"), Plain("bad"), On(TRUE, TRUE, {}), On(FALSE, TRUE, {}), On(FALSE, FALSE, {"gv"})}
Lists == {Plain("absent"), On(FALSE, TRUE, {"g2", "g3", "g4"}), On(FALSE, TRUE, {"g2"})}

\* The components, with the bounds of this suite.
Journal == INSTANCE InstallJournal WITH MaxCalls <- 3, MaxWrites <- 5, MaxErrors <- 1, dir <-
  jrn_dir, leak <- jrn_leak, live <- jrn_live, next <- jrn_next, itemp <- jrn_itemp, ntemp <-
  jrn_ntemp, mq <- jrn_mq, res <- jrn_res, mark <- jrn_mark, pc <- jrn_pc, ret <- jrn_ret, what <-
  jrn_what, mode <- jrn_mode, refused <- jrn_refused, issued <- jrn_issued, calls <- jrn_calls,
  errors <- jrn_errors
Install == INSTANCE InstallTx WITH NItems <- 2, Fresh <- {2}, Files <- {1}, Rewrite <- FALSE,
  EditWhen <- {"after"}, MaxCalls <- 3, MaxWrites <- 2, MaxEdits <- 1, MaxErrors <- 0, tgt <-
  ins_tgt, snap <- ins_snap, J <- ins_J, phase <- ins_phase, env <- ins_env, sq <- ins_sq, dq <-
  ins_dq, pc <- ins_pc, it <- ins_it, mem <- ins_mem, refused <- ins_refused, base <- ins_base, goal
  <- ins_goal, written <- ins_written, first <- ins_first, edited <- ins_edited, owed <- ins_owed,
  fresh <- ins_fresh, calls <- ins_calls, writes <- ins_writes, edits <- ins_edits, errors <-
  ins_errors
InstallPeople == INSTANCE InstallTx WITH NItems <- 2, Fresh <- {2}, Files <- {2}, Rewrite <- FALSE,
  EditWhen <- {"before", "after", "window", "boundary"}, MaxCalls <- 2, MaxWrites <- 2, MaxEdits <-
  1, MaxErrors <- 1, tgt <- ins_tgt, snap <- ins_snap, J <- ins_J, phase <- ins_phase, env <-
  ins_env, sq <- ins_sq, dq <- ins_dq, pc <- ins_pc, it <- ins_it, mem <- ins_mem, refused <-
  ins_refused, base <- ins_base, goal <- ins_goal, written <- ins_written, first <- ins_first,
  edited <- ins_edited, owed <- ins_owed, fresh <- ins_fresh, calls <- ins_calls, writes <-
  ins_writes, edits <- ins_edits, errors <- ins_errors
InstallTwice == INSTANCE InstallTx WITH NItems <- 2, Fresh <- {}, Files <- {}, Rewrite <- TRUE,
  EditWhen <- {}, MaxCalls <- 2, MaxWrites <- 3, MaxEdits <- 0, MaxErrors <- 0, tgt <- ins_tgt, snap
  <- ins_snap, J <- ins_J, phase <- ins_phase, env <- ins_env, sq <- ins_sq, dq <- ins_dq, pc <-
  ins_pc, it <- ins_it, mem <- ins_mem, refused <- ins_refused, base <- ins_base, goal <- ins_goal,
  written <- ins_written, first <- ins_first, edited <- ins_edited, owed <- ins_owed, fresh <-
  ins_fresh, calls <- ins_calls, writes <- ins_writes, edits <- ins_edits, errors <- ins_errors
Ledger == INSTANCE HookLedger WITH Sessions <- {"a", "b"}, NoSession <- "none", Tokens <- {1, 2},
  Owner <- Owner, Lane <- Lane, Routes <- {1}, Narrower <- {}, Retain <- 2, Halt <- TRUE, MaxKills
  <- 1, MaxErrors <- 0, MaxChanges <- 0, MaxReleases <- 0, pub <- ldg_pub, tmp <- ldg_tmp, q <-
  ldg_q, dq <- ldg_dq, rt <- ldg_rt, rtmp <- ldg_rtmp, W <- ldg_W, tool <- ldg_tool, stop <-
  ldg_stop, cfg <- ldg_cfg, edited <- ldg_edited, owed <- ldg_owed, under <- ldg_under, waived <-
  ldg_waived, weak <- ldg_weak, aba <- ldg_aba, restarted <- ldg_restarted, born <- ldg_born, kills
  <- ldg_kills, errors <- ldg_errors, changes <- ldg_changes, releases <- ldg_releases
LedgerRoutes == INSTANCE HookLedger WITH Sessions <- {"a"}, NoSession <- "none", Tokens <- {1, 4},
  Owner <- Owner, Lane <- Lane, Routes <- {1, 2}, Narrower <- {<<2, 1>>}, Retain <- 1, Halt <- TRUE,
  MaxKills <- 0, MaxErrors <- 0, MaxChanges <- 1, MaxReleases <- 0, pub <- ldg_pub, tmp <- ldg_tmp,
  q <- ldg_q, dq <- ldg_dq, rt <- ldg_rt, rtmp <- ldg_rtmp, W <- ldg_W, tool <- ldg_tool, stop <-
  ldg_stop, cfg <- ldg_cfg, edited <- ldg_edited, owed <- ldg_owed, under <- ldg_under, waived <-
  ldg_waived, weak <- ldg_weak, aba <- ldg_aba, restarted <- ldg_restarted, born <- ldg_born, kills
  <- ldg_kills, errors <- ldg_errors, changes <- ldg_changes, releases <- ldg_releases
LedgerLanes == INSTANCE HookLedger WITH Sessions <- {"a"}, NoSession <- "none", Tokens <- {1, 3},
  Owner <- Owner, Lane <- Lane, Routes <- {1}, Narrower <- {}, Retain <- 2, Halt <- TRUE, MaxKills
  <- 0, MaxErrors <- 0, MaxChanges <- 0, MaxReleases <- 1, pub <- ldg_pub, tmp <- ldg_tmp, q <-
  ldg_q, dq <- ldg_dq, rt <- ldg_rt, rtmp <- ldg_rtmp, W <- ldg_W, tool <- ldg_tool, stop <-
  ldg_stop, cfg <- ldg_cfg, edited <- ldg_edited, owed <- ldg_owed, under <- ldg_under, waived <-
  ldg_waived, weak <- ldg_weak, aba <- ldg_aba, restarted <- ldg_restarted, born <- ldg_born, kills
  <- ldg_kills, errors <- ldg_errors, changes <- ldg_changes, releases <- ldg_releases
Store == INSTANCE HookStore WITH Migrates <- TRUE, MaxFaults <- 2, MaxKills <- 2, MaxAdoptions <- 2,
  mk <- sto_mk, mq <- sto_mq, lm <- sto_lm, cfg <- sto_cfg, dir <- sto_dir, parked <- sto_parked, jr
  <- sto_jr, jq <- sto_jq, made <- sto_made, owed <- sto_owed, last <- sto_last, adopted <-
  sto_adopted, exposed <- sto_exposed, reset <- sto_reset, faults <- sto_faults, kills <- sto_kills,
  adoptions <- sto_adoptions
Retention == INSTANCE HookRetention WITH Projects <- {"p", "r"}, Ceiling <- 2, Target <- 1, Batch <-
  1, MaxRoutes <- 1, MaxArms <- 1, MaxMoves <- 1, MaxKills <- 1, root <- ret_root, led <- ret_led,
  routes <- ret_routes, temp <- ret_temp, crashed <- ret_crashed, stamp <- ret_stamp, lock <-
  ret_lock, C <- ret_C, owed <- ret_owed, arms <- ret_arms, moves <- ret_moves, kills <- ret_kills
Policy == INSTANCE HookPolicy WITH MaxCalls <- 2, MaxOperator <- 1, Stages <- {{}, {"gv"}}, Choices
  <- Switches, config <- pol_config, marker <- pol_marker, wave <- pol_wave, ratchet <- pol_ratchet,
  red <- pol_red, record <- pol_record, route <- pol_route, call <- pol_call, stop <- pol_stop, last
  <- pol_last, debt <- pol_debt, accepted <- pol_accepted, routed <- pol_routed, calls <- pol_calls,
  acts <- pol_acts
PolicyRoutes == INSTANCE HookPolicy WITH MaxCalls <- 1, MaxOperator <- 2, Stages <- {{}, {"g2",
  "g3", "g4"}, {"g2"}}, Choices <- Lists, config <- pol_config, marker <- pol_marker, wave <-
  pol_wave, ratchet <- pol_ratchet, red <- pol_red, record <- pol_record, route <- pol_route, call
  <- pol_call, stop <- pol_stop, last <- pol_last, debt <- pol_debt, accepted <- pol_accepted,
  routed <- pol_routed, calls <- pol_calls, acts <- pol_acts
Topology == INSTANCE Installer WITH Copies <- {FALSE}, MaxRelease <- 2, Groups <- Topologies,
  TargetSets <- {{"claude"}, {"claude", "codex"}}, Hosted <- {}, MaxOps <- 3, MaxFaults <- 0,
  MaxHands <- 0, disk <- top_disk, bin <- top_bin, receipt <- top_receipt, newest <- top_newest,
  host <- top_host, cli <- top_cli, op <- top_op, last <- top_last, taken <- top_taken, kept <-
  top_kept, ops <- top_ops, faults <- top_faults, hands <- top_hands
TopologyCopies == INSTANCE Installer WITH Copies <- BOOLEAN, MaxRelease <- 2, Groups <- Topologies,
  TargetSets <- {{"claude"}, {"claude", "codex"}}, Hosted <- {}, MaxOps <- 2, MaxFaults <- 0,
  MaxHands <- 0, disk <- top_disk, bin <- top_bin, receipt <- top_receipt, newest <- top_newest,
  host <- top_host, cli <- top_cli, op <- top_op, last <- top_last, taken <- top_taken, kept <-
  top_kept, ops <- top_ops, faults <- top_faults, hands <- top_hands
Refresh == INSTANCE Installer WITH Copies <- {FALSE}, MaxRelease <- 2, Groups <- {<<"agents",
  "claude">>}, TargetSets <- {{"claude", "codex", "opencode"}}, Hosted <- {"claude"}, MaxOps <- 2,
  MaxFaults <- 1, MaxHands <- 1, disk <- top_disk, bin <- top_bin, receipt <- top_receipt, newest <-
  top_newest, host <- top_host, cli <- top_cli, op <- top_op, last <- top_last, taken <- top_taken,
  kept <- top_kept, ops <- top_ops, faults <- top_faults, hands <- top_hands

Components == {"journal", "install", "install people", "install twice", "ledger", "ledger routes", "ledger lanes", "store", "retention", "policy", "policy routes", "topology", "topology copies", "refresh"}
ASSUME ActiveAssumption == Active \subseteq Components

Init == /\ which \in Active
        /\ (IF which = "journal" THEN Journal!Init ELSE jrnIdle)
        /\ (IF which = "install" THEN Install!Init ELSE IF which = "install people" THEN InstallPeople!Init ELSE IF which = "install twice" THEN InstallTwice!Init ELSE insIdle)
        /\ (IF which = "ledger" THEN Ledger!Init ELSE IF which = "ledger routes" THEN LedgerRoutes!Init ELSE IF which = "ledger lanes" THEN LedgerLanes!Init ELSE ldgIdle)
        /\ (IF which = "store" THEN Store!Init ELSE stoIdle)
        /\ (IF which = "retention" THEN Retention!Init ELSE retIdle)
        /\ (IF which = "policy" THEN Policy!Init ELSE IF which = "policy routes" THEN PolicyRoutes!Init ELSE polIdle)
        /\ (IF which = "topology" THEN Topology!Init ELSE IF which = "topology copies" THEN TopologyCopies!Init ELSE IF which = "refresh" THEN Refresh!Init ELSE topIdle)
Next ==
  \/ which = "journal" /\ Journal!Next /\ UNCHANGED jrnRest
  \/ which = "install" /\ Install!Next /\ UNCHANGED insRest
  \/ which = "install people" /\ InstallPeople!Next /\ UNCHANGED insRest
  \/ which = "install twice" /\ InstallTwice!Next /\ UNCHANGED insRest
  \/ which = "ledger" /\ Ledger!Next /\ UNCHANGED ldgRest
  \/ which = "ledger routes" /\ LedgerRoutes!Next /\ UNCHANGED ldgRest
  \/ which = "ledger lanes" /\ LedgerLanes!Next /\ UNCHANGED ldgRest
  \/ which = "store" /\ Store!Next /\ UNCHANGED stoRest
  \/ which = "retention" /\ Retention!Next /\ UNCHANGED retRest
  \/ which = "policy" /\ Policy!Next /\ UNCHANGED polRest
  \/ which = "policy routes" /\ PolicyRoutes!Next /\ UNCHANGED polRest
  \/ which = "topology" /\ Topology!Next /\ UNCHANGED topRest
  \/ which = "topology copies" /\ TopologyCopies!Next /\ UNCHANGED topRest
  \/ which = "refresh" /\ Refresh!Next /\ UNCHANGED topRest
Spec == Init /\ [][Next]_vars

----------------------------------------------------------------------------
(* Properties: what the components promise, each in its own terms.          *)

\* The receipt of an installation describes the disk, unless people or an
\* uninstall took a recorded artifact away or a rollback left a first placement;
\* a link of a recorded group leads to files, and a successful update of everything
\* leaves one version of the binary, the placements and the host plugins.
ReceiptsTrue ==
  /\ which = "topology" => Topology!ReceiptTrue /\ Topology!GroupLinksLead /\ Topology!GroupsApart /\ Topology!OneVersion
  /\ which = "topology copies" =>
       TopologyCopies!ReceiptTrue /\ TopologyCopies!GroupLinksLead /\ TopologyCopies!GroupsApart /\ TopologyCopies!OneVersion
  /\ which = "refresh" => Refresh!ReceiptTrue /\ Refresh!GroupLinksLead /\ Refresh!OneVersion

\* An installation that is over has all of its changes or none, whatever was
\* killed or failed, except that an artifact whose second placement was begun may
\* still be the first one (transaction.go:2646-2651, where
\* docs/agent-portability.md:106 promises the complete pre-run state); what people
\* wrote after its placement is never dropped (what they write before it, or in the
\* middle of it, can be: transaction.go:3208, receipt.go:957), and a commit that was
\* recorded is never rolled back.
InstallsWhole ==
  /\ which = "journal" => Journal!CommitIsFinal
  /\ which = "install" => Install!AllOrNothing /\ Install!EditsSurvive
  /\ which = "install people" => InstallPeople!AllOrNothing
  /\ which = "install twice" => InstallTwice!AllOrNothing
  /\ which = "refresh" => Refresh!FailureRestores

\* Installation, recovery and adoption refuse only in the situations the models
\* name.  The refusals of an interrupted installation are among them although
\* docs/agent-portability.md:109-111 says that recovery finishes a killed run:
\* KilledRunRecovers states that, and TLC refutes it.
RefusalsAreKnown ==
  /\ which = "journal" => Journal!RefusalsAreKnown
  /\ which = "install" => Install!RefusalsAreKnown
  /\ which = "install people" => InstallPeople!RefusalsAreKnown
  /\ which = "install twice" => InstallTwice!RefusalsAreKnown
  /\ which = "topology" => Topology!RefusalsAreKnown
  /\ which = "topology copies" => TopologyCopies!RefusalsAreKnown
  /\ which = "refresh" => Refresh!RefusalsAreKnown
  /\ which = "store" => Store!Repairable

\* An unchecked change stays on record until a gate that checks as much has
\* passed: across sessions, lanes, routes, kills and the compaction of old records;
\* and a host plugin that an update has seen stays an obligation of the updates to
\* come.  The code has four ways to lose a change, and the formulas leave out what
\* follows them: a Stop clears a later ledger that has counted to the same revision
\* (hook.go:4042-4049, NewerObligationRetained below), a command begins a ledger
\* anew while the real one is in a dead process's quarantine (hook.go:3808), an
\* event takes a store for the first one while no marker is in place
\* (hook.go:2386-2391), and an adoption takes a genuine store of another generation
\* (adopt.go:39-60).
ObligationsKept ==
  /\ which = "ledger" => Ledger!ObligationKept /\ Ledger!InFlightRecorded /\ Ledger!RoutesNeedLedger
  /\ which = "ledger routes" => LedgerRoutes!ObligationKept /\ LedgerRoutes!InFlightRecorded /\ LedgerRoutes!NarrowNeverDischarges
  /\ which = "ledger lanes" => LedgerLanes!ObligationKept /\ LedgerLanes!InFlightRecorded
  /\ which = "store" => Store!LossIsRefused
  /\ which = "retention" => Retention!LiveKept
  /\ which = "policy" => Policy!DebtRecorded
  /\ which = "policy routes" => PolicyRoutes!DebtRecorded
  /\ which = "refresh" => Refresh!PluginsRemembered

\* What one step never does: tear or lose the journal's record (the files around
\* it implement the register JournalRegister), discharge what cannot be proved
\* vanished, end a turn over its own drift, let the agent switch its governance
\* off, hold a turn over lenient findings, or forget a placement that no one asked
\* to give up.
StepsKeepPromises ==
  [][/\ which = "journal" => Journal!RecordIsAtomic
     /\ which = "retention" => Retention!UnprovableKept
     /\ which = "policy" => Policy!NoRedTurn /\ Policy!AgentKeepsGovernance /\ Policy!LenientTurnEnds
     /\ which = "topology" => Topology!NothingForgotten
     /\ which = "topology copies" => TopologyCopies!NothingForgotten]_vars

\* docs/agent-portability.md:109-111: "a killed run leaves a recoverable journal
\* that interrupted journal recovery finishes at the next lock acquisition": a
\* rollback, by the run or by a recovery, that nobody's edit disturbs leaves nothing
\* alone (rollbackInstallJournal).
KilledRunRecovers == which = "install" => Install!KilledRunRecovers

\* hook.go:4009: of edits that arrive while the gates run "the newer project
\* obligation is retained and must be checked again" (clearStateRevision).
NewerObligationRetained == which = "ledger" => Ledger!NewerObligationRetained
=============================================================================
