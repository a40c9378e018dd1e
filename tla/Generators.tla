----------------------------- MODULE Generators -----------------------------
(* The generators of design artifacts side by side: reconciliation against a *)
(* pattern and the model emitted for it, and the files a generator owns.  A  *)
(* behaviour of the suite moves one component, `which'.                      *)
EXTENDS Integers, FiniteSets, Sequences, TLAPS

CONSTANTS Active,                         \* the components that this run exercises
          Stages, Win, Lose, ReopenTo, CloseOn, Faults, LifecycleRetries, LifecycleEdits,
          Phases, Success, Failures, Serves, TerminalRetries, TerminalEdits,
          Forwards, FlagNames, Declared, SagaRetries, SagaEdits

VARIABLE which       \* the component that moves in this behaviour
VARIABLES lif_fault, lif_machine, lif_edits, lif_pc, lif_st, lif_rc, lif_stage, lif_pending,
  lif_prior, lif_closeSet
VARIABLES trm_machine, trm_finals, trm_edits, trm_pc, trm_at, trm_st, trm_rc, trm_flag, trm_drifted
VARIABLES sag_machine, sag_finals, sag_obl, sag_edits, sag_pc, sag_at, sag_st, sag_rc, sag_flags,
  sag_done, sag_undone, sag_drifted
VARIABLES gen_machines, gen_sems, gen_comps, gen_files, gen_release, gen_edits, gen_last

\* The variables of the components, and a component that does not move.
lif == <<lif_fault, lif_machine, lif_edits, lif_pc, lif_st, lif_rc, lif_stage, lif_pending,
  lif_prior, lif_closeSet>>
trm == <<trm_machine, trm_finals, trm_edits, trm_pc, trm_at, trm_st, trm_rc, trm_flag, trm_drifted>>
sag == <<sag_machine, sag_finals, sag_obl, sag_edits, sag_pc, sag_at, sag_st, sag_rc, sag_flags,
  sag_done, sag_undone, sag_drifted>>
gen == <<gen_machines, gen_sems, gen_comps, gen_files, gen_release, gen_edits, gen_last>>
Idle == 0
lifIdle == lif_fault = Idle /\ lif_machine = Idle /\ lif_edits = Idle /\ lif_pc = Idle /\ lif_st =
  Idle /\ lif_rc = Idle /\ lif_stage = Idle /\ lif_pending = Idle /\ lif_prior = Idle /\
  lif_closeSet = Idle
trmIdle == trm_machine = Idle /\ trm_finals = Idle /\ trm_edits = Idle /\ trm_pc = Idle /\ trm_at =
  Idle /\ trm_st = Idle /\ trm_rc = Idle /\ trm_flag = Idle /\ trm_drifted = Idle
sagIdle == sag_machine = Idle /\ sag_finals = Idle /\ sag_obl = Idle /\ sag_edits = Idle /\ sag_pc =
  Idle /\ sag_at = Idle /\ sag_st = Idle /\ sag_rc = Idle /\ sag_flags = Idle /\ sag_done = Idle /\
  sag_undone = Idle /\ sag_drifted = Idle
genIdle == gen_machines = Idle /\ gen_sems = Idle /\ gen_comps = Idle /\ gen_files = Idle /\
  gen_release = Idle /\ gen_edits = Idle /\ gen_last = Idle
vars == <<which, lif, trm, sag, gen>>

\* What stays as it is while a component moves.
lifRest == <<which, trm, sag, gen>>
trmRest == <<which, lif, sag, gen>>
sagRest == <<which, lif, trm, gen>>
genRest == <<which, lif, trm, sag>>

\* Two stages with and without a fault state; two phases, the second retried;
\* the effects that a saga's author first declares for its forward steps.
TwoStages == <<"A", "B">>
LostOrNone == {{}, {"lost"}}
TwoPhases == <<"P1", "P2">>
RetrySecond == [r \in {"retrying"} |-> "P2"]
ThreeSteps == <<"Reserving", "Paying", "Shipping">>
Effects == [s \in {"Reserving", "Paying", "Shipping"} |->
    CASE s = "Reserving" -> [sets |-> "reserved", undo |-> "released"]
      [] s = "Paying" -> [sets |-> "captured", undo |-> "refunded"]
      [] OTHER -> [sets |-> "shipped", undo |-> "none"]]

\* The components, with the bounds of this suite.
Lifecycle == INSTANCE LifecycleGen WITH Stages <- Stages, Win <- Win, Lose <- Lose, ReopenTo <-
  ReopenTo, CloseOn <- CloseOn, Faults <- Faults, MaxRetries <- LifecycleRetries, MaxEdits <-
  LifecycleEdits, fault <- lif_fault, machine <- lif_machine, edits <- lif_edits, pc <- lif_pc, st
  <- lif_st, rc <- lif_rc, stage <- lif_stage, pending <- lif_pending, prior <- lif_prior, closeSet
  <- lif_closeSet

(* The linear lifecycle.  An accepted machine stays as it was accepted; what *)
(* moves is the data of the emitted model.                                   *)

ASSUME LifecycleAssumption == Lifecycle!WellDeclared

\* Succ leads from a stage that can advance to a later one, and to every stage
\* but the first.
LEMMA LifecycleStages ==
  ASSUME Lifecycle!WellDeclared
  PROVE  /\ Lifecycle!First \in Lifecycle!Open /\ Lifecycle!LastOpen \in Lifecycle!Open
         /\ \A s \in Lifecycle!Advanceable : Lifecycle!Succ(s) \in Lifecycle!Open
             /\ Lifecycle!Succ(s) # Lifecycle!First /\ Lifecycle!Rank(Lifecycle!Succ(s)) > Lifecycle!Rank(s)
         /\ \A s \in Lifecycle!Open : \A t \in Lifecycle!Terminal : Lifecycle!Rank(t) > Lifecycle!Rank(s)
         /\ \A t \in Lifecycle!Open \ {Lifecycle!First} : \E s \in Lifecycle!Advanceable : t = Lifecycle!Succ(s)
<1> DEFINE n == Len(Stages)
           At(s) == CHOOSE i \in 1..Len(Stages) : Stages[i] = s
<1>1. n \in Nat /\ n >= 1 /\ \A i, j \in 1..n : Stages[i] = Stages[j] => i = j
  BY DEF Lifecycle!WellDeclared
<1>2. \A s \in Lifecycle!Open : At(s) \in 1..n /\ Stages[At(s)] = s
  BY DEF Lifecycle!Open
<1>3. \A i \in 1..n : Stages[i] \in Lifecycle!Open /\ At(Stages[i]) = i
  <2> TAKE i \in 1..n
  <2>1. Stages[i] \in Lifecycle!Open
    BY DEF Lifecycle!Open
  <2> QED BY <1>1, <1>2, <2>1
<1>4. \A s \in Lifecycle!Open : Lifecycle!Rank(s) = At(s)
  BY DEF Lifecycle!Rank
<1>5. \A t \in Lifecycle!Terminal : Lifecycle!Rank(t) = n + 1
  BY DEF Lifecycle!Rank, Lifecycle!WellDeclared
<1>6. \A s : Lifecycle!Succ(s) = Stages[1 + At(s)]
  BY DEF Lifecycle!Succ
<1> HIDE DEF n, At
<1>7. Lifecycle!First \in Lifecycle!Open /\ Lifecycle!LastOpen \in Lifecycle!Open
          /\ At(Lifecycle!First) = 1 /\ At(Lifecycle!LastOpen) = n
  BY <1>1, <1>3 DEF Lifecycle!First, Lifecycle!LastOpen, n
<1>8. ASSUME NEW s \in Lifecycle!Advanceable
      PROVE  Lifecycle!Succ(s) \in Lifecycle!Open /\ Lifecycle!Succ(s) # Lifecycle!First
                 /\ Lifecycle!Rank(Lifecycle!Succ(s)) > Lifecycle!Rank(s)
  <2>1. s \in Lifecycle!Open /\ At(s) \in 1..n /\ At(s) # n
    BY <1>2, <1>7 DEF Lifecycle!Advanceable, Lifecycle!LastOpen, n
  <2>2. 1 + At(s) \in 1..n
    BY <1>1, <2>1
  <2>3. Lifecycle!Succ(s) \in Lifecycle!Open /\ At(Lifecycle!Succ(s)) = 1 + At(s)
    BY <1>3, <1>6, <2>2
  <2>4. At(Lifecycle!Succ(s)) # 1
    BY <2>1, <2>3
  <2> QED BY <1>4, <1>7, <2>1, <2>3, <2>4
<1>9. ASSUME NEW s \in Lifecycle!Open, NEW t \in Lifecycle!Terminal
                 PROVE Lifecycle!Rank(t) > Lifecycle!Rank(s)
  BY <1>1, <1>2, <1>4, <1>5
<1>10. ASSUME NEW t \in Lifecycle!Open \ {Lifecycle!First}
                  PROVE \E s \in Lifecycle!Advanceable : t = Lifecycle!Succ(s)
  <2>1. t \in Lifecycle!Open /\ At(t) \in 1..n /\ Stages[At(t)] = t /\ At(t) # 1
    BY <1>2 DEF Lifecycle!First
  <2>2. At(t) - 1 \in 1..n /\ At(t) - 1 # n /\ 1 + (At(t) - 1) = At(t)
    BY <1>1, <2>1
  <2>3. Stages[At(t) - 1] \in Lifecycle!Open /\ At(Stages[At(t) - 1]) = At(t) - 1
    BY <1>3, <2>2
  <2>4. Stages[At(t) - 1] \in Lifecycle!Advanceable
    BY <1>7, <2>2, <2>3 DEF Lifecycle!Advanceable
  <2>5. Lifecycle!Succ(Stages[At(t) - 1]) = t
    BY <1>6, <2>1, <2>2, <2>3
  <2> QED BY <2>4, <2>5
<1> QED BY <1>7, <1>8, <1>9, <1>10

LEMMA LifecycleInit ==
  ASSUME Lifecycle!WellDeclared, Lifecycle!Init
  PROVE  Lifecycle!Inv
<1>1. Lifecycle!First \in Lifecycle!Open
  BY LifecycleStages
<1>2. Lifecycle!First \in Lifecycle!Domain /\ Lifecycle!First \notin Lifecycle!Overlay
  BY <1>1 DEF Lifecycle!Domain, Lifecycle!WellDeclared
<1> QED BY <1>2 DEF Lifecycle!Init, Lifecycle!Inv, Lifecycle!Heading, Lifecycle!AtRest, Lifecycle!Resting,
     Lifecycle!CloseDate

LEMMA LifecycleReconciles ==
  ASSUME UNCHANGED <<lif_fault, lif_machine>>
  PROVE  Lifecycle!Reconciled' = Lifecycle!Reconciled
BY DEF Lifecycle!Reconciled, Lifecycle!Vocabulary, Lifecycle!RequiredRoutes, Lifecycle!OverlayShape,
     Lifecycle!RollbackTotal, Lifecycle!RequireModeled, Lifecycle!Targets, Lifecycle!Resting,
       Lifecycle!RollbackRoutes, Lifecycle!Enters, Lifecycle!Carried

\* A step of the emitted model.
LEMMA LifecycleData ==
  ASSUME Lifecycle!WellDeclared, Lifecycle!Inv, lif_pc = "run", UNCHANGED <<lif_fault, lif_machine,
             lif_edits, lif_pc>>,
         Lifecycle!StartAdvance \/ Lifecycle!StartWin \/ Lifecycle!StartLose \/ Lifecycle!StartReopen
             \/ Lifecycle!SaveDone \/ Lifecycle!SaveLocked \/ Lifecycle!SaveFail
         \/ Lifecycle!RetryExhausted \/ Lifecycle!RetryAgain \/ Lifecycle!RolledBack
             \/ Lifecycle!RollbackFault
  PROVE  Lifecycle!Inv' /\ Lifecycle!StageForward
<1>0. /\ Lifecycle!Heading /\ Lifecycle!AtRest /\ Lifecycle!CloseDate /\ Lifecycle!Reconciled
          /\ lif_fault \in Faults /\ Lifecycle!Resting' = Lifecycle!Resting
      /\ lif_fault' \in Faults /\ Lifecycle!Reconciled'
  BY LifecycleReconciles DEF Lifecycle!Inv, Lifecycle!Resting
<1>1. /\ Lifecycle!Domain = Lifecycle!Open \cup Lifecycle!Terminal
          /\ Lifecycle!Domain \cap Lifecycle!Overlay = {} /\ lif_fault \cap Lifecycle!Overlay = {}
      /\ Lifecycle!Resting = Lifecycle!Domain \cup lif_fault
          /\ Lifecycle!Overlay = {"busy", "retry", "rollback"}
      /\ CloseOn \notin lif_fault /\ Lifecycle!Advanceable \subseteq Lifecycle!Open
          /\ ReopenTo \in Lifecycle!Open
  BY <1>0 DEF Lifecycle!WellDeclared, Lifecycle!Domain, Lifecycle!Resting, Lifecycle!Overlay,
       Lifecycle!Advanceable
<1>2. \A s \in Lifecycle!Advanceable : Lifecycle!Succ(s) \in Lifecycle!Open
          /\ Lifecycle!Rank(Lifecycle!Succ(s)) > Lifecycle!Rank(s)
  BY LifecycleStages
<1>3. \A s \in Lifecycle!Open : \A t \in Lifecycle!Terminal : Lifecycle!Rank(t) > Lifecycle!Rank(s)
  BY LifecycleStages
<1>q. ASSUME Lifecycle!Heading', Lifecycle!AtRest', Lifecycle!CloseDate', Lifecycle!StageForward
                 PROVE Lifecycle!Inv' /\ Lifecycle!StageForward
  BY <1>0, <1>q DEF Lifecycle!Inv
<1>4. ASSUME NEW s \in Lifecycle!Domain, NEW k, NEW p, Lifecycle!Start(s, k, p),
             \/ s \in Lifecycle!Advanceable /\ p = Lifecycle!Succ(s)
             \/ s \in Lifecycle!Open /\ p \in Lifecycle!Terminal
             \/ s \in Lifecycle!Terminal /\ p = ReopenTo
      PROVE  Lifecycle!Inv' /\ Lifecycle!StageForward
  <2>1. lif_st = s /\ lif_st' = "busy" /\ lif_pending' = p /\ lif_prior' = s /\ lif_stage' = lif_stage
            /\ lif_closeSet' = lif_closeSet
    BY <1>4 DEF Lifecycle!Start
  <2>2. lif_stage = s
    BY <1>0, <1>1, <2>1 DEF Lifecycle!AtRest
  <2> QED BY <1>0, <1>1, <1>4, <1>q, <2>1, <2>2 DEF Lifecycle!Heading, Lifecycle!AtRest,
       Lifecycle!CloseDate, Lifecycle!StageForward
<1>5. CASE Lifecycle!StartAdvance
  BY <1>1, <1>4, <1>5 DEF Lifecycle!StartAdvance
<1>6. CASE Lifecycle!StartWin
  BY <1>1, <1>4, <1>6 DEF Lifecycle!StartWin, Lifecycle!Terminal
<1>7. CASE Lifecycle!StartLose
  BY <1>1, <1>4, <1>7 DEF Lifecycle!StartLose, Lifecycle!Terminal
<1>8. CASE Lifecycle!StartReopen
  BY <1>1, <1>4, <1>8 DEF Lifecycle!StartReopen
<1>9. CASE Lifecycle!SaveDone
  <2>1. /\ lif_st = "busy" /\ lif_st' = lif_pending /\ lif_stage' = lif_pending
            /\ lif_pending' = Lifecycle!None /\ lif_prior' = Lifecycle!None
        /\ lif_closeSet' = (lif_closeSet \/ lif_pending = CloseOn)
    BY <1>9 DEF Lifecycle!SaveDone, Lifecycle!Rests
  <2>2. /\ lif_stage = lif_prior /\ lif_pending \in Lifecycle!Domain
        /\ \/ lif_prior \in Lifecycle!Advanceable /\ lif_pending = Lifecycle!Succ(lif_prior)
           \/ lif_prior \in Lifecycle!Open /\ lif_pending \in Lifecycle!Terminal
           \/ lif_prior \in Lifecycle!Terminal /\ lif_pending = ReopenTo
    BY <1>0, <1>1, <1>2, <2>1 DEF Lifecycle!Heading
  <2>3. Lifecycle!CloseDate'
    BY <2>1 DEF Lifecycle!CloseDate
  <2>4. Lifecycle!Heading' /\ Lifecycle!AtRest'
    BY <1>0, <1>1, <2>1, <2>2 DEF Lifecycle!Heading, Lifecycle!AtRest
  <2>5. Lifecycle!StageForward
    BY <1>1, <1>2, <1>3, <2>1, <2>2 DEF Lifecycle!StageForward
  <2> QED BY <1>q, <2>3, <2>4, <2>5
<1>10. CASE Lifecycle!SaveLocked \/ Lifecycle!SaveFail \/ Lifecycle!RetryExhausted \/ Lifecycle!RetryAgain
  <2>1. lif_st \in Lifecycle!Overlay /\ lif_st' \in Lifecycle!Overlay
            /\ UNCHANGED <<lif_stage, lif_pending, lif_prior, lif_closeSet>>
    BY <1>1, <1>10 DEF Lifecycle!SaveLocked, Lifecycle!SaveFail, Lifecycle!RetryExhausted,
         Lifecycle!RetryAgain, Lifecycle!Moves
  <2> QED BY <1>0, <1>q, <2>1 DEF Lifecycle!Heading, Lifecycle!AtRest, Lifecycle!CloseDate,
       Lifecycle!StageForward
<1>11. CASE Lifecycle!RolledBack
  <2>1. /\ lif_st = "rollback" /\ lif_st' = lif_prior /\ lif_stage' = lif_prior
            /\ lif_pending' = Lifecycle!None /\ lif_prior' = Lifecycle!None /\ lif_closeSet' = lif_closeSet
    BY <1>11 DEF Lifecycle!RolledBack, Lifecycle!Rests
  <2>2. lif_stage = lif_prior /\ lif_prior \in Lifecycle!Domain
    BY <1>0, <1>1, <2>1 DEF Lifecycle!Heading
  <2> QED BY <1>0, <1>1, <1>q, <2>1, <2>2 DEF Lifecycle!Heading, Lifecycle!AtRest, Lifecycle!CloseDate,
       Lifecycle!StageForward
<1>12. CASE Lifecycle!RollbackFault
  <2>1. PICK f \in lif_fault : lif_st' = f /\ lif_stage' = f /\ lif_pending' = Lifecycle!None
                 /\ lif_prior' = Lifecycle!None /\ lif_closeSet' = lif_closeSet
    BY <1>12 DEF Lifecycle!RollbackFault, Lifecycle!Rests
  <2> QED BY <1>0, <1>1, <1>q, <2>1 DEF Lifecycle!Heading, Lifecycle!AtRest, Lifecycle!CloseDate,
       Lifecycle!StageForward
<1> QED BY <1>5, <1>6, <1>7, <1>8, <1>9, <1>10, <1>11, <1>12

LEMMA LifecycleStep ==
  ASSUME Lifecycle!WellDeclared, Lifecycle!Inv, [Lifecycle!Next]_(Lifecycle!vars)
  PROVE  Lifecycle!Inv' /\ Lifecycle!StageForward
<1>1. CASE Lifecycle!ToggleAny \/ Lifecycle!ToggleFamiliar
  <2>1. lif_pc = "edit" /\ UNCHANGED <<lif_fault, lif_pc, Lifecycle!data>>
    BY <1>1 DEF Lifecycle!ToggleAny, Lifecycle!ToggleFamiliar, Lifecycle!Toggle
  <2> QED BY <2>1 DEF Lifecycle!Inv, Lifecycle!data, Lifecycle!Heading, Lifecycle!AtRest,
       Lifecycle!Resting, Lifecycle!CloseDate, Lifecycle!StageForward
<1>2. CASE Lifecycle!Generate
  <2>1. Lifecycle!Reconciled /\ UNCHANGED <<lif_fault, lif_machine, Lifecycle!data>>
    BY <1>2 DEF Lifecycle!Generate
  <2>2. Lifecycle!Reconciled'
    BY <2>1, LifecycleReconciles
  <2> QED BY <2>1, <2>2 DEF Lifecycle!Inv, Lifecycle!data, Lifecycle!Heading, Lifecycle!AtRest,
       Lifecycle!Resting, Lifecycle!CloseDate, Lifecycle!StageForward
<1>3. CASE Lifecycle!StartAdvance \/ Lifecycle!StartWin \/ Lifecycle!StartLose \/ Lifecycle!StartReopen
  <2>1. lif_pc = "run" /\ UNCHANGED <<lif_fault, lif_machine, lif_edits, lif_pc>>
    BY <1>3 DEF Lifecycle!StartAdvance, Lifecycle!StartWin, Lifecycle!StartLose, Lifecycle!StartReopen,
         Lifecycle!Start
  <2> QED BY <1>3, <2>1, LifecycleData
<1>4. CASE Lifecycle!Overlay_Next
  <2>1. lif_pc = "run" /\ UNCHANGED <<lif_fault, lif_machine, lif_edits, lif_pc>>
    BY <1>4 DEF Lifecycle!Overlay_Next
  <2> QED BY <1>4, <2>1, LifecycleData DEF Lifecycle!Overlay_Next
<1>5. CASE UNCHANGED Lifecycle!vars
  <2>1. UNCHANGED <<lif_fault, lif_machine, lif_pc, Lifecycle!data>>
    BY <1>5 DEF Lifecycle!vars
  <2>2. Lifecycle!Reconciled' = Lifecycle!Reconciled
    BY <2>1, LifecycleReconciles
  <2> QED BY <1>5, <2>1, <2>2 DEF Lifecycle!Inv, Lifecycle!data, Lifecycle!Heading, Lifecycle!AtRest,
       Lifecycle!Resting, Lifecycle!CloseDate, Lifecycle!StageForward
<1> QED BY <1>1, <1>2, <1>3, <1>4, <1>5 DEF Lifecycle!Next

\* What the invariant says of the machine and its model.
LEMMA LifecycleFollows ==
  ASSUME Lifecycle!WellDeclared, Lifecycle!Inv
  PROVE  Lifecycle!Atomic /\ Lifecycle!CloseDate /\ Lifecycle!NothingDropped /\ Lifecycle!ModelFollows
<1>0. Lifecycle!Heading /\ Lifecycle!AtRest /\ Lifecycle!CloseDate /\ lif_fault \in Faults
  BY DEF Lifecycle!Inv
<1>1. /\ Lifecycle!Domain = Lifecycle!Open \cup Lifecycle!Terminal
          /\ Lifecycle!Domain \cap Lifecycle!Overlay = {}
              /\ lif_fault \cap (Lifecycle!Domain \cup Lifecycle!Overlay) = {}
      /\ Lifecycle!Resting = Lifecycle!Domain \cup lif_fault
          /\ Lifecycle!Overlay = {"busy", "retry", "rollback"} /\ Lifecycle!None \notin Lifecycle!Domain
      /\ Lifecycle!Advanceable \subseteq Lifecycle!Open /\ ReopenTo \in Lifecycle!Open
          /\ Lifecycle!Open \cap Lifecycle!Terminal = {}
  BY <1>0 DEF Lifecycle!WellDeclared, Lifecycle!Domain, Lifecycle!Resting, Lifecycle!Overlay,
       Lifecycle!Advanceable
<1>2. /\ \A s \in Lifecycle!Advanceable : Lifecycle!Succ(s) \in Lifecycle!Open
      /\ \A t \in Lifecycle!Open \ {Lifecycle!First} : \E s \in Lifecycle!Advanceable : t = Lifecycle!Succ(s)
  BY LifecycleStages
<1>3. Lifecycle!Atomic
  BY <1>0, <1>1, <1>2 DEF Lifecycle!Atomic, Lifecycle!Heading, Lifecycle!AtRest
<1>4. ASSUME lif_pc = "run", NEW r \in lif_machine, r.from = lif_st
      PROVE  \/ lif_st \in Lifecycle!Domain /\ r.to = "busy"
             \/ lif_st = "busy" /\ r.key = "onDone" /\ r.to \in Lifecycle!Domain
                  /\ \E s \in Lifecycle!Domain : r.to \in {Win, Lose, ReopenTo}
                      \/ (s \in Lifecycle!Advanceable /\ r.to = Lifecycle!Succ(s))
             \/ lif_st = "busy" /\ r.to \in {"retry", "rollback"}
             \/ lif_st = "retry" /\ r.to \in {"busy", "rollback"}
             \/ lif_st = "rollback" /\ (r.to \in lif_fault \/ r.guard = r.to \/ r.guard = Lifecycle!None)
  <2>1. Lifecycle!Carried(r) /\ Lifecycle!RollbackTotal
    BY <1>4 DEF Lifecycle!Inv, Lifecycle!Reconciled, Lifecycle!RequireModeled
  <2>2. CASE lif_st \in Lifecycle!Domain
    BY <1>1, <1>4, <2>1, <2>2 DEF Lifecycle!Carried
  <2>3. CASE lif_st \in lif_fault
    BY <1>1, <1>4, <2>1, <2>3 DEF Lifecycle!Carried
  <2>4. CASE lif_st = "busy"
    <3>1. lif_st \notin Lifecycle!Open /\ lif_st \notin Lifecycle!Terminal
              /\ lif_st \notin Lifecycle!Advanceable
      BY <1>1, <2>4
    <3>2. (r.key = "onDone" /\ r.to \in Lifecycle!Commits) \/ r.to \in {"retry", "rollback"}
      BY <1>4, <2>1, <2>4, <3>1 DEF Lifecycle!Carried
    <3>3. ASSUME r.to \in Lifecycle!Commits
          PROVE  r.to \in Lifecycle!Domain /\ \E s \in Lifecycle!Domain : r.to \in {Win, Lose, ReopenTo}
                     \/ (s \in Lifecycle!Advanceable /\ r.to = Lifecycle!Succ(s))
      BY <1>1, <1>2, <3>3 DEF Lifecycle!Commits, Lifecycle!Terminal
    <3> QED BY <2>4, <3>2, <3>3
  <2>5. CASE lif_st = "retry"
    <3>1. lif_st \notin Lifecycle!Open /\ lif_st \notin Lifecycle!Terminal
              /\ lif_st \notin Lifecycle!Advanceable
      BY <1>1, <2>5
    <3> QED BY <1>4, <2>1, <2>5, <3>1 DEF Lifecycle!Carried
  <2>6. CASE lif_st = "rollback"
    <3>1. lif_st \notin Lifecycle!Open /\ lif_st \notin Lifecycle!Terminal
              /\ lif_st \notin Lifecycle!Advanceable
      BY <1>1, <2>6
    <3>2. r.key = "always"
      BY <1>4, <2>1, <2>6, <3>1 DEF Lifecycle!Carried
    <3>3. r \in Lifecycle!RollbackRoutes
      BY <1>4, <2>6, <3>2 DEF Lifecycle!RollbackRoutes
    <3> QED BY <2>1, <2>6, <3>3 DEF Lifecycle!RollbackTotal
  <2> QED BY <1>0, <1>1, <2>2, <2>3, <2>4, <2>5, <2>6 DEF Lifecycle!AtRest
<1>5. Lifecycle!NothingDropped
  BY <1>4 DEF Lifecycle!NothingDropped
<1>6. ASSUME lif_pc = "run", lif_st = "rollback"
                 PROVE \E r \in Lifecycle!RollbackRoutes : r.to = lif_prior /\ r.guard = lif_prior
  <2>1. lif_prior \in Lifecycle!Domain /\ Lifecycle!RollbackTotal /\ Lifecycle!RequiredRoutes
    BY <1>3, <1>6, <1>1 DEF Lifecycle!Inv, Lifecycle!Reconciled, Lifecycle!Atomic
  <2>2. lif_prior \in Lifecycle!Enters
    BY <1>1, <2>1 DEF Lifecycle!Enters, Lifecycle!RequiredRoutes, Lifecycle!Keys, Lifecycle!Events
  <2>3. PICK r \in Lifecycle!RollbackRoutes : r.guard = lif_prior
    BY <2>1, <2>2 DEF Lifecycle!RollbackTotal
  <2> QED BY <1>1, <2>1, <2>3 DEF Lifecycle!RollbackTotal
<1>7. ASSUME lif_pc = "run", lif_st = "busy", lif_pending # Lifecycle!First
                 PROVE lif_pending \in Lifecycle!Targets("busy", "onDone")
  <2>1. lif_pending \in Lifecycle!Domain /\ Lifecycle!OverlayShape
    BY <1>3, <1>7, <1>1 DEF Lifecycle!Inv, Lifecycle!Reconciled, Lifecycle!Atomic
  <2> QED BY <1>1, <1>7, <2>1 DEF Lifecycle!OverlayShape, Lifecycle!Commits
<1>8. Lifecycle!ModelFollows
  BY <1>6, <1>7 DEF Lifecycle!ModelFollows
<1> QED BY <1>0, <1>3, <1>5, <1>8

----------------------------------------------------------------------------
Terminal == INSTANCE TerminalGen WITH Phases <- Phases, Success <- Success, Failures <- Failures,
  Serves <- Serves, MaxRetries <- TerminalRetries, MaxEdits <- TerminalEdits, machine <-
  trm_machine, finals <- trm_finals, edits <- trm_edits, pc <- trm_pc, at <- trm_at, st <- trm_st,
  rc <- trm_rc, flag <- trm_flag, drifted <- trm_drifted

(* The terminal lifecycle.  Every route that reconciliation lets through is  *)
(* a step of the emitted model, so the two never part.                       *)

ASSUME TerminalAssumption == Terminal!WellDeclared

LEMMA TerminalLanding ==
  ASSUME Terminal!WellDeclared
  PROVE  /\ Phases[1] \in Terminal!Steps
         /\ \A p \in Terminal!Steps : Terminal!Forward(p) \in Terminal!Steps \cup {Success}
             /\ Terminal!FailTo(p) \subseteq Terminal!Retry \cup Failures
<1>1. Len(Phases) \in Nat /\ Len(Phases) >= 1
  BY DEF Terminal!WellDeclared
<1>2. Phases[1] \in Terminal!Steps
  BY <1>1 DEF Terminal!Steps
<1>3. ASSUME NEW p \in Terminal!Steps PROVE Terminal!Forward(p) \in Terminal!Steps \cup {Success}
  <2> DEFINE i == CHOOSE i \in 1..Len(Phases) : Phases[i] = p
  <2>1. i \in 1..Len(Phases)
    BY DEF Terminal!Steps
  <2>2. Terminal!Forward(p) = IF i < Len(Phases) THEN Phases[i + 1] ELSE Success
    BY DEF Terminal!Forward
  <2> HIDE DEF i
  <2>3. CASE i < Len(Phases)
    <3>1. i + 1 \in 1..Len(Phases)
      BY <1>1, <2>1, <2>3
    <3> QED BY <2>2, <2>3, <3>1 DEF Terminal!Steps
  <2>4. CASE ~(i < Len(Phases))
    BY <2>2, <2>4
  <2> QED BY <2>3, <2>4
<1>4. \A p \in Terminal!Steps : Terminal!FailTo(p) \subseteq Terminal!Retry \cup Failures
  BY DEF Terminal!FailTo, Terminal!RetryOf
<1> QED BY <1>2, <1>3, <1>4

LEMMA TerminalInit ==
  ASSUME Terminal!WellDeclared, Terminal!Init
  PROVE  Terminal!Inv
<1>1. Phases[1] \in Terminal!Steps /\ Phases[1] # Success
  BY TerminalLanding DEF Terminal!WellDeclared, Terminal!Terminal
<1>2. trm_pc = "edit" /\ trm_at = Phases[1] /\ trm_st = Phases[1] /\ trm_rc = [r \in Terminal!Retry |-> 0]
          /\ trm_flag = FALSE /\ trm_drifted = FALSE
  BY DEF Terminal!Init
<1> QED BY <1>1, <1>2 DEF Terminal!Inv, Terminal!Together, Terminal!Counted, Terminal!Completed

LEMMA TerminalReconciles ==
  ASSUME UNCHANGED <<trm_machine, trm_finals>>
  PROVE  Terminal!Reconciled' = Terminal!Reconciled
BY DEF Terminal!Reconciled, Terminal!PhaseRoutes, Terminal!RetryRoutes, Terminal!RequireModeled,
     Terminal!FailTargets, Terminal!Targets, Terminal!Carried

\* An accepted machine takes no step that its model cannot follow.
LEMMA TerminalFollow ==
  ASSUME Terminal!WellDeclared, Terminal!Inv, trm_pc = "run", NEW r \in trm_machine, Terminal!MachineStep(r)
  PROVE  /\ Terminal!ModelStep(r.to) /\ trm_st \notin Terminal!Terminal
         /\ \/ trm_st \in Terminal!Steps
             /\ r.to \in Terminal!Steps \cup {Success} \cup Terminal!Retry \cup Failures
            \/ trm_st \in Terminal!Retry /\ r.to \in Terminal!Steps \cup Failures
<1>1. Terminal!Together /\ Terminal!Counted /\ Terminal!Reconciled
  BY DEF Terminal!Inv
<1>2. r.from = trm_st /\ Terminal!Carried(r) /\ Terminal!PhaseRoutes /\ Terminal!RetryRoutes
  BY <1>1 DEF Terminal!Together, Terminal!MachineStep, Terminal!Reconciled, Terminal!RequireModeled
<1>3. Terminal!Steps \cap Terminal!Retry = {} /\ Terminal!Steps \cap Terminal!Terminal = {}
          /\ Terminal!Retry \cap Terminal!Terminal = {}
              /\ \A q \in Terminal!Retry : Serves[q] \in Terminal!Steps
  BY DEF Terminal!WellDeclared
<1>4. \A k : r.key = k => r.to \in Terminal!Targets(trm_st, k)
  BY <1>2 DEF Terminal!Targets
<1>5. trm_st \notin Terminal!Terminal
  BY <1>2, <1>3 DEF Terminal!Carried
<1>6. CASE trm_st \in Terminal!Steps
  <2>1. r.to = Terminal!Forward(trm_st) \/ (r.to \in Terminal!FailTo(trm_st)
            /\ r.to \in Terminal!FailTargets(trm_st))
    BY <1>2, <1>3, <1>4, <1>6 DEF Terminal!Carried, Terminal!FailTargets
  <2>2. r.to \in {Terminal!Forward(trm_st)} \cup Terminal!FailRoutes(trm_st)
    BY <2>1 DEF Terminal!FailRoutes, Terminal!FailTo
  <2>3. r.to \in Terminal!Steps \cup {Success} \cup Terminal!Retry \cup Failures
    BY <1>6, <2>1, TerminalLanding
  <2> QED BY <1>5, <1>6, <2>2, <2>3 DEF Terminal!ModelStep
<1>7. CASE trm_st \in Terminal!Retry
  <2>1. r.key = "always" \/ (r.key = "after" /\ r.to = Serves[trm_st])
    BY <1>2, <1>3, <1>7 DEF Terminal!Carried
  <2>2. trm_rc[trm_st] \in Nat /\ TerminalRetries \in Nat
    BY <1>1, <1>7 DEF Terminal!Counted, Terminal!WellDeclared
  <2>3. CASE r.key = "always"
    <3>1. trm_rc[trm_st] >= TerminalRetries
      BY <1>1, <1>7, <2>3 DEF Terminal!MachineStep, Terminal!Together
    <3>2. r.to \in Terminal!Targets(trm_st, "always") /\ r.to \in Failures
      BY <1>2, <1>4, <1>7, <2>3 DEF Terminal!RetryRoutes
    <3> QED BY <1>5, <1>7, <3>1, <3>2 DEF Terminal!ModelStep
  <2>4. CASE r.key = "after" /\ r.to = Serves[trm_st]
    <3>1. trm_rc[trm_st] < TerminalRetries
      BY <1>1, <1>7, <2>4 DEF Terminal!MachineStep, Terminal!Together
    <3> QED BY <1>3, <1>5, <1>7, <2>4, <3>1 DEF Terminal!ModelStep
  <2> QED BY <2>1, <2>3, <2>4
<1> QED BY <1>1, <1>5, <1>6, <1>7 DEF Terminal!Together

LEMMA TerminalStep ==
  ASSUME Terminal!WellDeclared, Terminal!Inv, [Terminal!Next]_(Terminal!vars)
  PROVE  Terminal!Inv'
<1>1. CASE (\E r \in Terminal!Routes : Terminal!Toggle(r))
               \/ (\E s \in Terminal!States : Terminal!ToggleFinal(s))
  <2>1. trm_pc = "edit" /\ UNCHANGED <<trm_pc, trm_at, trm_st, trm_rc, trm_flag, trm_drifted>>
    BY <1>1 DEF Terminal!Toggle, Terminal!ToggleFinal, Terminal!Edit
  <2> QED BY <2>1 DEF Terminal!Inv, Terminal!Together, Terminal!Counted, Terminal!Completed
<1>2. CASE Terminal!Generate
  <2>1. Terminal!Reconciled
            /\ UNCHANGED <<trm_machine, trm_finals, trm_at, trm_st, trm_rc, trm_flag, trm_drifted>>
    BY <1>2 DEF Terminal!Generate
  <2>2. Terminal!Reconciled'
    BY <2>1, TerminalReconciles
  <2> QED BY <2>1, <2>2 DEF Terminal!Inv, Terminal!Together, Terminal!Counted, Terminal!Completed
<1>3. ASSUME NEW r \in trm_machine, Terminal!Step(r) PROVE Terminal!Inv'
  <2>1. trm_pc = "run" /\ Terminal!MachineStep(r) /\ trm_at' = r.to
            /\ UNCHANGED <<trm_machine, trm_finals, trm_pc>>
    BY <1>3 DEF Terminal!Step
  <2>2. /\ Terminal!ModelStep(r.to) /\ trm_st \notin Terminal!Terminal
        /\ \/ trm_st \in Terminal!Steps
            /\ r.to \in Terminal!Steps \cup {Success} \cup Terminal!Retry \cup Failures
           \/ trm_st \in Terminal!Retry /\ r.to \in Terminal!Steps \cup Failures
    BY <2>1, TerminalFollow
  <2>3. trm_st' = r.to /\ trm_rc' = Terminal!Attempts /\ trm_flag' = Terminal!Completes(r.to)
            /\ trm_drifted' = FALSE
    BY <1>3, <2>2 DEF Terminal!Step
  <2>4. Terminal!Reconciled'
    BY <2>1, TerminalReconciles DEF Terminal!Inv
  <2>5. Terminal!Together'
    BY <2>1, <2>2, <2>3 DEF Terminal!Together, Terminal!Terminal
  <2>6. Terminal!Counted'
    <3>1. trm_rc \in [Terminal!Retry -> Nat]
      BY DEF Terminal!Inv, Terminal!Counted
    <3>2. CASE trm_st \in Terminal!Retry /\ trm_rc[trm_st] < TerminalRetries
      <4>1. trm_rc' = [trm_rc EXCEPT ![trm_st] = trm_rc[trm_st] + 1] /\ trm_rc[trm_st] + 1 \in Nat
        BY <2>3, <3>1, <3>2 DEF Terminal!Attempts
      <4> QED BY <3>1, <4>1 DEF Terminal!Counted
    <3>3. CASE ~(trm_st \in Terminal!Retry /\ trm_rc[trm_st] < TerminalRetries)
      BY <2>3, <3>1, <3>3 DEF Terminal!Attempts, Terminal!Counted
    <3> QED BY <3>2, <3>3
  <2>7. Terminal!Completed'
    <3>1. trm_flag = (trm_st = Success) /\ trm_st # Success
      BY <2>2 DEF Terminal!Inv, Terminal!Completed, Terminal!Terminal
    <3>2. trm_flag' = (trm_st \in Terminal!Steps /\ r.to = Success)
      BY <2>3, <3>1 DEF Terminal!Completes
    <3>3. trm_st \notin Terminal!Steps => r.to # Success
      BY <2>2 DEF Terminal!WellDeclared, Terminal!Terminal
    <3> QED BY <2>3, <3>2, <3>3 DEF Terminal!Completed
  <2> QED BY <2>4, <2>5, <2>6, <2>7 DEF Terminal!Inv
<1>4. CASE UNCHANGED Terminal!vars
  <2>1. UNCHANGED <<trm_machine, trm_finals, trm_pc, trm_at, trm_st, trm_rc, trm_flag, trm_drifted>>
    BY <1>4 DEF Terminal!vars
  <2>2. Terminal!Reconciled' = Terminal!Reconciled
    BY <2>1, TerminalReconciles
  <2> QED BY <2>1, <2>2 DEF Terminal!Inv, Terminal!Together, Terminal!Counted, Terminal!Completed
<1> QED BY <1>1, <1>2, <1>3, <1>4 DEF Terminal!Next

\* What the invariant says of the machine and its model.
LEMMA TerminalFollows ==
  ASSUME Terminal!WellDeclared, Terminal!Inv
  PROVE  Terminal!Simulates /\ Terminal!Complete /\ Terminal!NoDeadEnd
<1>1. Terminal!Together /\ Terminal!Counted /\ Terminal!Completed /\ (trm_pc = "run" => Terminal!Reconciled)
  BY DEF Terminal!Inv
<1>2. Terminal!Steps \cap Terminal!Retry = {} /\ Terminal!Steps \cap Terminal!Terminal = {}
          /\ Terminal!Retry \cap Terminal!Terminal = {} /\ TerminalRetries \in Nat
  BY DEF Terminal!WellDeclared
<1>3. Terminal!Simulates
  BY <1>1 DEF Terminal!Together, Terminal!Simulates
<1>4. ASSUME trm_pc = "run", trm_at \in Terminal!Terminal, NEW r \in trm_machine PROVE r.from # trm_at
  <2>1. Terminal!Carried(r)
    BY <1>1, <1>4 DEF Terminal!Reconciled, Terminal!RequireModeled
  <2> QED BY <1>2, <1>4, <2>1 DEF Terminal!Carried
<1>5. Terminal!Complete
  BY <1>1, <1>4 DEF Terminal!Complete, Terminal!Completed
<1>6. ASSUME trm_pc = "run", trm_at \notin Terminal!Terminal \cup (Terminal!Retry \cap trm_finals)
      PROVE  /\ \E r \in trm_machine : Terminal!MachineStep(r)
             /\ trm_at \in Terminal!Steps => \E r \in trm_machine : r.from = trm_at
                 /\ r.key \in {"onError", "after"}
  <2>1. Terminal!PhaseRoutes /\ Terminal!RetryRoutes
    BY <1>1, <1>6 DEF Terminal!Reconciled
  <2>2. CASE trm_at \in Terminal!Steps
    <3>1. trm_at \notin trm_finals /\ Terminal!Targets(trm_at, "onDone") = {Terminal!Forward(trm_at)}
              /\ Terminal!FailTargets(trm_at) # {}
      BY <2>1, <2>2 DEF Terminal!PhaseRoutes
    <3>2. PICK r \in trm_machine : r.from = trm_at /\ r.key = "onDone"
      BY <3>1 DEF Terminal!Targets
    <3>3. Terminal!MachineStep(r)
      BY <1>2, <2>2, <3>1, <3>2 DEF Terminal!MachineStep
    <3>4. \E q \in trm_machine : q.from = trm_at /\ q.key \in {"onError", "after"}
      BY <3>1 DEF Terminal!FailTargets, Terminal!Targets
    <3> QED BY <3>3, <3>4
  <2>3. CASE trm_at \in Terminal!Retry
    <3>1. trm_at \notin trm_finals /\ trm_at \notin Terminal!Steps
      BY <1>2, <1>6, <2>3
    <3>2. Terminal!Targets(trm_at, "always") # {} /\ Terminal!Targets(trm_at, "after") # {}
      BY <2>1, <2>3 DEF Terminal!RetryRoutes
    <3>3. trm_rc[trm_at] \in Nat
      BY <1>1, <2>3 DEF Terminal!Counted
    <3>4. CASE trm_rc[trm_at] < TerminalRetries
      <4>1. PICK r \in trm_machine : r.from = trm_at /\ r.key = "after"
        BY <3>2 DEF Terminal!Targets
      <4>2. Terminal!MachineStep(r)
        BY <3>1, <3>4, <4>1 DEF Terminal!MachineStep
      <4> QED BY <3>1, <4>2
    <3>5. CASE trm_rc[trm_at] >= TerminalRetries
      <4>1. PICK r \in trm_machine : r.from = trm_at /\ r.key = "always"
        BY <3>2 DEF Terminal!Targets
      <4>2. Terminal!MachineStep(r)
        BY <3>1, <3>5, <4>1 DEF Terminal!MachineStep
      <4> QED BY <3>1, <4>2
    <3> QED BY <1>2, <3>3, <3>4, <3>5
  <2> QED BY <1>1, <1>6, <2>2, <2>3 DEF Terminal!Together
<1>7. Terminal!NoDeadEnd
  BY <1>6 DEF Terminal!NoDeadEnd
<1> QED BY <1>3, <1>5, <1>7

----------------------------------------------------------------------------
Saga == INSTANCE SagaGen WITH Forwards <- Forwards, FlagNames <- FlagNames, Declared <- Declared,
  MaxRetries <- SagaRetries, MaxEdits <- SagaEdits, machine <- sag_machine, finals <- sag_finals,
  obl <- sag_obl, edits <- sag_edits, pc <- sag_pc, at <- sag_at, st <- sag_st, rc <- sag_rc, flags
  <- sag_flags, done <- sag_done, undone <- sag_undone, drifted <- sag_drifted

(* The saga.  The flags of the model mirror the effects, so a model that     *)
(* ends clean has undone them, as far as a flag stands for one effect.       *)

ASSUME SagaAssumption == Saga!WellDeclared

LEMMA SagaLanding ==
  ASSUME Saga!WellDeclared
  PROVE  /\ Saga!First \in Saga!Steps /\ Saga!Completing \in Saga!Steps
         /\ \A s \in Saga!Steps : Saga!Forward(s) \in (Saga!Steps \ {Saga!First}) \cup {"Completed"}
         /\ Saga!Forward(Saga!Completing) = "Completed"
<1>1. Len(Forwards) \in Nat /\ Len(Forwards) >= 1
          /\ \A i, j \in 1..Len(Forwards) : Forwards[i] = Forwards[j] => i = j
  BY DEF Saga!WellDeclared
<1>2. Saga!First \in Saga!Steps /\ Saga!Completing \in Saga!Steps
  BY <1>1 DEF Saga!First, Saga!Completing, Saga!Steps
<1>3. ASSUME NEW s \in Saga!Steps, s # Saga!Completing PROVE Saga!Forward(s) \in Saga!Steps \ {Saga!First}
  <2> DEFINE i == Saga!Index(s)
  <2>1. i \in 1..Len(Forwards) /\ Forwards[i] = s
    BY DEF Saga!Steps, Saga!Index
  <2>2. Saga!Forward(s) = Forwards[i + 1]
    BY <1>3 DEF Saga!Forward
  <2> HIDE DEF i
  <2>3. i # Len(Forwards)
    BY <1>3, <2>1 DEF Saga!Completing
  <2>4. i + 1 \in 1..Len(Forwards) /\ i + 1 # 1
    BY <1>1, <2>1, <2>3
  <2>5. Forwards[i + 1] \in Saga!Steps
    BY <2>4 DEF Saga!Steps
  <2>6. Forwards[i + 1] # Saga!First
    BY <1>1, <2>4 DEF Saga!First
  <2> QED BY <2>2, <2>5, <2>6
<1>4. Saga!Forward(Saga!Completing) = "Completed"
  BY DEF Saga!Forward
<1> QED BY <1>2, <1>3, <1>4

LEMMA SagaInit ==
  ASSUME Saga!WellDeclared, Saga!Init
  PROVE  Saga!Inv
<1>1. Saga!First \in Saga!Steps /\ Saga!First # "Failed"
  BY SagaLanding DEF Saga!WellDeclared, Saga!Final
<1>2. sag_pc = "edit" /\ sag_at = Saga!First /\ sag_st = Saga!First /\ sag_rc = 0 /\ sag_flags = {}
          /\ sag_done = {} /\ sag_undone = {} /\ sag_drifted = FALSE
  BY DEF Saga!Init
<1>3. Saga!Together
  BY <1>1, <1>2 DEF Saga!Together, Saga!States
<1>4. Saga!Mirrored
  BY <1>2 DEF Saga!Mirrored
<1>5. Saga!Ordered /\ Saga!Undone
  BY <1>1, <1>2 DEF Saga!Ordered, Saga!Undone
<1> QED BY <1>2, <1>3, <1>4, <1>5 DEF Saga!Inv

\* Whether the model is clean depends on its flags and on the declarations.
LEMMA SagaCleanStays ==
  ASSUME UNCHANGED <<sag_obl, sag_flags>>
  PROVE  Saga!AllClean' = Saga!AllClean
BY DEF Saga!AllClean, Saga!Obligations, Saga!Open

LEMMA SagaReconciles ==
  ASSUME UNCHANGED <<sag_machine, sag_finals, sag_obl>>
  PROVE  Saga!Reconciled' = Saga!Reconciled /\ Saga!Obligations' = Saga!Obligations
             /\ Saga!FlagsApart' = Saga!FlagsApart
<1>1. Saga!Obligations' = Saga!Obligations
  BY DEF Saga!Obligations
<1>2. Saga!FlagsApart' = Saga!FlagsApart
  BY DEF Saga!FlagsApart
<1>3. Saga!Reconciled' = Saga!Reconciled
  BY DEF Saga!Reconciled, Saga!ForwardRoutes, Saga!CompensationLoop, Saga!FinalStates, Saga!RequireModeled,
       Saga!UndoDeclared, Saga!Targets, Saga!Carried
<1> QED BY <1>1, <1>2, <1>3

\* An accepted machine takes no step that its model cannot follow but a late error
\* or timeout of a clean compensation, and ends clean only from its first step or
\* with everything clean.
LEMMA SagaFollow ==
  ASSUME Saga!WellDeclared, Saga!Inv, sag_pc = "run", NEW r \in sag_machine, Saga!MachineStep(r)
  PROVE  /\ r.to \in Saga!States \ {Saga!First}
         /\ ~sag_drifted => \/ Saga!ModelStep(r.to)
                            \/ sag_at = "Compensating" /\ Saga!AllClean /\ r.to = "compensateRetry"
         /\ sag_drifted => /\ sag_at \notin Saga!Steps
                           /\ r.to \in {"Compensating", "compensateRetry", "Failed", "FailedDirty"}
         /\ sag_at \in Saga!Steps /\ r.key = "onDone" => r.to = Saga!Forward(sag_at) /\ r.to # "Failed"
         /\ r.to = "Failed" => sag_at = Saga!First \/ (sag_at = "Compensating" /\ Saga!AllClean)
         /\ sag_at # "Completed"
<1>1. Saga!Together /\ Saga!Reconciled /\ SagaRetries \in Nat
  BY DEF Saga!Inv, Saga!WellDeclared
<1>2. /\ r.from = sag_at /\ Saga!Carried(r) /\ (~sag_drifted => sag_at = sag_st) /\ sag_rc \in Nat
      /\ sag_drifted => sag_at \in {"Compensating", "compensateRetry", "Failed", "FailedDirty"}
  BY <1>1 DEF Saga!Together, Saga!MachineStep, Saga!Reconciled, Saga!RequireModeled
<1>3. /\ "Compensating" \notin Saga!Steps /\ "compensateRetry" \notin Saga!Steps
      /\ "Completed" \notin Saga!Steps /\ "Failed" \notin Saga!Steps /\ "FailedDirty" \notin Saga!Steps
  BY DEF Saga!WellDeclared, Saga!Final
<1>4. Saga!First \in Saga!Steps
  BY SagaLanding
<1>5. CASE sag_at \in Saga!Steps
  <2>1. /\ r.to = Saga!Forward(sag_at) \/ r.to = Saga!FailTo(sag_at)
        /\ r.key = "onDone" => r.to = Saga!Forward(sag_at)
    BY <1>2, <1>3, <1>5 DEF Saga!Carried
  <2>2. Saga!Forward(sag_at) \in (Saga!Steps \ {Saga!First}) \cup {"Completed"}
    BY <1>5, SagaLanding
  <2>3. Saga!FailTo(sag_at) = IF sag_at = Saga!First THEN "Failed" ELSE "Compensating"
    BY DEF Saga!FailTo
  <2>4. ~sag_drifted /\ Saga!ModelStep(r.to)
    BY <1>2, <1>3, <1>5, <2>1 DEF Saga!ModelStep
  <2>5. r.to \in Saga!States \ {Saga!First}
    BY <1>3, <1>4, <2>1, <2>2, <2>3 DEF Saga!States, Saga!Final
  <2>6. r.to = "Failed" => sag_at = Saga!First
    BY <1>3, <2>1, <2>2, <2>3
  <2>7. r.key = "onDone" => r.to = Saga!Forward(sag_at) /\ r.to # "Failed"
    BY <1>3, <2>1, <2>2
  <2> QED BY <1>3, <1>5, <2>4, <2>5, <2>6, <2>7
<1>6. CASE sag_at = "Compensating"
  <2>1. sag_at \notin Saga!Steps /\ sag_at # "compensateRetry"
    BY <1>3, <1>6
  <2>2. r.key = "onDone" => Saga!AllClean
    BY <1>6 DEF Saga!MachineStep
  <2>3. (r.key = "onDone" /\ r.to = "Failed") \/ (r.key # "onDone" /\ r.to = "compensateRetry")
    BY <1>2, <1>6, <2>1 DEF Saga!Carried
  <2>4. ~sag_drifted => Saga!ModelStep(r.to) \/ (Saga!AllClean /\ r.to = "compensateRetry")
    BY <1>2, <1>6, <2>2, <2>3 DEF Saga!ModelStep
  <2>5. r.to \in Saga!States \ {Saga!First}
    BY <1>3, <1>4, <2>3 DEF Saga!States, Saga!Final
  <2> QED BY <1>6, <2>1, <2>2, <2>3, <2>4, <2>5
<1>7. CASE sag_at = "compensateRetry"
  <2>1. sag_at \notin Saga!Steps /\ sag_at # "Compensating"
    BY <1>3, <1>7
  <2>2. r.key = "always" <=> sag_rc >= SagaRetries
    BY <1>7 DEF Saga!MachineStep
  <2>3. (r.key = "always" /\ r.to = "FailedDirty") \/ (r.key # "always" /\ r.to = "Compensating")
    BY <1>2, <1>7, <2>1 DEF Saga!Carried
  <2>4. ~sag_drifted => Saga!ModelStep(r.to)
    BY <1>1, <1>2, <1>7, <2>2, <2>3 DEF Saga!ModelStep
  <2>5. r.to \in Saga!States \ {Saga!First}
    BY <1>3, <1>4, <2>3 DEF Saga!States, Saga!Final
  <2> QED BY <1>7, <2>1, <2>3, <2>4, <2>5
<1> QED BY <1>2, <1>5, <1>6, <1>7 DEF Saga!Carried

\* With flags that stand for one effect each, a clean model has undone what it did.
LEMMA SagaClean ==
  ASSUME Saga!WellDeclared, Saga!Mirrored, Saga!UndoDeclared, Saga!FlagsApart, Saga!AllClean,
             Saga!Completing \notin sag_done
  PROVE  sag_done \subseteq sag_undone
<1> SUFFICES ASSUME NEW s \in sag_done PROVE s \in sag_undone
  OBVIOUS
<1>1. s \in Saga!Steps /\ s # Saga!Completing /\ sag_undone \subseteq Saga!Steps
  BY DEF Saga!Mirrored, Saga!Obligations
<1>2. sag_obl[s].undo # Saga!NoFlag /\ s \in Saga!Obligations
  BY <1>1 DEF Saga!UndoDeclared, Saga!Obligations
<1>3. sag_obl[s].sets \in sag_flags
  BY DEF Saga!Mirrored
<1>4. sag_obl[s].undo \in sag_flags
  BY <1>2, <1>3 DEF Saga!AllClean, Saga!Open
<1>5. \A t \in sag_done : t \in Saga!Steps /\ sag_obl[t].sets # sag_obl[s].undo
  BY <1>1 DEF Saga!FlagsApart, Saga!Mirrored
<1>6. PICK t \in sag_undone : sag_obl[t].undo = sag_obl[s].undo
  BY <1>4, <1>5 DEF Saga!Mirrored
<1>7. t = s
  BY <1>1, <1>2, <1>6 DEF Saga!FlagsApart
<1> QED BY <1>6, <1>7

LEMMA SagaStep ==
  ASSUME Saga!WellDeclared, Saga!Inv, [Saga!Next]_(Saga!vars)
  PROVE  Saga!Inv'
<1>0. Saga!Together /\ Saga!Mirrored /\ Saga!Ordered /\ Saga!Undone
  BY DEF Saga!Inv
<1>1. ASSUME sag_pc = "edit", UNCHANGED <<sag_pc, sag_at, sag_st, sag_rc, sag_flags, sag_done, sag_undone,
                 sag_drifted>> PROVE Saga!Inv'
  <2>1. sag_done = {} /\ sag_undone = {} /\ sag_flags = {}
    BY <1>0, <1>1 DEF Saga!Together, Saga!Mirrored
  <2>2. Saga!Together'
    BY <1>0, <1>1, <2>1 DEF Saga!Together
  <2>3. Saga!Mirrored'
    BY <1>1, <2>1 DEF Saga!Mirrored
  <2>4. Saga!Ordered' /\ Saga!Undone'
    BY <1>1, <2>1 DEF Saga!Ordered, Saga!Undone
  <2> QED BY <1>1, <2>2, <2>3, <2>4 DEF Saga!Inv
<1>2. CASE (\E r \in Saga!Routes : Saga!Toggle(r)) \/ (\E s \in Saga!States : Saga!ToggleFinal(s))
           \/ (\E s \in Saga!Steps, a \in FlagNames, b \in FlagNames \cup {Saga!NoFlag} :
                   Saga!Annotate(s, [sets |-> a, undo |-> b]))
  BY <1>1, <1>2 DEF Saga!Toggle, Saga!ToggleFinal, Saga!Annotate, Saga!Edit
<1>3. CASE Saga!Generate
  <2>1. Saga!Reconciled
            /\ UNCHANGED <<sag_machine, sag_finals, sag_obl, sag_at, sag_st, sag_rc, sag_flags, sag_done,
                sag_undone, sag_drifted>> /\ sag_pc' = "run"
    BY <1>3 DEF Saga!Generate
  <2>2. Saga!Reconciled' /\ Saga!Obligations' = Saga!Obligations /\ Saga!FlagsApart' = Saga!FlagsApart
            /\ Saga!AllClean' = Saga!AllClean
    BY <2>1, SagaReconciles, SagaCleanStays
  <2>3. Saga!Together' /\ Saga!Ordered' /\ Saga!Undone'
    BY <1>0, <2>1, <2>2 DEF Saga!Together, Saga!Ordered, Saga!Undone
  <2>4. Saga!Mirrored'
    BY <1>0, <2>1, <2>2 DEF Saga!Mirrored
  <2> QED BY <2>2, <2>3, <2>4 DEF Saga!Inv
<1>4. ASSUME NEW r \in sag_machine, Saga!Step(r) PROVE Saga!Inv'
  <2>1. sag_pc = "run" /\ Saga!MachineStep(r) /\ sag_at' = r.to
            /\ UNCHANGED <<sag_machine, sag_finals, sag_obl, sag_pc, sag_undone>>
    BY <1>4 DEF Saga!Step
  <2>2. /\ r.to \in Saga!States \ {Saga!First}
        /\ ~sag_drifted => \/ Saga!ModelStep(r.to)
                           \/ sag_at = "Compensating" /\ Saga!AllClean /\ r.to = "compensateRetry"
        /\ sag_drifted => /\ sag_at \notin Saga!Steps
                          /\ r.to \in {"Compensating", "compensateRetry", "Failed", "FailedDirty"}
        /\ sag_at \in Saga!Steps /\ r.key = "onDone" => r.to = Saga!Forward(sag_at) /\ r.to # "Failed"
        /\ r.to = "Failed" => sag_at = Saga!First \/ (sag_at = "Compensating" /\ Saga!AllClean)
        /\ sag_at # "Completed"
    BY <2>1, SagaFollow
  <2>9. "Compensating" \notin Saga!Steps
    BY DEF Saga!WellDeclared
  <2>3. /\ sag_rc' = Saga!Attempts(r.to)
        /\ \/ ~sag_drifted /\ sag_st' = r.to /\ sag_drifted' = FALSE
           \/ /\ sag_drifted \/ (sag_at = "Compensating" /\ Saga!AllClean /\ r.to = "compensateRetry")
              /\ sag_drifted' = TRUE /\ UNCHANGED <<sag_st, sag_flags>>
        /\ sag_flags' = sag_flags \cup (IF sag_at \in Saga!Steps
            /\ r.key = "onDone" THEN {sag_obl[sag_at].sets} ELSE {})
        /\ sag_done' = sag_done \cup (IF sag_at \in Saga!Steps /\ r.key = "onDone" THEN {sag_at} ELSE {})
    BY <1>4, <2>2, <2>9 DEF Saga!Step
  <2>4. Saga!Reconciled' /\ Saga!Obligations' = Saga!Obligations /\ Saga!FlagsApart' = Saga!FlagsApart
            /\ Saga!UndoDeclared
    BY <2>1, SagaReconciles DEF Saga!Inv, Saga!Reconciled
  <2>5. Saga!Together'
    <3>1. sag_rc' \in Nat /\ sag_at' \in Saga!States /\ sag_pc' = "run"
      BY <1>0, <2>1, <2>2, <2>3 DEF Saga!Together, Saga!Attempts
    <3>2. CASE sag_drifted' = FALSE
      BY <2>1, <2>3, <3>1, <3>2 DEF Saga!Together
    <3>3. CASE sag_drifted' = TRUE
      <4>1. /\ sag_drifted \/ (sag_at = "Compensating" /\ Saga!AllClean /\ r.to = "compensateRetry")
            /\ UNCHANGED <<sag_st, sag_flags>>
        BY <2>3, <3>3
      <4>2. Saga!AllClean' = Saga!AllClean
        BY <2>1, <4>1, SagaCleanStays
      <4>3. sag_st = "Compensating" /\ Saga!AllClean
        BY <1>0, <4>1 DEF Saga!Together
      <4> QED BY <2>1, <2>2, <3>1, <3>3, <4>1, <4>2, <4>3 DEF Saga!Together
    <3> QED BY <2>3, <3>2, <3>3
  <2>6. Saga!Mirrored'
    <3>1. CASE sag_at \in Saga!Steps /\ r.key = "onDone"
      BY <1>0, <2>1, <2>3, <2>4, <3>1 DEF Saga!Mirrored
    <3>2. CASE ~(sag_at \in Saga!Steps /\ r.key = "onDone")
      BY <1>0, <2>1, <2>3, <2>4, <3>2 DEF Saga!Mirrored
    <3> QED BY <3>1, <3>2
  <2>7. Saga!Ordered'
    <3>1. Saga!Completing \notin sag_done
      BY <1>0, <2>2 DEF Saga!Ordered
    <3>2. Saga!Completing \in sag_done' => sag_at = Saga!Completing /\ r.to = Saga!Forward(sag_at)
      BY <2>2, <2>3, <3>1
    <3>3. Saga!Completing \in sag_done' => sag_at' = "Completed"
      BY <2>1, <3>2, SagaLanding
    <3> QED BY <2>1, <2>2, <3>3 DEF Saga!Ordered
  <2>8. Saga!Undone'
    <3> SUFFICES ASSUME Saga!FlagsApart, r.to = "Failed" PROVE sag_done' \subseteq sag_undone
      BY <2>1, <2>4 DEF Saga!Undone
    <3>1. sag_done' = sag_done /\ Saga!Completing \notin sag_done
      BY <1>0, <2>2, <2>3 DEF Saga!Ordered
    <3>2. CASE sag_at = Saga!First
      BY <1>0, <3>1, <3>2 DEF Saga!Ordered
    <3>3. CASE Saga!AllClean
      BY <1>0, <2>4, <3>1, <3>3, SagaClean
    <3> QED BY <2>2, <3>2, <3>3
  <2> QED BY <2>4, <2>5, <2>6, <2>7, <2>8 DEF Saga!Inv
<1>5. ASSUME NEW s \in Saga!Steps, Saga!Undo(s) PROVE Saga!Inv'
  <2>1. /\ sag_at = "Compensating" /\ s \in Saga!Obligations
            /\ sag_flags' = sag_flags \cup {sag_obl[s].undo} /\ sag_undone' = sag_undone \cup {s}
        /\ sag_pc = "run" /\ ~sag_drifted
            /\ UNCHANGED <<sag_machine, sag_finals, sag_obl, sag_pc, sag_at, sag_st, sag_rc, sag_done,
                sag_drifted>>
    BY <1>5 DEF Saga!Undo
  <2>2. Saga!Reconciled' /\ Saga!Obligations' = Saga!Obligations
    BY <2>1, SagaReconciles DEF Saga!Inv
  <2>3. Saga!Together' /\ Saga!Ordered' /\ Saga!Undone'
    BY <1>0, <2>1 DEF Saga!Together, Saga!Ordered, Saga!Undone
  <2>4. Saga!Mirrored'
    BY <1>0, <2>1, <2>2 DEF Saga!Mirrored
  <2> QED BY <2>2, <2>3, <2>4 DEF Saga!Inv
<1>6. CASE UNCHANGED Saga!vars
  <2>1. UNCHANGED <<sag_machine, sag_finals, sag_obl, sag_pc, sag_at, sag_st, sag_rc, sag_flags, sag_done,
            sag_undone, sag_drifted>>
    BY <1>6 DEF Saga!vars
  <2>2. Saga!Reconciled' = Saga!Reconciled /\ Saga!Obligations' = Saga!Obligations
            /\ Saga!FlagsApart' = Saga!FlagsApart /\ Saga!AllClean' = Saga!AllClean
    BY <2>1, SagaReconciles, SagaCleanStays
  <2>3. Saga!Together' /\ Saga!Ordered' /\ Saga!Undone'
    BY <1>0, <2>1, <2>2 DEF Saga!Together, Saga!Ordered, Saga!Undone
  <2>4. Saga!Mirrored'
    BY <1>0, <2>1, <2>2 DEF Saga!Mirrored
  <2> QED BY <2>1, <2>2, <2>3, <2>4 DEF Saga!Inv
<1> QED BY <1>2, <1>3, <1>4, <1>5, <1>6 DEF Saga!Next

\* What the invariant says of the machine and its model.
LEMMA SagaFollows ==
  ASSUME Saga!Inv
  PROVE  Saga!Simulates /\ Saga!CleanMeansUndone
BY DEF Saga!Inv, Saga!Together, Saga!Undone, Saga!Simulates, Saga!CleanMeansUndone

----------------------------------------------------------------------------
Refinements == INSTANCE GeneratedOutput WITH Machines <- {"Deal", "Pay"}, Semantics <- {"s1", "s2"},
  Dir <- [s \in {"s1", "s2"} |-> IF s = "s1" THEN "design" ELSE "outside"], Compositions <- {},
  Hands <- {<<"Deal", "Contract.tla">>, <<"Deal", "Data.tla">>}, MaxEdits <- 3, machines <-
  gen_machines, sems <- gen_sems, comps <- gen_comps, files <- gen_files, release <- gen_release,
  edits <- gen_edits, last <- gen_last
Pairs == INSTANCE GeneratedOutput WITH Machines <- {"Deal", "Pay"}, Semantics <- {}, Dir <- [s \in
  {} |-> "design"], Compositions <- {"c1", "c2"}, Hands <- {<<"Deal", ".tla">>, <<"Deal", ".cfg">>},
  MaxEdits <- 4, machines <- gen_machines, sems <- gen_sems, comps <- gen_comps, files <- gen_files,
  release <- gen_release, edits <- gen_edits, last <- gen_last

Components == {"lifecycle", "terminal", "saga", "refinements", "pairs"}
ASSUME ActiveAssumption == Active \subseteq Components

Init == /\ which \in Active
        /\ (IF which = "lifecycle" THEN Lifecycle!Init ELSE lifIdle)
        /\ (IF which = "terminal" THEN Terminal!Init ELSE trmIdle)
        /\ (IF which = "saga" THEN Saga!Init ELSE sagIdle)
        /\ (IF which = "refinements" THEN Refinements!Init ELSE IF which = "pairs" THEN Pairs!Init ELSE genIdle)
Next ==
  \/ which = "lifecycle" /\ Lifecycle!Next /\ UNCHANGED lifRest
  \/ which = "terminal" /\ Terminal!Next /\ UNCHANGED trmRest
  \/ which = "saga" /\ Saga!Next /\ UNCHANGED sagRest
  \/ which = "refinements" /\ Refinements!Next /\ UNCHANGED genRest
  \/ which = "pairs" /\ Pairs!Next /\ UNCHANGED genRest
Spec == Init /\ [][Next]_vars
\* The fairness that the emitted modules state.
FairSpec ==
  /\ Spec
  /\ WF_vars(\/ which = "lifecycle" /\ Lifecycle!Overlay_Next /\ UNCHANGED lifRest
             \/ which = "terminal" /\ (\E r \in trm_machine : Terminal!Step(r)) /\ UNCHANGED trmRest
             \/ which = "saga" /\ Saga!Progress /\ UNCHANGED sagRest)

----------------------------------------------------------------------------
(* Properties: what the components promise, each in its own terms.          *)

\* A machine that reconciliation accepts is the one the emitted model is about.
\* Lifecycle: saves are atomic, the close date is set, no route of the machine is
\* missing from the model, every rollback and every commit of the model is a
\* route of the machine; a save that reopens to the first stage is exempt, as its
\* commit is not asked for (refine.go:405).  Terminal: the model follows the
\* machine, only success completes, and no phase is a dead end; a retry state
\* that the machine calls final is exempt (refine.go:902).  Saga: the model
\* follows the machine up to an error or a timeout of a compensation that has
\* undone everything, which is accepted (refine.go:1269-1273) and not modelled
\* (1467); a clean end has undone every effect if each flag stands for one effect,
\* which nothing checks (1283).
EmittedFaithful ==
  /\ which = "lifecycle" => Lifecycle!Atomic /\ Lifecycle!CloseDate /\ Lifecycle!NothingDropped /\ Lifecycle!ModelFollows
  /\ which = "terminal" => Terminal!Simulates /\ Terminal!Complete /\ Terminal!NoDeadEnd
  /\ which = "saga" => Saga!Simulates /\ Saga!CleanMeansUndone

\* After a run that succeeded no module of its generator names a source that is
\* gone, and what is left of the run's own sources is what they give now.  Outputs
\* of other sources may be old: only their own run renews them.
OutputsConverge ==
  /\ which = "refinements" => Refinements!Converged
  /\ which = "pairs" => Pairs!Converged

\* What one step never does.  A run never touches what another generator wrote or
\* replaces what a person wrote; it may remove a hand-written file that has the
\* name of a member of a family it owns (refine.go:2130-2137).  It never touches
\* the outputs of other sources that exist, where it looks for these sources: a
\* live family of semantics in another directory is removed (2120-2122).  It never
\* refuses what it accepted before, if nothing was written by hand and the
\* semantics name the machine they are for (962).  An emitted aggregate never
\* moves back, except when it is reopened or faults.
StepKept ==
  /\ which = "lifecycle" => Lifecycle!StageForward
  /\ which = "refinements" => Refinements!ForeignKept /\ Refinements!HandNotReplaced /\ Refinements!LiveKept /\ Refinements!Repeatable
  /\ which = "pairs" => Pairs!ForeignKept /\ Pairs!HandNotReplaced /\ Pairs!LiveKept /\ Pairs!Repeatable

\* No step breaks these promises.
StepsKeepPromises == [][StepKept]_vars

\* What an emitted model starts it finishes: a save comes to rest, a terminal
\* lifecycle and a saga end.
EmittedEnd ==
  /\ (which = "lifecycle" /\ Lifecycle!Saving) ~> (which = "lifecycle" /\ ~Lifecycle!Saving)
  /\ (which = "terminal" /\ Terminal!Running) ~> (which = "terminal" /\ Terminal!Stopped)
  /\ (which = "saga" /\ Saga!Running) ~> (which = "saga" /\ Saga!Ended)

----------------------------------------------------------------------------
(* Proofs, for every value of the constants.  What moves in a behaviour of   *)
(* the suite is one component, so the invariants of the components, each     *)
(* while it moves, are an invariant of the suite.                            *)

LifecycleInv == which = "lifecycle" => Lifecycle!Inv
TerminalInv == which = "terminal" => Terminal!Inv
SagaInv == which = "saga" => Saga!Inv
RefinementsInv == which = "refinements" => Refinements!Inv
PairsInv == which = "pairs" => Pairs!Inv

\* A step of the suite is a step of the component that moves.
LEMMA OneMoves ==
  ASSUME Next
  PROVE  /\ which' = which
         /\ which = "lifecycle" => Lifecycle!Next
         /\ which = "terminal" => Terminal!Next
         /\ which = "saga" => Saga!Next
         /\ which = "refinements" => Refinements!Next
         /\ which = "pairs" => Pairs!Next
BY DEF Next, lifRest, trmRest, sagRest, genRest

\* When nothing moves, no component does.
LEMMA NoneMoves ==
  ASSUME UNCHANGED vars
  PROVE  /\ which' = which /\ UNCHANGED Lifecycle!vars /\ UNCHANGED Terminal!vars /\ UNCHANGED Saga!vars
         /\ UNCHANGED Refinements!vars /\ UNCHANGED Pairs!vars
BY DEF vars, lif, trm, sag, gen, Lifecycle!vars, Lifecycle!data, Terminal!vars, Saga!vars,
       Refinements!vars, Pairs!vars

\* A machine that reconciliation accepts is the one that the emitted model is
\* about (ReconcileLifecycle, ReconcileTerminal, ReconcileSaga), with the
\* exceptions that EmittedFaithful names, whatever stages, phases, retry states,
\* steps and flags are declared and however often the machine was edited.
THEOREM EmittedIsFaithful == Spec => []EmittedFaithful
<1> DEFINE I == LifecycleInv /\ TerminalInv /\ SagaInv
<1>1. Init => I
  <2>1. Init => LifecycleInv
    BY LifecycleAssumption, LifecycleInit DEF Init, LifecycleInv
  <2>2. Init => TerminalInv
    BY TerminalAssumption, TerminalInit DEF Init, TerminalInv
  <2>3. Init => SagaInv
    BY SagaAssumption, SagaInit DEF Init, SagaInv
  <2> QED BY <2>1, <2>2, <2>3
<1>2. I /\ [Next]_vars => I'
  <2> SUFFICES ASSUME I, [Next]_vars PROVE I'
    OBVIOUS
  <2>1. LifecycleInv'
    BY LifecycleAssumption, OneMoves, NoneMoves, LifecycleStep DEF LifecycleInv
  <2>2. TerminalInv'
    BY TerminalAssumption, OneMoves, NoneMoves, TerminalStep DEF TerminalInv
  <2>3. SagaInv'
    BY SagaAssumption, OneMoves, NoneMoves, SagaStep DEF SagaInv
  <2> QED BY <2>1, <2>2, <2>3
<1>3. I => EmittedFaithful
  BY LifecycleAssumption, TerminalAssumption, LifecycleFollows, TerminalFollows, SagaFollows
     DEF LifecycleInv, TerminalInv, SagaInv, EmittedFaithful
<1> QED BY <1>1, <1>2, <1>3, PTL DEF Spec

\* A run that succeeded leaves no module of its generator that names a source that
\* is gone, and of its own sources what they give now, in every behaviour of the
\* suite (internal/tla, compose, refine).
THEOREM OutputsAreCurrent == Spec => []OutputsConverge
<1> DEFINE I == RefinementsInv /\ PairsInv
<1>1. Init => I
  <2>1. Init => RefinementsInv
    BY Refinements!InitInv DEF Init, RefinementsInv
  <2>2. Init => PairsInv
    BY Pairs!InitInv DEF Init, PairsInv
  <2> QED BY <2>1, <2>2
<1>2. I /\ [Next]_vars => I'
  <2> SUFFICES ASSUME I, [Next]_vars PROVE I'
    OBVIOUS
  <2>1. RefinementsInv'
    BY OneMoves, NoneMoves, Refinements!StepInv, Refinements!Stutter DEF RefinementsInv
  <2>2. PairsInv'
    BY OneMoves, NoneMoves, Pairs!StepInv, Pairs!Stutter DEF PairsInv
  <2> QED BY <2>1, <2>2
<1>3. I => OutputsConverge
  BY Refinements!LeftConverged, Pairs!LeftConverged
     DEF RefinementsInv, PairsInv, Refinements!Inv, Pairs!Inv, OutputsConverge
<1> QED BY <1>1, <1>2, <1>3, PTL DEF Spec

\* An emitted aggregate moves forward, is reopened or faults, and a run keeps what
\* StepKept says it keeps, in every behaviour of the suite.
THEOREM StepsKept == Spec => StepsKeepPromises
<1> DEFINE I == LifecycleInv /\ RefinementsInv /\ PairsInv
<1>1. Init => I
  <2>1. Init => LifecycleInv
    BY LifecycleAssumption, LifecycleInit DEF Init, LifecycleInv
  <2>2. Init => RefinementsInv
    BY Refinements!InitInv DEF Init, RefinementsInv
  <2>3. Init => PairsInv
    BY Pairs!InitInv DEF Init, PairsInv
  <2> QED BY <2>1, <2>2, <2>3
<1>2. I /\ [Next]_vars => I' /\ [StepKept]_vars
  <2> SUFFICES ASSUME I, [Next]_vars PROVE I' /\ [StepKept]_vars
    OBVIOUS
  <2>1. CASE Next
    <3>1. LifecycleInv' /\ (which = "lifecycle" => Lifecycle!StageForward)
      BY <2>1, LifecycleAssumption, OneMoves, LifecycleStep DEF LifecycleInv
    <3>2. RefinementsInv' /\ (which = "refinements" => Refinements!StepKeeps)
      BY <2>1, OneMoves, Refinements!StepInv DEF RefinementsInv
    <3>3. PairsInv' /\ (which = "pairs" => Pairs!StepKeeps)
      BY <2>1, OneMoves, Pairs!StepInv DEF PairsInv
    <3>4. StepKept
      BY <3>1, <3>2, <3>3 DEF StepKept, Refinements!StepKeeps, Pairs!StepKeeps
    <3> QED BY <3>1, <3>2, <3>3, <3>4
  <2>2. CASE UNCHANGED vars
    <3>1. LifecycleInv'
      BY <2>2, LifecycleAssumption, NoneMoves, LifecycleStep DEF LifecycleInv
    <3>2. RefinementsInv'
      BY <2>2, NoneMoves, Refinements!Stutter DEF RefinementsInv
    <3>3. PairsInv'
      BY <2>2, NoneMoves, Pairs!Stutter DEF PairsInv
    <3> QED BY <2>2, <3>1, <3>2, <3>3
  <2> QED BY <2>1, <2>2
<1> QED BY <1>1, <1>2, PTL DEF Spec, StepsKeepPromises
=============================================================================
