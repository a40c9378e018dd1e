---------------------------- MODULE LifecycleGen ----------------------------
(* The linear-lifecycle pattern of machinery refine (internal/refine):       *)
(* authors edit a machine, reconciliation accepts it or not, and the emitted *)
(* data model of an accepted machine runs.  A machine is a set of routes     *)
(* [from, key, to, guard]; the key is an event of "on" or the kind of the    *)
(* transition.                                                               *)
EXTENDS Integers, Sequences, FiniteSets

CONSTANTS Stages,              \* the declared stages, in order
          Win, Lose,           \* win_stage, lose_stage
          ReopenTo, CloseOn,   \* reopen_to, close_date_on
          Faults,              \* overlay.fault, as a set of at most one state each
          MaxRetries, MaxEdits

Open == {Stages[i] : i \in 1..Len(Stages)}
Terminal == {Win, Lose}
Domain == Open \cup Terminal
Overlay == {"busy", "retry", "rollback"}
States == Domain \cup (UNION Faults) \cup Overlay \cup {"extra"}
None == "none"
First == Stages[1]
LastOpen == Stages[Len(Stages)]
Succ(s) == Stages[1 + CHOOSE i \in 1..Len(Stages) : Stages[i] = s]
Rank(s) == IF s \in Open THEN CHOOSE i \in 1..Len(Stages) : Stages[i] = s ELSE Len(Stages) + 1


Events == {"advance", "win", "lose", "reopen"}
Keys == Events \cup {"onDone", "onError", "after", "always"}

VARIABLES fault,               \* the declared fault state, if any
          machine,             \* the routes of the authored machine
          edits,
          pc,                  \* "edit", then "run" of the emitted model
          st, rc, stage, pending, prior, closeSet
data == <<st, rc, stage, pending, prior, closeSet>>
vars == <<fault, machine, edits, pc, data>>

Resting == Domain \cup fault

Route(f, k, t, g) == [from |-> f, key |-> k, to |-> t, guard |-> g]
Routes == [from : States, key : Keys, to : States, guard : Domain \cup {None}]

----------------------------------------------------------------------------
(* Reconciliation.                                                          *)

Targets(s, k) == {r.to : r \in {x \in machine : x.from = s /\ x.key = k}}

Advanceable == Open \ {LastOpen}
Commits == (Open \ {First}) \cup Terminal
Enters == {s \in Domain : \E k \in Keys : "busy" \in Targets(s, k)}

\* Every transition the pattern requires exists, and none of those it excludes.
RequiredRoutes ==
    /\ \A s \in Advanceable : "busy" \in Targets(s, "advance")
    /\ "busy" \notin Targets(LastOpen, "advance")
    /\ \A s \in Open : /\ "busy" \in Targets(s, "win") /\ "busy" \in Targets(s, "lose")
                       /\ "busy" \notin Targets(s, "reopen")
    /\ \A t \in Terminal : /\ "busy" \in Targets(t, "reopen")
                           /\ \A k \in {"advance", "win", "lose"} : "busy" \notin Targets(t, k)

\* Mutant of OverlayShape: the commits are only bounded from above.
OverlayShapeLoose ==
    /\ Targets("busy", "onDone") \subseteq Commits \cup {"rollback"}
    /\ Targets("busy", "onError") \subseteq {"retry", "rollback"}
    /\ Targets("retry", "always") = {"rollback"}

OverlayShape ==
    /\ Commits \subseteq Targets("busy", "onDone")
    /\ Targets("busy", "onDone") \subseteq Commits \cup {"rollback"}
    /\ Targets("busy", "onError") \subseteq {"retry", "rollback"}
    /\ Targets("retry", "always") = {"rollback"}

\* One guarded route per state that enters the overlay, and one fallback.
RollbackRoutes == {r \in machine : r.from = "rollback" /\ r.key = "always"}

\* Mutant of RollbackTotal: target sets are compared, guards are not.
RollbackTotalByTarget == {r.to : r \in RollbackRoutes} = Enters \cup fault

RollbackTotal ==
    /\ \A r \in RollbackRoutes : r.guard # None => r.guard \in Enters /\ r.to = r.guard
    /\ \A s \in Enters : \E r \in RollbackRoutes : r.guard = s
    /\ \E r \in RollbackRoutes :
          /\ {x \in RollbackRoutes : x.guard = None} = {r}
          /\ fault # {} => r.to \in fault
    /\ {r.to : r \in RollbackRoutes} = Enters \cup fault

\* The routes that the emitted model carries.
Carried(r) ==
    \/ r.from \in Open /\ r.key \in {"win", "lose"} /\ r.to = "busy"
    \/ r.from \in Advanceable /\ r.key = "advance" /\ r.to = "busy"
    \/ r.from \in Terminal /\ r.key = "reopen" /\ r.to = "busy"
    \/ r.from = "busy" /\ r.key = "onDone" /\ r.to \in Commits \cup {"rollback"}
    \/ r.from = "busy" /\ r.key \in {"onError", "after"} /\ r.to \in {"retry", "rollback"}
    \/ r.from = "retry" /\ r.key = "always" /\ r.to = "rollback"
    \/ r.from = "retry" /\ r.key = "after" /\ r.to = "busy"
    \/ r.from = "rollback" /\ r.key = "always" /\ r.to \in Enters \cup fault

\* Nothing else: a route outside the vocabulary would not be modelled.  A fault
\* state is final, which admits no route.

\* Mutant of RequireModeled: timeouts are taken for granted.
RequireModeledTimeouts == \A r \in machine : r.key # "after" => Carried(r)

RequireModeled == \A r \in machine : Carried(r)

Vocabulary == \A r \in machine : r.from \in Resting \cup Overlay /\ r.to \in Resting \cup Overlay

Reconciled == Vocabulary /\ RequiredRoutes /\ OverlayShape /\ RollbackTotal /\ RequireModeled

----------------------------------------------------------------------------
(* Authoring.                                                               *)

\* A machine as the pattern wants it.
Canonical ==
    {Route(s, "advance", "busy", None) : s \in Advanceable}
    \cup {Route(s, k, "busy", None) : s \in Open, k \in {"win", "lose"}}
    \cup {Route(t, "reopen", "busy", None) : t \in Terminal}
    \cup {Route("busy", "onDone", t, None) : t \in Commits}
    \cup {Route("busy", "onError", t, None) : t \in {"retry", "rollback"}}
    \cup {Route("retry", "always", "rollback", None), Route("retry", "after", "busy", None)}
    \cup {Route("rollback", "always", s, s) : s \in Domain}
    \cup {Route("rollback", "always", f, None) :
              f \in (IF fault # {} THEN fault ELSE {First})}

Toggle(r) == /\ machine' = IF r \in machine THEN machine \ {r} ELSE machine \cup {r}
             /\ UNCHANGED <<fault, pc, data>>

\* An author changes one route of any kind, or several of those that the
\* pattern has and of the overlay.
Familiar == Canonical \cup [from : Overlay, key : Keys, to : Overlay \cup {First}, guard : {None}]
ToggleAny == /\ pc = "edit" /\ edits = 0 /\ edits' = MaxEdits
             /\ \E r \in Routes : Toggle(r)
ToggleFamiliar == /\ pc = "edit" /\ edits < MaxEdits /\ edits' = edits + 1
                  /\ \E r \in Familiar : Toggle(r)

Generate == /\ pc = "edit" /\ Reconciled /\ pc' = "run" /\ UNCHANGED <<fault, machine, edits, data>>

----------------------------------------------------------------------------
(* The emitted data model.                                                  *)

Start(s, k, p) ==
    /\ st = s /\ pc = "run"
    /\ st' = "busy" /\ pending' = p /\ prior' = st /\ rc' = 0
    /\ UNCHANGED <<stage, closeSet, fault, machine, edits, pc>>

StartAdvance == \E s \in Advanceable : Start(s, "advance", Succ(s))
StartWin == \E s \in Open : Start(s, "win", Win)
StartLose == \E s \in Open : Start(s, "lose", Lose)
StartReopen == \E s \in Terminal : Start(s, "reopen", ReopenTo)

Rests(t) == st' = t /\ stage' = t /\ pending' = None /\ prior' = None /\ rc' = 0

\* Mutant of SaveDone: the date is set by the stage that is left.
SaveDoneLate == st = "busy" /\ Rests(pending) /\ closeSet' = (closeSet \/ stage = CloseOn)

SaveDone == st = "busy" /\ Rests(pending) /\ closeSet' = (closeSet \/ pending = CloseOn)

Moves(from, to) == st = from /\ st' = to /\ UNCHANGED <<stage, pending, prior, closeSet>>

\* Mutant of RetryAgain: an attempt is not counted.
RetryAgainUncounted == rc < MaxRetries /\ Moves("retry", "busy") /\ rc' = rc

\* Mutant of RetryAgain: the bound is passed by one.
RetryAgainOver == rc <= MaxRetries /\ Moves("retry", "busy") /\ rc' = rc + 1

\* Mutant of SaveFail: what is to be restored is forgotten.
SaveFailForgets == /\ st = "busy" /\ st' = "rollback" /\ rc' = rc /\ prior' = pending
                   /\ UNCHANGED <<stage, pending, closeSet>>

SaveLocked == Moves("busy", "retry") /\ rc' = rc
SaveFail == Moves("busy", "rollback") /\ rc' = rc
RetryExhausted == rc >= MaxRetries /\ Moves("retry", "rollback") /\ rc' = rc
RetryAgain == rc < MaxRetries /\ Moves("retry", "busy") /\ rc' = rc + 1

\* Mutant of RolledBack: a failed save starts over.
RolledBackFirst == st = "rollback" /\ Rests(First) /\ closeSet' = closeSet

RolledBack == st = "rollback" /\ Rests(prior) /\ closeSet' = closeSet
RollbackFault == st = "rollback" /\ (\E f \in fault : Rests(f)) /\ closeSet' = closeSet

Overlay_Next == /\ pc = "run"
                /\ \/ SaveDone \/ SaveLocked \/ SaveFail \/ RetryExhausted \/ RetryAgain
                   \/ RolledBack \/ RollbackFault
                /\ UNCHANGED <<fault, machine, edits, pc>>

Init == /\ fault \in Faults /\ machine = Canonical /\ edits = 0 /\ pc = "edit"
        /\ st = First /\ stage = First
        /\ rc = 0 /\ pending = None /\ prior = None /\ closeSet = FALSE

Next == \/ ToggleAny \/ ToggleFamiliar
        \/ Generate
        \/ StartAdvance \/ StartWin \/ StartLose \/ StartReopen \/ Overlay_Next
Spec == Init /\ [][Next]_vars /\ WF_vars(Overlay_Next)

----------------------------------------------------------------------------
(* Properties.                                                              *)

TypeOK == /\ st \in Resting \cup Overlay /\ rc \in 0..MaxRetries /\ stage \in Resting
          /\ {pending, prior} \subseteq Domain \cup {None} /\ closeSet \in BOOLEAN
          /\ machine \subseteq Routes

\* Inv_Atomic, Inv_DomainConsistent: the aggregate keeps its stage while a save
\* is under way, and at rest nothing of the save is left.
Atomic == /\ st \in Overlay => stage = prior /\ prior \in Domain /\ pending \in Domain
          /\ st \in Resting => st = stage /\ pending = None /\ prior = None

\* Inv_CloseDate: the close date is set once the closing stage was reached, which
\* the first stage of a lifecycle cannot be.
CloseDate == stage = CloseOn /\ CloseOn # First => closeSet

\* StageForward: an aggregate moves forward, except when it is reopened or faults.
StageForward ==
    stage' # stage => \/ stage' \in fault
                      \/ Rank(stage') > Rank(stage)
                      \/ stage \in Terminal /\ stage' = ReopenTo

\* What an accepted machine can do from where the model is, the model can do: no
\* route of the machine is missing from the proof (requireModeled).
NothingDropped ==
    pc = "run" => \A r \in machine : r.from = st =>
        \/ st \in Domain /\ r.to = "busy"
        \/ st = "busy" /\ r.key = "onDone" /\ r.to \in Domain
              /\ \E s \in Domain : r.to \in {Win, Lose, ReopenTo} \/ (s \in Advanceable /\ r.to = Succ(s))
        \/ st = "busy" /\ r.to \in {"retry", "rollback"}
        \/ st = "retry" /\ r.to \in {"busy", "rollback"}
        \/ st = "rollback" /\ (r.to \in fault \/ r.guard = r.to \/ r.guard = None)

\* Every step of the model out of a resting state, every rollback and every
\* commit that does not reopen is a route of the machine (ReconcileLifecycle).
ModelFollows ==
    pc = "run" =>
        /\ st = "rollback" => \E r \in RollbackRoutes : r.to = prior /\ r.guard = prior
        /\ st = "busy" /\ pending # First => pending \in Targets("busy", "onDone")

\* The advance, win, lose and reopen structure of the model matches the machine:
\* what is saved can be committed (the header of the emitted module).
CommitsMatch == pc = "run" /\ st = "busy" => pending \in Targets("busy", "onDone")

\* A save is under way (Live_OverlayResolves: every save comes to rest).
Saving == pc = "run" /\ st \in Overlay

----------------------------------------------------------------------------
(* The inductive invariant of these promises (proofs in Generators).         *)

\* What a semantics file declares.  Reconciliation refuses a terminal among the
\* stages, and tells domain states from the others by their first letter; a
\* stage that is declared twice makes the emitted module a syntax error.
WellDeclared ==
    /\ Len(Stages) \in Nat \ {0} /\ \A i, j \in 1..Len(Stages) : Stages[i] = Stages[j] => i = j
    /\ Terminal \cap Open = {} /\ ReopenTo \in Open /\ CloseOn \in Domain
    /\ Domain \cap (Overlay \cup {None}) = {}
    /\ \A f \in Faults : f \cap (Domain \cup Overlay) = {}

\* A save under way leads one stage further, to a terminal, or back from one.
Heading == st \in Overlay =>
    /\ stage = prior
    /\ \/ prior \in Advanceable /\ pending = Succ(prior)
       \/ prior \in Open /\ pending \in Terminal
       \/ prior \in Terminal /\ pending = ReopenTo
AtRest == st \notin Overlay => st \in Resting /\ st = stage /\ pending = None /\ prior = None
Inv == fault \in Faults /\ Heading /\ AtRest /\ CloseDate /\ (pc = "run" => Reconciled)
=============================================================================
