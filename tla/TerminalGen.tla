----------------------------- MODULE TerminalGen -----------------------------
(* The terminal-lifecycle pattern of machinery refine (internal/refine):     *)
(* phases advance to a success terminal or fail, directly or after bounded   *)
(* retries, to a failure terminal.  Authors edit the machine, reconciliation *)
(* accepts it or not, and the machine runs beside the emitted model: `at` is *)
(* where the machine is, `st` where the model is.                            *)
EXTENDS Integers, Sequences, FiniteSets

CONSTANTS Phases,              \* phases, in order
          Success, Failures,   \* success_terminal, failure_terminals
          Serves,              \* Serves[r]: the phase of retry state r
          MaxRetries, MaxEdits

Retry == DOMAIN Serves
Steps == {Phases[i] : i \in 1..Len(Phases)}
Terminal == {Success} \cup Failures
States == Steps \cup Retry \cup Terminal \cup {"extra"}
Keys == {"onDone", "onError", "after", "always", "event"}


VARIABLES machine, finals, edits, pc, at, st, rc, flag, drifted
vars == <<machine, finals, edits, pc, at, st, rc, flag, drifted>>

Route(f, k, t) == [from |-> f, key |-> k, to |-> t]
Routes == [from : States, key : Keys, to : States]
Targets(s, k) == {r.to : r \in {x \in machine : x.from = s /\ x.key = k}}
Forward(p) == LET i == CHOOSE i \in 1..Len(Phases) : Phases[i] = p IN
              IF i < Len(Phases) THEN Phases[i + 1] ELSE Success

\* A phase that a retry state serves fails into it, another into a failure terminal.
RetryOf(p) == {r \in Retry : Serves[r] = p}
FailTo(p) == IF RetryOf(p) # {} THEN RetryOf(p) ELSE Failures
FailTargets(p) == Targets(p, "onError") \cup Targets(p, "after")

----------------------------------------------------------------------------
(* Reconciliation.                                                          *)

\* Mutant of PhaseRoutes: a failure path is bounded, not required.
PhaseRoutesNoFail == \A p \in Steps :
    /\ p \notin finals /\ Targets(p, "onDone") = {Forward(p)}
    /\ FailTargets(p) \subseteq FailTo(p)

PhaseRoutes == \A p \in Steps :
    /\ p \notin finals /\ Targets(p, "onDone") = {Forward(p)}
    /\ FailTargets(p) # {} /\ FailTargets(p) \subseteq FailTo(p)

RetryRoutes == \A r \in Retry :
    /\ Targets(r, "always") # {} /\ Targets(r, "always") \subseteq Failures
    /\ Targets(r, "after") = {Serves[r]}

\* The routes that the emitted model carries.
Carried(r) ==
    \/ r.from \in Steps /\ r.key = "onDone" /\ r.to = Forward(r.from)
    \/ r.from \in Steps /\ r.key \in {"onError", "after"} /\ r.to \in FailTo(r.from)
    \/ r.from \in Retry /\ r.key = "always"
    \/ r.from \in Retry /\ r.key = "after" /\ r.to = Serves[r.from]

\* Mutant of RequireModeled: only phases are closed.
RequireModeledPhases == \A r \in machine : r.from \in Steps => Carried(r)

RequireModeled == \A r \in machine : Carried(r)

Reconciled == /\ Terminal \subseteq finals /\ PhaseRoutes /\ RetryRoutes /\ RequireModeled
              /\ \A r \in machine : r.from # "extra" /\ r.to # "extra"

----------------------------------------------------------------------------
(* The emitted model: its steps from the control state s, as targets.       *)

\* Mutant of FailRoutes: failures go to the first declared terminal.
FailRoutesFirst(p) == IF RetryOf(p) # {} THEN RetryOf(p) ELSE {CHOOSE f \in Failures : TRUE}

FailRoutes(p) == IF RetryOf(p) # {} THEN RetryOf(p) ELSE FailTargets(p)

ModelStep(t) ==
    \/ st \in Steps /\ t \in {Forward(st)} \cup FailRoutes(st)
    \/ st \in Retry /\ rc[st] < MaxRetries /\ t = Serves[st]
    \/ st \in Retry /\ rc[st] >= MaxRetries /\ t \in Targets(st, "always")

\* Mutant of Attempts: attempts are not counted.
AttemptsFree == rc

\* The counters after the step: only another attempt counts.
Attempts == IF st \in Retry /\ rc[st] < MaxRetries THEN [rc EXCEPT ![st] = @ + 1] ELSE rc

\* Mutant of Completes: the flag is set by the first phase.
CompletesEarly(t) == flag \/ (st = Phases[1] /\ t = Forward(st))

Completes(t) == flag \/ (st \in Steps /\ t = Success)

\* What the machine can take: retry routes are guarded by its attempts, whose
\* count the named units keep.
MachineStep(r) == /\ r \in machine /\ r.from = at /\ at \notin finals
                  /\ (at \in Retry /\ r.key = "always") => rc[at] >= MaxRetries
                  /\ (at \in Retry /\ r.key = "after") => rc[at] < MaxRetries

----------------------------------------------------------------------------

\* A machine as the pattern wants it.
Canonical ==
    {Route(p, "onDone", Forward(p)) : p \in Steps}
    \cup {Route(p, "onError", t) : p \in {x \in Steps : RetryOf(x) = {}}, t \in Failures}
    \cup {Route(Serves[r], "onError", r) : r \in Retry}
    \cup {Route(r, "after", Serves[r]) : r \in Retry}
    \cup {Route(r, "always", t) : r \in Retry, t \in Failures}

Edit == pc = "edit" /\ edits < MaxEdits /\ edits' = edits + 1
        /\ UNCHANGED <<pc, at, st, rc, flag, drifted>>
Toggle(r) == Edit /\ machine' = (IF r \in machine THEN machine \ {r} ELSE machine \cup {r})
             /\ UNCHANGED finals
ToggleFinal(s) == Edit /\ finals' = (IF s \in finals THEN finals \ {s} ELSE finals \cup {s})
                  /\ UNCHANGED machine

Generate == /\ pc = "edit" /\ Reconciled /\ pc' = "run"
            /\ UNCHANGED <<machine, finals, edits, at, st, rc, flag, drifted>>

\* The machine takes a route and the model follows, if it can.
Step(r) == /\ pc = "run" /\ ~drifted /\ MachineStep(r) /\ at' = r.to
           /\ \/ /\ ModelStep(r.to) /\ st' = r.to /\ rc' = Attempts /\ flag' = Completes(r.to)
                 /\ drifted' = FALSE
              \/ ~ModelStep(r.to) /\ drifted' = TRUE /\ UNCHANGED <<st, rc, flag>>
           /\ UNCHANGED <<machine, finals, edits, pc>>

Init == /\ machine = Canonical /\ finals = Terminal /\ edits = 0 /\ pc = "edit"
        /\ at = Phases[1] /\ st = Phases[1] /\ rc = [r \in Retry |-> 0] /\ flag = FALSE
        /\ drifted = FALSE

Next == \/ \E r \in Routes : Toggle(r)
        \/ \E s \in States : ToggleFinal(s)
        \/ Generate
        \/ \E r \in machine : Step(r)
Spec == Init /\ [][Next]_vars /\ WF_vars(\E r \in machine : Step(r))

----------------------------------------------------------------------------
(* Properties.                                                              *)

TypeOK == /\ machine \subseteq Routes /\ finals \subseteq States /\ rc \in [Retry -> 0..MaxRetries]
          /\ {at, st} \subseteq States /\ flag \in BOOLEAN

\* Whatever an accepted machine does, its model does: the model neither loses a
\* failure route nor an exhausted retry (requireModeled, failRoutes).
Simulates == ~drifted

\* Inv_Complete, Inv_TerminalAbsorbing: only success completes, and a terminal
\* is final in the machine as well.
Complete == /\ flag <=> st = Success
            /\ pc = "run" /\ at \in Terminal => ~\E r \in machine : r.from = at

\* No accepted machine is left waiting in a state that its model leaves: every
\* phase can fail and every retry can end (ReconcileTerminal), unless the machine
\* calls a retry state final.
NoDeadEnd == pc = "run" /\ at \notin Terminal \cup (Retry \cap finals) =>
    /\ \E r \in machine : MachineStep(r)
    /\ at \in Steps => \E r \in machine : r.from = at /\ r.key \in {"onError", "after"}

\* Every run of an accepted machine stops.
Running == pc = "run"
Stopped == at \in Terminal \cup (Retry \cap finals)

\* Live_Terminates of the machine itself: it stops in a terminal, because its
\* retry overlays match the model (ReconcileTerminal).
Terminates == (pc = "run") ~> (at \in Terminal)

----------------------------------------------------------------------------
(* The inductive invariant of these promises (proofs in Generators).        *)

\* What a semantics file declares.  Reconciliation refuses a state in two roles
\* among phases, retry states and terminals; the emitted model of one terminal
\* for success and failure is refuted by its own check; and of two retry states
\* for one phase only the later is ever entered.
WellDeclared ==
    /\ Len(Phases) \in Nat \ {0} /\ Success \notin Failures
    /\ Steps \cap (Retry \cup Terminal) = {} /\ Retry \cap Terminal = {}
    /\ \A r \in Retry : Serves[r] \in Steps
    /\ \A r, q \in Retry : Serves[r] = Serves[q] => r = q
    /\ MaxRetries \in Nat

\* The model is where the machine is.
Together == ~drifted /\ at = st /\ st \in Steps \cup Retry \cup Terminal
Counted == rc \in [Retry -> Nat]
Completed == flag = (st = Success)
Inv == Together /\ Counted /\ Completed /\ (pc = "run" => Reconciled)
=============================================================================
