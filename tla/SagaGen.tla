------------------------------- MODULE SagaGen -------------------------------
(* The saga pattern of machinery refine (internal/refine): forward steps that *)
(* commit an effect each, compensation of what was committed when one fails.  *)
(* Authors edit the machine and the flags that stand for the effects; the     *)
(* machine runs beside the emitted model and beside the effects themselves:   *)
(* `flags` is what the model believes, `done` and `undone` what happened.     *)
EXTENDS Integers, Sequences, FiniteSets

CONSTANTS Forwards,            \* the forward steps, in order
          FlagNames,           \* names an author may give to a flag
          Declared,            \* the author's first annotation
          MaxRetries, MaxEdits

Steps == {Forwards[i] : i \in 1..Len(Forwards)}
Final == {"Completed", "Failed", "FailedDirty"}
States == Steps \cup {"Compensating", "compensateRetry"} \cup Final
Keys == {"onDone", "onError", "after", "always", "event"}
First == Forwards[1]
Completing == Forwards[Len(Forwards)]
NoFlag == "none"


VARIABLES machine, finals, obl, edits, pc, at, st, rc, flags, done, undone, drifted
vars == <<machine, finals, obl, edits, pc, at, st, rc, flags, done, undone, drifted>>

Route(f, k, t) == [from |-> f, key |-> k, to |-> t]
Routes == [from : States, key : Keys, to : States]
Targets(s, k) == {r.to : r \in {x \in machine : x.from = s /\ x.key = k}}
Index(s) == CHOOSE i \in 1..Len(Forwards) : Forwards[i] = s
Forward(s) == IF s = Completing THEN "Completed" ELSE Forwards[Index(s) + 1]
FailTo(s) == IF s = First THEN "Failed" ELSE "Compensating"

----------------------------------------------------------------------------
(* Reconciliation.                                                          *)

ForwardRoutes == \A s \in Steps :
    /\ Targets(s, "onDone") = {Forward(s)}
    /\ Targets(s, "onError") = {FailTo(s)} /\ Targets(s, "after") = {FailTo(s)}

\* A timeout of Compensating may go to the retry state only.
CompensationLoop ==
    /\ Targets("Compensating", "onDone") = {"Failed"}
    /\ Targets("Compensating", "onError") = {"compensateRetry"}
    /\ Targets("Compensating", "after") \cap {"Failed", "Completed"} = {}
    /\ Targets("compensateRetry", "always") = {"FailedDirty"}
    /\ Targets("compensateRetry", "after") = {"Compensating"}

\* Mutant of FinalStates: only the terminals are looked at.
FinalStatesTerminals == Final \subseteq finals

FinalStates == finals = Final

\* The routes that the emitted model carries.
Carried(r) ==
    \/ r.from \in Steps /\ r.key = "onDone" /\ r.to = Forward(r.from)
    \/ r.from \in Steps /\ r.key \in {"onError", "after"} /\ r.to = FailTo(r.from)
    \/ r.from = "Compensating" /\ r.key = "onDone" /\ r.to = "Failed"
    \/ r.from = "Compensating" /\ r.key \in {"onError", "after"} /\ r.to = "compensateRetry"
    \/ r.from = "compensateRetry" /\ r.key = "always" /\ r.to = "FailedDirty"
    \/ r.from = "compensateRetry" /\ r.key = "after" /\ r.to = "Compensating"

\* Mutant of RequireModeled: events are not part of the closure.
RequireModeledEffects == \A r \in machine : r.key # "event" => Carried(r)

RequireModeled == \A r \in machine : Carried(r)

\* Mutant of UndoDeclared: any step may omit its undo.
UndoDeclaredAny == \A s \in Steps : obl[s].sets # NoFlag

UndoDeclared == \A s \in Steps : obl[s].sets # NoFlag /\ (s # Completing => obl[s].undo # NoFlag)

Reconciled == ForwardRoutes /\ CompensationLoop /\ FinalStates /\ RequireModeled /\ UndoDeclared

----------------------------------------------------------------------------
(* The emitted model over st, rc and the flags.                             *)

Obligations == {s \in Steps : obl[s].undo # NoFlag}
Open(s) == obl[s].sets \in flags /\ obl[s].undo \notin flags

\* Mutant of AllClean: one clean obligation is enough.
AllCleanSome == \E s \in Obligations : ~Open(s)

AllClean == \A s \in Obligations : ~Open(s)

\* CompensateErr and CompensateDone, RetryAgain and RetryExhausted exclude each other.
ModelStep(t) ==
    \/ st \in Steps /\ t \in {Forward(st), FailTo(st)}
    \/ st = "Compensating" /\ AllClean /\ t = "Failed"
    \/ st = "Compensating" /\ ~AllClean /\ t = "compensateRetry"
    \/ st = "compensateRetry" /\ rc < MaxRetries /\ t = "Compensating"
    \/ st = "compensateRetry" /\ rc >= MaxRetries /\ t = "FailedDirty"

\* Mutant of Attempts: the attempt is not counted.
AttemptsFree(t) == rc

\* The attempts after the step: only another attempt counts.
Attempts(t) == IF at = "compensateRetry" /\ t = "Compensating" THEN rc + 1 ELSE rc

----------------------------------------------------------------------------
(* The machine: its single compensate invoke undoes step by step.  The one   *)
(* thing assumed of that effect is that it reports success only when nothing *)
(* is open; an error or a timeout may come at any time, also after the last  *)
(* obligation was undone, where the model has no step for it.                *)

MachineStep(r) ==
    /\ r \in machine /\ r.from = at /\ at \notin finals
    /\ at = "Compensating" /\ r.key = "onDone" => AllClean
    /\ at = "compensateRetry" => (r.key = "always" <=> rc >= MaxRetries)

Canonical ==
    {Route(s, "onDone", Forward(s)) : s \in Steps}
    \cup {Route(s, k, FailTo(s)) : s \in Steps, k \in {"onError", "after"}}
    \cup {Route("Compensating", "onDone", "Failed"),
          Route("Compensating", "onError", "compensateRetry"),
          Route("compensateRetry", "always", "FailedDirty"),
          Route("compensateRetry", "after", "Compensating")}

Edit == pc = "edit" /\ edits < MaxEdits /\ edits' = edits + 1
        /\ UNCHANGED <<pc, at, st, rc, flags, done, undone, drifted>>
Flip(S, x) == IF x \in S THEN S \ {x} ELSE S \cup {x}
Toggle(r) == Edit /\ machine' = Flip(machine, r) /\ UNCHANGED <<finals, obl>>
ToggleFinal(s) == Edit /\ finals' = Flip(finals, s) /\ UNCHANGED <<machine, obl>>
Annotate(s, o) == Edit /\ obl' = [obl EXCEPT ![s] = o] /\ UNCHANGED <<machine, finals>>

Generate == /\ pc = "edit" /\ Reconciled /\ pc' = "run"
            /\ UNCHANGED <<machine, finals, obl, edits, at, st, rc, flags, done, undone, drifted>>

\* A step that ends in its own success has committed its effect.  Where the model
\* has no such step it stays behind and the machine goes on without it.
Step(r) ==
    /\ pc = "run" /\ MachineStep(r) /\ at' = r.to /\ rc' = Attempts(r.to)
    /\ \/ /\ ~drifted /\ ModelStep(r.to) /\ st' = r.to /\ drifted' = FALSE
          /\ flags' = flags \cup (IF at \in Steps /\ r.key = "onDone" THEN {obl[at].sets} ELSE {})
       \/ (drifted \/ ~ModelStep(r.to)) /\ drifted' = TRUE /\ UNCHANGED <<st, flags>>
    /\ done' = done \cup (IF at \in Steps /\ r.key = "onDone" THEN {at} ELSE {})
    /\ UNCHANGED <<machine, finals, obl, edits, pc, undone>>

\* Undo_<flag>: one obligation is undone.
Undo(s) == /\ pc = "run" /\ ~drifted /\ at = "Compensating" /\ st = "Compensating"
           /\ s \in Obligations /\ Open(s)
           /\ flags' = flags \cup {obl[s].undo} /\ undone' = undone \cup {s}
           /\ UNCHANGED <<machine, finals, obl, edits, pc, at, st, rc, done, drifted>>

Init == /\ machine = Canonical /\ finals = Final /\ obl = Declared /\ edits = 0 /\ pc = "edit"
        /\ at = First /\ st = First /\ rc = 0 /\ flags = {} /\ done = {} /\ undone = {}
        /\ drifted = FALSE

Next == \/ \E r \in Routes : Toggle(r)
        \/ \E s \in States : ToggleFinal(s)
        \/ \E s \in Steps, a \in FlagNames, b \in FlagNames \cup {NoFlag} :
               Annotate(s, [sets |-> a, undo |-> b])
        \/ Generate
        \/ \E r \in machine : Step(r)
        \/ \E s \in Steps : Undo(s)
Progress == (\E r \in machine : Step(r)) \/ (\E s \in Steps : Undo(s))
Spec == Init /\ [][Next]_vars /\ WF_vars(Progress)

----------------------------------------------------------------------------
(* Properties.                                                              *)

TypeOK == /\ machine \subseteq Routes /\ {at, st} \subseteq States /\ rc \in 0..MaxRetries
          /\ flags \subseteq FlagNames /\ done \cup undone \subseteq Steps

\* Each flag stands for one effect.
FlagsApart == \A s, t \in Steps :
    /\ obl[s].sets # obl[t].undo
    /\ s # t => obl[s].sets # obl[t].sets /\ (obl[s].undo = obl[t].undo => obl[s].undo = NoFlag)

\* Whatever an accepted machine does, its model does (ReconcileSaga's closure),
\* with one exception: an error or a timeout of the compensation that comes when
\* everything is undone is a route that reconciliation accepts (refine.go:1269-1273)
\* and CompensateErr refuses (refine.go:1467).
Simulates == drifted => st = "Compensating" /\ AllClean

\* A saga that ends clean has undone everything that it committed
\* (Inv_CleanCompensation of the emitted model, said of the effects).
CleanMeansUndone == FlagsApart /\ pc = "run" /\ at = "Failed" => done \subseteq undone

\* A saga that did not end dirty and did not complete lost nothing, whatever the
\* flags are called: what the header of the emitted model says it proves.
NeverSilentlyLost == pc = "run" /\ at = "Failed" => done \subseteq undone

\* Live_Terminates, of the machine: compensation is bounded.
Running == pc = "run"
Ended == at \in Final

----------------------------------------------------------------------------
(* The inductive invariant of these promises (proofs in Generators).        *)

\* What a semantics file declares: reconciliation refuses a step that is declared
\* twice and one that has the name of a control state.
WellDeclared ==
    /\ Len(Forwards) \in Nat \ {0}
    /\ \A i, j \in 1..Len(Forwards) : Forwards[i] = Forwards[j] => i = j
    /\ Steps \cap ({"Compensating", "compensateRetry"} \cup Final) = {}
    /\ MaxRetries \in Nat

\* The model is where the machine is, or was left behind in a clean compensation;
\* and nothing ran while the author edits.
Together == /\ at \in States /\ rc \in Nat
            /\ pc = "edit" => done = {} /\ undone = {} /\ ~drifted
            /\ ~drifted => at = st
            /\ drifted => /\ st = "Compensating" /\ AllClean
                          /\ at \in {"Compensating", "compensateRetry", "Failed", "FailedDirty"}

\* The flags are those of the effects: what was committed and what was undone.
Mirrored == /\ done \subseteq Steps /\ undone \subseteq Obligations
            /\ flags = {obl[s].sets : s \in done} \cup {obl[s].undo : s \in undone}

\* The completing step commits last, and the first step has nothing before it.
Ordered == /\ Completing \in done => at = "Completed"
           /\ at = First => done = {}
Undone == FlagsApart /\ at = "Failed" => done \subseteq undone
Inv == Together /\ Mirrored /\ Ordered /\ Undone /\ (pc = "run" => Reconciled)
=============================================================================
