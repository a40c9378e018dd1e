---------------------------- MODULE Calibration ----------------------------
(* The calibration part of a milestone manifest (internal/tdd, manifest.go, *)
(* Validate): what each test is expected to show on the baseline and on     *)
(* every variant, the safe/unsafe pairs and the red controls.  Authors edit *)
(* the declarations of a complete manifest; Validate accepts or refuses.    *)
EXTENDS Integers, FiniteSets, Sequences, SequencesExt

CONSTANTS Tests, Asserts,  \* Asserts[t]: assertion ids that a test registers
          Negative,        \* tests with the role negative
          Variants, Kind,  \* Kind[v]: "safe-control" or "unsafe-challenge"
          Pairs, Sources, Baseline,
          MaxNames,        \* ids that an expectation lists at most
          MaxEdits,
          Base0, Expected0, Pair0, Target0, Source0, Controls0   \* a complete manifest

Ids == UNION {Asserts[t] : t \in Tests}
NoPair == "none"
None == [outcome |-> "none", names |-> <<>>]
Expectations == {None} \cup [outcome : {"pass", "assertion-fail"}, names : SeqOf(Ids, MaxNames)]

VARIABLES red,       \* red[t]: baseline expectation of a test
          expected,  \* expected[v][t]
          pair, target, source,
          controls,  \* red controls [test, assertion, variant]
          edits, accepted
vars == <<red, expected, pair, target, source, controls, edits, accepted>>


----------------------------------------------------------------------------
(* Validate, one manifest.                                                  *)

Safe(v) == Kind[v] = "safe-control"
Named(e) == ToSet(e.names)

\* Mutant of checkExp: counts are compared and names are not looked up.
checkExpCounted(t, e) == /\ e.outcome = "pass" => Len(e.names) = Cardinality(Asserts[t])
                         /\ e.outcome = "assertion-fail" => e.names # <<>>

\* Mutant of checkExp: registered assertions are enough for a pass.
checkExpSubset(t, e) == Named(e) \subseteq Asserts[t] /\ e.names # <<>>

checkExp(t, e) == /\ Named(e) \subseteq Asserts[t]
                  /\ e.outcome = "pass" => Len(e.names) = Cardinality(Asserts[t])
                  /\ e.outcome = "assertion-fail" => e.names # <<>>

BaselineComplete == \A t \in Tests : red[t] # None /\ checkExp(t, red[t])
VariantsComplete == \A v \in Variants : \A t \in Tests : expected[v][t] # None /\ checkExp(t, expected[v][t])

fails == {k \in Tests \X Ids : red[k[1]].outcome = "assertion-fail" /\ k[2] \in Named(red[k[1]])}
For(k) == {c \in controls : c.test = k[1] /\ c.assertion = k[2]}

\* Mutant of passOK: the test passes, whatever it names.
passOKTest(c) == Safe(c.variant)

passOK(c) == /\ Safe(c.variant)
             /\ expected[c.variant][c.test].outcome = "pass"
             /\ c.assertion \in Named(expected[c.variant][c.test])

ControlsBijective == /\ \A k \in fails : Cardinality(For(k)) = 1
                     /\ \A c \in controls : <<c.test, c.assertion>> \in fails /\ passOK(c)

Members(p) == {v \in Variants : pair[v] = p}
pairs == {p \in Pairs : Members(p) # {}}
sameStrings(x, y) == Len(x) = Len(y) /\ \A i \in Ids :
    Cardinality({j \in DOMAIN x : x[j] = i}) = Cardinality({j \in DOMAIN y : y[j] = i})

\* Mutant of Distinct: only the two sources are compared.
DistinctSources(s, u) == source[s] # source[u]

Distinct(s, u) == source[s] # source[u] /\ source[u] # Baseline

TargetsDiffer(s, u) == \A t \in target[s] : /\ expected[u][t].outcome = "assertion-fail"
                                            /\ expected[s][t].outcome = "pass"

\* Mutant of OthersAgree: outcomes are compared and assertions are not.
OthersAgreeOutcome(s, u) == \A t \in Tests \ target[s] : expected[s][t].outcome = expected[u][t].outcome

OthersAgree(s, u) == \A t \in Tests \ target[s] :
    /\ expected[s][t].outcome = expected[u][t].outcome
    /\ sameStrings(expected[s][t].names, expected[u][t].names)

PairHolds(p) == \E s, u \in Members(p) :
    /\ Safe(s) /\ ~Safe(u) /\ Members(p) = {s, u}
    /\ target[s] = target[u]
    /\ Distinct(s, u) /\ TargetsDiffer(s, u) /\ OthersAgree(s, u)

\* Mutant of completePairTargets: what any variant targets.
completePairTargetsAny == UNION {target[v] : v \in Variants}

completePairTargets == UNION {target[v] : v \in UNION {Members(p) : p \in pairs}}

Referenced == \A v \in Variants : pair[v] = NoPair => Safe(v) /\ \E c \in controls : c.variant = v

ManifestHolds == /\ BaselineComplete /\ VariantsComplete /\ ControlsBijective
                 /\ pairs # {} /\ \A p \in pairs : PairHolds(p)
                 /\ Negative \subseteq completePairTargets
                 /\ Referenced

----------------------------------------------------------------------------
(* Authors.                                                                 *)

Edit == ~accepted /\ edits < MaxEdits /\ edits' = edits + 1 /\ UNCHANGED accepted
Flip(S, x) == IF x \in S THEN S \ {x} ELSE S \cup {x}

EditBaseline(t, e) == Edit /\ red' = [red EXCEPT ![t] = e] /\ UNCHANGED <<expected, pair, target, source, controls>>
EditVariant(v, t, e) == Edit /\ expected' = [expected EXCEPT ![v][t] = e] /\ UNCHANGED <<red, pair, target, source, controls>>
EditPair(v, p) == Edit /\ pair' = [pair EXCEPT ![v] = p] /\ UNCHANGED <<red, expected, target, source, controls>>
EditTarget(v, t) == Edit /\ target' = [target EXCEPT ![v] = Flip(@, t)] /\ UNCHANGED <<red, expected, pair, source, controls>>
EditSource(v, s) == Edit /\ source' = [source EXCEPT ![v] = s] /\ UNCHANGED <<red, expected, pair, target, controls>>
EditControl(c) == Edit /\ controls' = Flip(controls, c) /\ UNCHANGED <<red, expected, pair, target, source>>
Validate == ~accepted /\ ManifestHolds /\ accepted' = TRUE
            /\ UNCHANGED <<red, expected, pair, target, source, controls, edits>>

Init == /\ red = Base0 /\ expected = Expected0 /\ pair = Pair0 /\ target = Target0 /\ source = Source0
        /\ controls = Controls0 /\ edits = 0 /\ accepted = FALSE
Next == \/ \E t \in Tests, e \in Expectations : EditBaseline(t, e)
        \/ \E v \in Variants, t \in Tests, e \in Expectations : EditVariant(v, t, e)
        \/ \E v \in Variants, p \in Pairs \cup {NoPair} : EditPair(v, p)
        \/ \E v \in Variants, t \in Tests : EditTarget(v, t)
        \/ \E v \in Variants, s \in Sources : EditSource(v, s)
        \/ \E c \in [test : Tests, assertion : Ids, variant : Variants] : EditControl(c)
        \/ Validate
Spec == Init /\ [][Next]_vars

----------------------------------------------------------------------------
(* Properties.                                                              *)

\* The declarations stay well-formed, and what was accepted names only
\* assertions that its tests register.
TypeOK == /\ red \in [Tests -> Expectations] /\ expected \in [Variants -> [Tests -> Expectations]]
          /\ controls \subseteq [test : Tests, assertion : Ids, variant : Variants]
          /\ accepted => \A t \in Tests, e \in Expectations :
                (e = red[t] \/ \E v \in Variants : e = expected[v][t]) => Named(e) \subseteq Asserts[t]

\* A pass expectation that repeats an id is not the asserted set.
Repeats(e) == e.outcome = "pass" /\ Cardinality(Named(e)) < Len(e.names)

\* What a subject must show of a test where the expectation is met.
Failing(e) == IF e.outcome = "assertion-fail" THEN Named(e) ELSE {}

\* A negative test that is accepted tells subjects apart: it fails on a subject
\* that is neither the baseline nor the one on which all of it passes.
Sensitive == accepted => \A t \in Negative : \E s, u \in Variants :
    /\ Safe(s) /\ ~Safe(u) /\ source[s] # source[u] /\ source[u] # Baseline
    /\ Failing(expected[s][t]) = {} /\ Failing(expected[u][t]) # {}

\* A challenge changes what it says it changes: the subjects of a pair show the
\* same failures on every test outside of the pair's targets.
OnlyTargets == accepted => \A s, u \in Variants :
    pair[s] # NoPair /\ pair[s] = pair[u] => \A t \in Tests :
        t \in target[s] \/ Failing(expected[s][t]) = Failing(expected[u][t])

\* A failure on the baseline means something: on a safe subject the very
\* assertion is expected to hold, and one control says on which.
Calibrated == accepted => \A t \in Tests : \A a \in Failing(red[t]) : \E c \in controls :
    /\ c.test = t /\ c.assertion = a /\ Safe(c.variant)
    /\ expected[c.variant][t].outcome = "pass" /\ a \in Named(expected[c.variant][t])

\* Where no id is repeated, a test that passes passes with all of its assertions.
PassesWhole == accepted => \A v \in Variants, t \in Tests :
    expected[v][t].outcome = "pass" /\ ~Repeats(expected[v][t]) => Named(expected[v][t]) = Asserts[t]

\* The same without the exception, as docs/test-assurance-contract.md states it.
PassNamesAll == accepted => \A v \in Variants, t \in Tests :
    expected[v][t].outcome = "pass" => Named(expected[v][t]) = Asserts[t]

(* Why an accepted calibration holds: an inductive invariant.               *)

\* What the constants are assumed to be: a manifest that can be read.
WellFormed == /\ Negative \subseteq Tests /\ NoPair \notin Pairs /\ MaxNames \in Nat
              /\ \A t \in Tests : IsFiniteSet(Asserts[t])
              /\ Base0 \in [Tests -> Expectations] /\ Expected0 \in [Variants -> [Tests -> Expectations]]
              /\ Pair0 \in [Variants -> Pairs \cup {NoPair}] /\ Target0 \in [Variants -> SUBSET Tests]

\* The declarations keep their form, and what was accepted still passes.
Shape == /\ red \in [Tests -> Expectations] /\ expected \in [Variants -> [Tests -> Expectations]]
         /\ pair \in [Variants -> Pairs \cup {NoPair}] /\ target \in [Variants -> SUBSET Tests]
Inv == Shape /\ (accepted => ManifestHolds)
=============================================================================
