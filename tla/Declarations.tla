---------------------------- MODULE Declarations ----------------------------
(* The authored controls of test assurance (internal/tdd, manifest.go): the  *)
(* plan and the milestone manifests of a design and of its child, the        *)
(* inventory derived from the design payload, and the reviews that bind each *)
(* control to its bytes and to the payload.  Authors edit and review in any  *)
(* order; Validate accepts what LoadPlan, LoadManifest and Validate let pass.*)
EXTENDS Integers, FiniteSets

CONSTANTS Manifests,     \* manifests that may be written
          DesignOf,      \* DesignOf[m]: the design whose control it is
          MilestoneOf,   \* MilestoneOf[m]: its milestone id
          Root,          \* the design of the plan
          Keys,          \* obligation keys [design, kind, id]
          Categories,    \* the runtime categories
          Tests,         \* tests the manifests declare: Tests[m]
          MaxEdits

Controls == Manifests \cup {"plan"}
Designs == {DesignOf[m] : m \in Manifests}
Own == {m \in Manifests : DesignOf[m] = Root}
Dispositions == {"absent", "test", "not-applicable", "unverified"}
Rows == [key : Keys, tests : {{}} \cup {{t} : t \in UNION {Tests[m] : m \in Manifests}}]
Leaves == UNION {Tests[m] : m \in Manifests}

VARIABLES there,      \* the manifests that were written
          obls,       \* obls[m]: its obligation rows, a key and the tests named for it
          planned,    \* milestones that the plan declares
          answers,    \* answers[c]: disposition and mapped tests of a category
          current,    \* milestones of the inventory
          owed,       \* obligation keys of the inventory
          payload,    \* payload[d]: generation of the payload of a design
          review,     \* review[c]: what the reviewer of c saw
          seen,       \* seen[m]: rows and payload that the reviewer of m had before him
          edits, accepted
vars == <<there, obls, planned, answers, current, owed, payload, review, seen, edits, accepted>>


----------------------------------------------------------------------------
(* Reviews.                                                                 *)

\* Mutant of ReviewProjectionManifest: the keys of the obligations are left out.
ReviewProjectionManifestRefs(m) == {[key |-> CHOOSE k \in Keys : TRUE, tests |-> o.tests] : o \in obls[m]}

ReviewProjectionManifest(m) == obls[m]

ReviewProjectionPlan == <<planned, answers>>

DesignOfControl(c) == IF c = "plan" THEN Root ELSE DesignOf[c]
Projection(c) == IF c = "plan" THEN ReviewProjectionPlan ELSE ReviewProjectionManifest(c)
\* Mutant of ReviewSubjectDigest: the payload digest is left out.
ReviewSubjectDigestControl(c) == [c |-> Projection(c), payload |-> -1]

ReviewSubjectDigest(c) == [c |-> Projection(c), payload |-> payload[DesignOfControl(c)]]
Loadable(c) == review[c] = ReviewSubjectDigest(c)

----------------------------------------------------------------------------
(* Finalized reconciliation.                                                *)

declared == {MilestoneOf[m] : m \in Own \cap there}
refs(m) == UNION {o.tests : o \in obls[m]}
Resolved == UNION {Tests[m] : m \in there}

\* Mutant of RefsResolve: the plan's own references are not followed.
RefsResolveManifests == \A m \in there : refs(m) \subseteq Resolved

RefsResolve == /\ \A m \in there : refs(m) \subseteq Resolved
               /\ \A c \in Categories : answers[c].tests \subseteq Resolved

PlanMatches == planned = declared

\* Mutant of MilestonesCurrent: the plan decides what is current.
MilestonesCurrentPlanned == declared \subseteq planned

MilestonesCurrent == declared \subseteq current

\* Mutant of Mapped: short ids are compared.
MappedShort == {k \in Keys : \E m \in there : \E o \in obls[m] : o.key.id = k.id /\ o.key.kind = k.kind}

Mapped == {k \in Keys : \E m \in there : (\E o \in obls[m] : o.key = k) /\ k.design = DesignOf[m]}

ObligationsReconcile ==
    /\ \A m \in there : \A o \in obls[m] : o.key.design = DesignOf[m]
    /\ {k \in owed : k.kind # "runtime"} \subseteq Mapped
    /\ \A m \in Own \cap there : \A o \in obls[m] : o.key \in owed

\* Mutant of RuntimeAnswered: only what is there is looked at.
RuntimeAnsweredPresent == \A c \in Categories :
    answers[c].as = "test" => answers[c].tests # {}

RuntimeAnswered == \A c \in Categories :
    /\ answers[c].as \notin {"absent", "unverified"}
    /\ answers[c].as = "test" => answers[c].tests # {}

edges == {e \in Designs \X Designs : e[1] # e[2] /\ \E m \in there, n \in Manifests :
             DesignOf[m] = e[1] /\ DesignOf[n] = e[2] /\ refs(m) \cap Tests[n] # {}}

\* The designs that visit(d) comes to: those in every set that holds what d
\* refers to and what its own members refer to.
Visited(d) == {x \in Designs : \A S \in SUBSET Designs :
                 (\A e \in edges : e[1] \in S \cup {d} => e[2] \in S) => x \in S}

\* Mutant of Acyclic: a design that refers to itself.
AcyclicSelf == \A d \in Designs : <<d, d>> \notin edges

Acyclic == \A d \in Designs : d \notin Visited(d)

ValidationHolds == RefsResolve /\ PlanMatches /\ MilestonesCurrent /\ ObligationsReconcile
                   /\ RuntimeAnswered /\ Acyclic

----------------------------------------------------------------------------
(* Authors.                                                                 *)

Edit == ~accepted /\ edits < MaxEdits /\ edits' = edits + 1 /\ UNCHANGED <<accepted, review, seen>>
Flip(S, x) == IF x \in S THEN S \ {x} ELSE S \cup {x}

WriteManifest(m) == Edit /\ there' = Flip(there, m)
    /\ UNCHANGED <<obls, planned, answers, current, owed, payload>>
\* One row per key (decodeManifest): a row is written, replaced or removed.
MapKey(m, o) == Edit /\ obls' = [obls EXCEPT ![m] = IF o \in @ THEN @ \ {o} ELSE {p \in @ : p.key # o.key} \cup {o}]
    /\ UNCHANGED <<there, planned, answers, current, owed, payload>>
Plan(id) == Edit /\ planned' = Flip(planned, id)
    /\ UNCHANGED <<there, obls, answers, current, owed, payload>>
Answer(c, as, ts) == Edit /\ answers' = [answers EXCEPT ![c] = [as |-> as, tests |-> ts]]
    /\ UNCHANGED <<there, obls, planned, current, owed, payload>>
\* An edit of the design: a BUILD milestone or an obligation comes or goes.
Redesign(id, k) == Edit /\ payload' = [payload EXCEPT ![k.design] = @ + 1]
    /\ \/ k.design = Root /\ current' = Flip(current, id) /\ UNCHANGED owed
       \/ owed' = Flip(owed, k) /\ UNCHANGED current
    /\ UNCHANGED <<there, obls, planned, answers>>

Before(c) == [rows |-> IF c = "plan" THEN {} ELSE obls[c], payload |-> payload[DesignOfControl(c)]]
\* A reviewer looks at a control as it is and writes its digest into it.
GiveReview(c) == /\ ~accepted /\ review[c] # ReviewSubjectDigest(c)
             /\ review' = [review EXCEPT ![c] = ReviewSubjectDigest(c)]
             /\ seen' = [seen EXCEPT ![c] = Before(c)]
             /\ UNCHANGED <<there, obls, planned, answers, current, owed, payload, edits, accepted>>

Validate == /\ ~accepted /\ \A c \in there \cup {"plan"} : Loadable(c)
            /\ ValidationHolds /\ accepted' = TRUE
            /\ UNCHANGED <<there, obls, planned, answers, current, owed, payload, review, seen, edits>>

\* A design whose controls are complete and reviewed.
Init == /\ there = Manifests /\ owed = {k \in Keys : k.design = Root}
        /\ obls = [m \in Manifests |-> {o \in Rows : o.key.design = DesignOf[m]
                                       /\ o.key.kind # "runtime" /\ o.tests = Tests[m]}]
        /\ planned = {MilestoneOf[m] : m \in Own} /\ current = planned
        /\ answers = [c \in Categories |-> [as |-> "not-applicable", tests |-> {}]]
        /\ payload = [d \in Designs |-> 0] /\ edits = 0 /\ accepted = FALSE
        /\ review = [c \in Controls |-> ReviewSubjectDigest(c)] /\ seen = [c \in Controls |-> Before(c)]

Ids == {MilestoneOf[m] : m \in Manifests}
Next == \/ \E m \in Manifests : WriteManifest(m)
        \/ \E m \in Manifests, o \in Rows : MapKey(m, o)
        \/ \E id \in Ids : Plan(id)
        \/ \E c \in Categories, as \in Dispositions, ts \in {{}} \cup {{t} : t \in Leaves} : Answer(c, as, ts)
        \/ \E id \in Ids, k \in Keys : Redesign(id, k)
        \/ \E c \in Controls : GiveReview(c)
        \/ Validate
Spec == Init /\ [][Next]_vars

----------------------------------------------------------------------------
(* Properties.                                                              *)

TypeOK == /\ there \subseteq Manifests /\ obls \in [Manifests -> SUBSET Rows] /\ owed \subseteq Keys /\ payload \in [Designs -> 0..MaxEdits]
          /\ \A c \in Controls : review[c].payload \in 0..MaxEdits

\* What was accepted is what was reviewed: every control that counts was looked
\* at over these obligations and this payload.
ReviewedAsIs == accepted => \A c \in there \cup {"plan"} : seen[c] = Before(c)

\* Every obligation of the design is the business of a milestone that the design
\* still has, under its own design: neither a deleted milestone nor a child that
\* happens to use the same id covers it.
NothingUnowned == accepted => \A k \in owed : k.kind # "runtime" =>
    \E m \in there : (\E o \in obls[m] : o.key = k) /\ DesignOf[m] = k.design /\ (k.design = Root => MilestoneOf[m] \in current)

\* Accepted declarations can be carried out: each runtime category has an answer
\* and every test that the plan or a manifest relies on is declared by a manifest.
Answerable == accepted =>
    /\ \A c \in Categories : answers[c].as \in {"test", "not-applicable"}
    /\ \A c \in Categories : \A t \in answers[c].tests : \E m \in there : t \in Tests[m]

\* There is an order in which the designs can be verified: among any of them
\* there is one whose manifests refer to no test of the others.
Orderable == accepted => \A D \in SUBSET Designs : D # {} =>
    \E d \in D : \A m \in there, n \in Manifests :
       DesignOf[m] = d /\ DesignOf[n] \in D \ {d} => refs(m) \cap Tests[n] = {}

\* What docs/test-assurance-contract.md asks: a clause that the design owes is
\* exercised by a test.
Exercised == accepted => \A k \in owed : k.kind # "runtime" =>
    \E m \in there : \E o \in obls[m] : o.key = k /\ o.tests # {}

(* Why accepted declarations hold: an inductive invariant.                  *)

\* What the constants are assumed to be: finitely many manifests, and the plan
\* is not one of them.
WellFormed == IsFiniteSet(Manifests) /\ "plan" \notin Manifests

\* A review holds what its reviewer saw.
Bound == /\ review = [c \in Controls |-> review[c]] /\ seen = [c \in Controls |-> seen[c]]
         /\ \A c \in Controls : /\ review[c].payload = seen[c].payload
                               /\ seen[c] = [rows |-> seen[c].rows, payload |-> seen[c].payload]
         /\ \A m \in Manifests : review[m].c = seen[m].rows
         /\ seen["plan"].rows = {}
Shape == there \subseteq Manifests /\ answers \in [Categories -> [as : Dispositions, tests : SUBSET Leaves]]

\* What was accepted still passes: every edit takes the acceptance back.
Passed == accepted => ValidationHolds /\ \A c \in there \cup {"plan"} : Loadable(c)
Inv == Bound /\ Shape /\ Passed
=============================================================================
