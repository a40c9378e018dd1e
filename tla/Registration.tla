---------------------------- MODULE Registration ----------------------------
(***************************************************************************)
(* What one registration does to the head document: assuranceflow.Register *)
(* with ValidateRegistrationGraph and BuildRegistrationSuccessor.  The     *)
(* store transaction that makes the step atomic is module AssuranceStore;  *)
(* here a step replaces the committed head by the successor derived from   *)
(* it, and a rejected registration is a step that is not enabled.          *)
(*                                                                         *)
(* Bytes are abstracted to what the rules compare.  A manifest's digest is *)
(* its revision and text; a plan is its own digest.  What authors do to    *)
(* their checkout between registrations is unconstrained, so the files a   *)
(* registration finds are chosen freely in the step.                       *)
(***************************************************************************)
EXTENDS Naturals

CONSTANTS
    Designs, Milestones,  \* names
    PlanTexts, Texts,     \* authored contents of plans and manifests
    MaxRevision,          \* bound on manifest revisions
    None                  \* absent entry, null predecessor, no reference

Keys == Designs \X Milestones
Revisions == 1..MaxRevision
Digests == Revisions \X Texts
Plans == [text : PlanTexts, declared : SUBSET Milestones]

\* A finalized manifest: its revision, content, predecessor digest and the
\* milestone of the one test it refers to.
Manifests == [revision : Revisions, text : Texts,
              predecessor : Digests \cup {None}, ref : Keys \cup {None}]

Digest(m) == <<m.revision, m.text>>

\* The bound is one, and None is none of the values it stands in for.
Meaningful == /\ MaxRevision \in Nat \ {0}
              /\ None \notin Keys /\ None \notin Digests
              /\ None \notin Plans /\ None \notin Manifests

VARIABLES
    plans,       \* head.plans: design -> plan, or None
    milestones,  \* head.milestones: key -> manifest, or None
    history      \* every <<key, digest>> a committed head has ever named

vars == <<plans, milestones, history>>

Registered(d) == {m \in Milestones : milestones[<<d, m>>] # None}

---------------------------------------------------------------------------
\* Mutant of ValidGraph: targets need not be declared by the plan.
ValidGraphUndeclared(d, plan, targets) ==
    /\ DOMAIN targets # {}
    /\ \A m \in DOMAIN targets :
          targets[m].ref \in {None} \cup {<<d, n>> : n \in DOMAIN targets}
                                  \cup {k \in Keys : milestones[k] # None}

\* ValidateRegistrationGraph: the targets are declared and every referenced
\* test belongs to a target or to a registered manifest.
ValidGraph(d, plan, targets) ==
    /\ DOMAIN targets # {}
    /\ DOMAIN targets \subseteq plan.declared
    /\ \A m \in DOMAIN targets :
          targets[m].ref \in {None} \cup {<<d, n>> : n \in DOMAIN targets}
                                  \cup {k \in Keys : milestones[k] # None}

\* Mutant of ValidTargets: the predecessor digest is not compared.
ValidTargetsAnyPredecessor(d, m) ==
    LET prior == milestones[<<d, m>>] IN
    {manifest \in Manifests :
        manifest.revision = IF prior = None THEN 1 ELSE prior.revision + 1}

\* Lineage of one target against the head: first revision 1 with a null
\* predecessor, otherwise the next revision naming the registered bytes.
ValidTargets(d, m) ==
    LET prior == milestones[<<d, m>>] IN
    {manifest \in Manifests :
        IF prior = None
        THEN manifest.revision = 1 /\ manifest.predecessor = None
        ELSE /\ manifest.revision = prior.revision + 1
             /\ manifest.predecessor = Digest(prior)}

\* Registered milestones that are not targets must still be declared, and a
\* changed plan needs all of them as targets.  (Their files must be the
\* registered bytes: otherwise the registration is rejected.)
ValidUntargeted(d, plan, targets) ==
    \A m \in Registered(d) \ DOMAIN targets :
        m \in plan.declared /\ plans[d] = plan

\* Mutant of NextMilestones: entries are matched by milestone name alone.
NextMilestonesByName(d, targets) ==
    [k \in Keys |-> IF k[2] \in DOMAIN targets THEN targets[k[2]]
                                              ELSE milestones[k]]

\* Mutant of NextMilestones: the entry is stored with a zero-based revision.
NextMilestonesZeroBased(d, targets) ==
    [k \in Keys |-> IF k[1] = d /\ k[2] \in DOMAIN targets
                    THEN [targets[k[2]] EXCEPT !.revision = @ - 1]
                    ELSE milestones[k]]

\* The milestone entries of the successor: those of other designs, and the
\* targets of this one.
NextMilestones(d, targets) ==
    [k \in Keys |->
        IF k[1] # d THEN milestones[k]
        ELSE IF k[2] \in DOMAIN targets THEN targets[k[2]]
        ELSE None]

\* Register one design: the plan file and the selected manifest files are
\* whatever the checkout holds.
Register(d) ==
    \E selection \in (SUBSET Milestones) \ {{}} :
    \E targets \in [selection -> UNION {ValidTargets(d, m) : m \in selection}] :
        /\ \A m \in selection : targets[m] \in ValidTargets(d, m)
        /\ \E plan \in Plans :
           /\ ValidGraph(d, plan, targets)
           /\ ValidUntargeted(d, plan, targets)
           /\ plans' = [plans EXCEPT ![d] = plan]
           /\ milestones' = NextMilestones(d, targets)
           /\ history' = history \cup
                 {<<<<d, m>>, Digest(targets[m])>> : m \in selection}

\* The generation-zero head is empty.
Init ==
    /\ plans = [d \in Designs |-> None]
    /\ milestones = [k \in Keys |-> None]
    /\ history = {}

Next == \E d \in Designs : Register(d)

Spec == Init /\ [][Next]_vars

---------------------------------------------------------------------------
TypeOK ==
    /\ plans \in [Designs -> Plans \cup {None}]
    /\ milestones \in [Keys -> Manifests \cup {None}]
    /\ history \subseteq Keys \X Digests

\* Every revision after the first descends from a manifest of the same key
\* that was registered at the revision before it: lineage has no gaps.
LineageUnbroken ==
    \A k \in Keys :
        milestones[k] # None /\ milestones[k].revision > 1 =>
            /\ milestones[k].predecessor # None
            /\ milestones[k].predecessor[1] = milestones[k].revision - 1
            /\ <<k, milestones[k].predecessor>> \in history

\* What the head registers for a design is declared by the plan the same
\* head registers for it.
RegisteredDeclared ==
    \A d \in Designs : Registered(d) # {} =>
        plans[d] # None /\ Registered(d) \subseteq plans[d].declared

\* A registration of one design leaves the entries of every other design,
\* whose checkout it never loads, as they were.
OtherDesignsUntouched ==
    [][\E d \in Designs :
        /\ \A e \in Designs \ {d} : plans'[e] = plans[e]
        /\ \A k \in Keys : k[1] # d => milestones'[k] = milestones[k]]_vars

\* Unchanged untargeted entries remain in the next head: no registration
\* removes a milestone another one registered.
RegisteredStay ==
    [][\A k \in Keys : milestones[k] # None => milestones'[k] # None]_vars

\* A key and a revision name one manifest for ever: a number that was
\* consumed is never reused for different bytes.
RevisionNamesOneManifest ==
    \A k \in Keys, x, y \in Digests :
        <<k, x>> \in history /\ <<k, y>> \in history /\ x[1] = y[1] => x = y

=============================================================================
