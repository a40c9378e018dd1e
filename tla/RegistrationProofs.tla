------------------------- MODULE RegistrationProofs -------------------------
(***************************************************************************)
(* Lineage of registered manifests, for any designs, milestones, contents  *)
(* and revision bound.                                                     *)
(***************************************************************************)
EXTENDS Registration, TLAPS

\* What the head names has been registered: LineageUnbroken alone is not
\* inductive, because the predecessor of the next revision is the entry the
\* head holds now.
CurrentInHistory ==
    \A k \in Keys : milestones[k] # None => <<k, Digest(milestones[k])>> \in history

\* One registration, with its inputs named.
Step(d, plan, selection, targets) ==
    /\ \A m \in selection : targets[m] \in ValidTargets(d, m)
    /\ ValidGraph(d, plan, targets)
    /\ ValidUntargeted(d, plan, targets)
    /\ plans' = [plans EXCEPT ![d] = plan]
    /\ milestones' = NextMilestones(d, targets)
    /\ history' = history \cup
          {<<<<d, m>>, Digest(targets[m])>> : m \in selection}

LEMMA NextStep ==
  ASSUME Next
  PROVE  \E d \in Designs, plan \in Plans, selection \in SUBSET Milestones :
         \E targets \in [selection -> Manifests] : Step(d, plan, selection, targets)
<1>1. PICK d \in Designs, selection \in (SUBSET Milestones) \ {{}} :
        \E targets \in [selection -> UNION {ValidTargets(d, m) : m \in selection}] :
        \E plan \in Plans : Step(d, plan, selection, targets)
  <2>1. PICK d \in Designs : Register(d)
    BY DEF Next
  <2>2. PICK selection \in (SUBSET Milestones) \ {{}} :
          \E targets \in [selection -> UNION {ValidTargets(d, m) : m \in selection}] :
          \E plan \in Plans : Step(d, plan, selection, targets)
    BY <2>1 DEF Register, Step
  <2> QED BY <2>2
<1>2. PICK targets \in [selection -> UNION {ValidTargets(d, m) : m \in selection}] :
        \E plan \in Plans : Step(d, plan, selection, targets)
  BY <1>1
<1>3. \A m \in selection : targets[m] \in Manifests
  BY <1>2 DEF Step, ValidTargets
<1>4. targets \in [selection -> Manifests]
  BY <1>2, <1>3
<1> QED BY <1>2, <1>4

\* The digest of a manifest is a digest, and it starts with the revision.
LEMMA DigestType ==
  ASSUME NEW m \in Manifests
  PROVE  Digest(m) \in Digests /\ Digest(m)[1] = m.revision
  BY DEF Manifests, Digests, Digest

\* The type invariant: the head keeps its shape through any registration.
THEOREM TypeCorrect == Spec => []TypeOK
<1>1. Init => TypeOK
  BY DEF Init, TypeOK
<1>2. TypeOK /\ [Next]_vars => TypeOK'
  <2> SUFFICES ASSUME TypeOK, Next PROVE TypeOK'
    BY DEF TypeOK, vars
  <2>1. PICK d \in Designs, plan \in Plans, selection \in SUBSET Milestones :
          \E targets \in [selection -> Manifests] : Step(d, plan, selection, targets)
    BY NextStep
  <2>2. PICK targets \in [selection -> Manifests] : Step(d, plan, selection, targets)
    BY <2>1
  <2>3. plans' \in [Designs -> Plans \cup {None}]
    BY <2>2 DEF Step, TypeOK
  <2>4. milestones' \in [Keys -> Manifests \cup {None}]
    BY <2>2 DEF Step, TypeOK, NextMilestones
  <2>5. \A m \in selection : <<<<d, m>>, Digest(targets[m])>> \in Keys \X Digests
    BY <2>2, DigestType DEF Keys
  <2>6. history' \subseteq Keys \X Digests
    BY <2>2, <2>5 DEF Step, TypeOK
  <2> QED BY <2>3, <2>4, <2>6 DEF TypeOK
<1> QED BY <1>1, <1>2, PTL DEF Spec

\* Lineage has no gaps: BuildRegistrationSuccessor's revision and predecessor
\* comparison, over any sequence of registrations, only ever registers a
\* revision whose predecessor was registered one revision before.
THEOREM LineageHolds == ASSUME Meaningful PROVE Spec => []LineageUnbroken
<1> DEFINE IInv == TypeOK /\ CurrentInHistory /\ LineageUnbroken
<1>1. Init => CurrentInHistory /\ LineageUnbroken
  BY DEF Init, CurrentInHistory, LineageUnbroken
<1>2. ASSUME IInv, Next PROVE (CurrentInHistory /\ LineageUnbroken)'
  <2>1. PICK d \in Designs, plan \in Plans, selection \in SUBSET Milestones :
          \E targets \in [selection -> Manifests] : Step(d, plan, selection, targets)
    BY <1>2, NextStep
  <2>2. PICK targets \in [selection -> Manifests] : Step(d, plan, selection, targets)
    BY <2>1
  <2>3. DOMAIN targets = selection
    OBVIOUS
  <2>4. ASSUME NEW k \in Keys, milestones'[k] # None
        PROVE  /\ <<k, Digest(milestones'[k])>> \in history'
               /\ milestones'[k].revision > 1 =>
                    /\ milestones'[k].predecessor # None
                    /\ milestones'[k].predecessor[1] = milestones'[k].revision - 1
                    /\ <<k, milestones'[k].predecessor>> \in history'
    <3>1. history \subseteq history'
      BY <2>2 DEF Step
    <3>2. CASE k[1] # d
      <4>1. milestones'[k] = milestones[k]
        BY <2>2, <3>2 DEF Step, NextMilestones
      <4> QED BY <1>2, <2>4, <3>1, <4>1 DEF CurrentInHistory, LineageUnbroken
    <3>3. CASE k[1] = d
      <4>1. k[2] \in selection /\ k = <<d, k[2]>> /\ milestones'[k] = targets[k[2]]
        BY <2>2, <2>3, <2>4, <3>3 DEF Step, NextMilestones, Keys
      <4> DEFINE t == targets[k[2]]
      <4>2. <<k, Digest(t)>> \in history'
        BY <2>2, <4>1 DEF Step
      <4>3. t \in ValidTargets(d, k[2]) /\ t \in Manifests
        BY <2>2, <4>1 DEF Step
      <4>4. CASE milestones[k] = None
        <5>1. t.revision = 1
          BY <4>1, <4>3, <4>4 DEF ValidTargets
        <5> QED BY <4>1, <4>2, <5>1
      <4>5. CASE milestones[k] # None
        <5>1. /\ t.revision = milestones[k].revision + 1
              /\ t.predecessor = Digest(milestones[k])
          BY <4>1, <4>3, <4>5 DEF ValidTargets
        <5>2. milestones[k] \in Manifests /\ milestones[k].revision \in Nat
          BY <1>2, <4>5 DEF TypeOK, Manifests, Revisions
        <5>3. Digest(milestones[k]) \in Digests
              /\ Digest(milestones[k])[1] = milestones[k].revision
          BY <5>2, DigestType
        <5>4. <<k, Digest(milestones[k])>> \in history'
          BY <1>2, <3>1, <4>5 DEF CurrentInHistory
        <5> QED BY <4>1, <4>2, <5>1, <5>2, <5>3, <5>4 DEF Meaningful
      <4> QED BY <4>4, <4>5
    <3> QED BY <3>2, <3>3
  <2> QED BY <2>4 DEF CurrentInHistory, LineageUnbroken
<1>3. IInv /\ [Next]_vars => (CurrentInHistory /\ LineageUnbroken)'
  BY <1>2 DEF vars, CurrentInHistory, LineageUnbroken
<1> QED BY <1>1, <1>3, TypeCorrect, PTL DEF Spec

-----------------------------------------------------------------------------
(* The plan and the entries of one head belong together.                   *)

\* ValidateRegistrationGraph and the rule about untargeted milestones are the
\* only two places that compare a head with a plan; together they keep every
\* registered milestone declared by the plan registered beside it, through any
\* replacement of the plan.
THEOREM DeclaredHolds == ASSUME Meaningful PROVE Spec => []RegisteredDeclared
<1>1. Init => RegisteredDeclared
  BY DEF Init, RegisteredDeclared, Registered, Keys
<1>2. ASSUME TypeOK, RegisteredDeclared, Next PROVE RegisteredDeclared'
  <2>1. PICK d \in Designs, plan \in Plans, selection \in SUBSET Milestones :
          \E targets \in [selection -> Manifests] : Step(d, plan, selection, targets)
    BY <1>2, NextStep
  <2>2. PICK targets \in [selection -> Manifests] : Step(d, plan, selection, targets)
    BY <2>1
  <2>3. DOMAIN targets = selection
    OBVIOUS
  <2>4. \A e \in Designs, m \in Milestones : <<e, m>> \in Keys
    BY DEF Keys
  <2>5. ASSUME NEW e \in Designs, NEW m \in Milestones, milestones'[<<e, m>>] # None
        PROVE  plans'[e] # None /\ m \in plans'[e].declared
    <3>1. CASE e = d
      <4>1. m \in selection
        BY <2>2, <2>3, <2>4, <2>5, <3>1 DEF Step, NextMilestones
      <4>2. selection \subseteq plan.declared
        BY <2>2, <2>3 DEF Step, ValidGraph
      <4>3. plans'[e] = plan
        BY <1>2, <2>2, <3>1 DEF Step, TypeOK
      <4> QED BY <4>1, <4>2, <4>3 DEF Meaningful
    <3>2. CASE e # d
      <4>1. milestones'[<<e, m>>] = milestones[<<e, m>>]
        BY <2>2, <2>4, <3>2 DEF Step, NextMilestones
      <4>2. plans'[e] = plans[e]
        BY <1>2, <2>2, <3>2 DEF Step, TypeOK
      <4> QED BY <1>2, <2>5, <4>1, <4>2 DEF RegisteredDeclared, Registered
    <3> QED BY <3>1, <3>2
  <2> QED BY <2>5 DEF RegisteredDeclared, Registered
<1>3. TypeOK /\ RegisteredDeclared /\ [Next]_vars => RegisteredDeclared'
  BY <1>2 DEF vars, RegisteredDeclared, Registered
<1> QED BY <1>1, <1>3, TypeCorrect, PTL DEF Spec

-----------------------------------------------------------------------------
(* What a registration may not touch.                                      *)

\* BuildRegistrationSuccessor copies the entries of every other design: one
\* registration changes one design.
THEOREM OneDesignAtATime == Spec => OtherDesignsUntouched
<1> DEFINE Untouched ==
      \E d \in Designs :
        /\ \A e \in Designs \ {d} : plans'[e] = plans[e]
        /\ \A k \in Keys : k[1] # d => milestones'[k] = milestones[k]
<1>1. ASSUME TypeOK, Next PROVE Untouched
  <2>1. PICK d \in Designs, plan \in Plans, selection \in SUBSET Milestones :
          \E targets \in [selection -> Manifests] : Step(d, plan, selection, targets)
    BY <1>1, NextStep
  <2>2. PICK targets \in [selection -> Manifests] : Step(d, plan, selection, targets)
    BY <2>1
  <2>3. \A e \in Designs \ {d} : plans'[e] = plans[e]
    BY <1>1, <2>2 DEF Step, TypeOK
  <2>4. \A k \in Keys : k[1] # d => milestones'[k] = milestones[k]
    BY <2>2 DEF Step, NextMilestones
  <2> QED BY <2>3, <2>4
<1>2. TypeOK /\ [Next]_vars => [Untouched]_vars
  BY <1>1
<1> QED BY <1>2, TypeCorrect, PTL DEF Spec, OtherDesignsUntouched

=============================================================================
