------------------------ MODULE AssuranceStoreProofs ------------------------
(***************************************************************************)
(* Theorems about the assurance store, for any number of registrars,       *)
(* registrations and generations.                                          *)
(***************************************************************************)
EXTENDS AssuranceStore, TLAPS

\* The next-state relation one process step or environment step at a time.
LEMMA NextCases ==
  ASSUME [Next]_vars
  PROVE  \/ \E p \in Procs :
              \/ Start(p) \/ ReadHead(p) \/ Validate(p)
              \/ MakeStaging(p) \/ Timeout(p) \/ MakeToken(p) \/ TakeOver(p)
              \/ WriteOwner(p) \/ Compare(p) \/ PublishControls(p)
              \/ Stage(p) \/ Revalidate(p) \/ Archive(p) \/ SyncHeads(p)
              \/ Recheck(p) \/ Advance(p) \/ Verify(p)
              \/ Sweep(p) \/ DropToken(p) \/ RemoveStaging(p)
              \/ AcquireFails(p) \/ ReleaseFails(p) \/ Crash(p)
         \/ \E u \in Updates : Retain(u)
         \/ ExpireLease
         \/ UNCHANGED vars
  BY DEF Next, Step, Acquire, Transact, Release, Fault

\* The generation-zero head is a head.
LEMMA EmptyHead == <<>> \in Seq(Updates)
  OBVIOUS

-----------------------------------------------------------------------------
(* Type correctness: no step of any registrar, however the leases expire,  *)
(* leaves the states TypeOK describes.                                     *)
THEOREM TypeCorrect == Spec => []TypeOK
<1> USE DEF TypeOK, Heads, Labels, Outcomes
<1>1. Init => TypeOK
  BY EmptyHead DEF Init
<1>2. TypeOK /\ [Next]_vars => TypeOK'
  <2> SUFFICES ASSUME TypeOK, [Next]_vars PROVE TypeOK'
    OBVIOUS
  <2>1. ASSUME NEW p \in Procs, Start(p) PROVE TypeOK'
    BY <2>1 DEF Start, Goto, storeVars, lockVars
  <2>2. ASSUME NEW p \in Procs, ReadHead(p) PROVE TypeOK'
    BY <2>2 DEF ReadHead, Goto, storeVars, lockVars, reqVars
  <2>3. ASSUME NEW p \in Procs, Validate(p) PROVE TypeOK'
    BY <2>3, EmptyHead DEF Validate, Goto, Return, storeVars, lockVars, reqVars
  <2>4. ASSUME NEW p \in Procs, MakeStaging(p) PROVE TypeOK'
    BY <2>4 DEF MakeStaging, Goto, storeVars, reqVars
  <2>5. ASSUME NEW p \in Procs, Timeout(p) PROVE TypeOK'
    BY <2>5 DEF Timeout, Return, Goto, storeVars, lockVars, reqVars
  <2>6. ASSUME NEW p \in Procs, MakeToken(p) PROVE TypeOK'
    BY <2>6 DEF MakeToken, Goto, storeVars, reqVars
  <2>7. ASSUME NEW p \in Procs, TakeOver(p) PROVE TypeOK'
    BY <2>7 DEF TakeOver, Goto, storeVars, reqVars
  <2>8. ASSUME NEW p \in Procs, WriteOwner(p) PROVE TypeOK'
    BY <2>8 DEF WriteOwner, Goto, Return, storeVars, reqVars
  <2>9. ASSUME NEW p \in Procs, Compare(p) PROVE TypeOK'
    BY <2>9 DEF Compare, Goto, Leave, storeVars, lockVars, reqVars
  <2>10. ASSUME NEW p \in Procs, PublishControls(p) PROVE TypeOK'
    <3>1. UpdateOf(successor[p]) \in retained => UpdateOf(successor[p]) \in Updates
      OBVIOUS
    <3> QED BY <2>10, <3>1 DEF PublishControls, Goto, Leave, lockVars, reqVars
  <2>11. ASSUME NEW p \in Procs, Stage(p) PROVE TypeOK'
    BY <2>11 DEF Stage, Goto, Leave, storeVars, reqVars
  <2>12. ASSUME NEW p \in Procs, Revalidate(p) PROVE TypeOK'
    BY <2>12 DEF Revalidate, Goto, Leave, storeVars, reqVars
  <2>13. ASSUME NEW p \in Procs, Archive(p) PROVE TypeOK'
    <3>1. archived' \subseteq Heads /\ unsynced' \subseteq archived'
      <4>1. successor[p] \in Seq(Updates)
        OBVIOUS
      <4> QED BY <2>13, <4>1 DEF Archive
    <3>2. pc' \in [Procs -> Labels]
      BY <2>13 DEF Archive, Goto
    <3> QED BY <2>13, <3>1, <3>2 DEF Archive, lockVars, reqVars
  <2>14. ASSUME NEW p \in Procs, SyncHeads(p) PROVE TypeOK'
    BY <2>14 DEF SyncHeads, Goto, Leave, reqVars
  <2>15. ASSUME NEW p \in Procs, Recheck(p) PROVE TypeOK'
    BY <2>15 DEF Recheck, Goto, Leave, reqVars
  <2>16. ASSUME NEW p \in Procs, Advance(p) PROVE TypeOK'
    BY <2>16 DEF Advance, Goto, Leave, reqVars
  <2>17. ASSUME NEW p \in Procs, Verify(p) PROVE TypeOK'
    BY <2>17 DEF Verify, Leave, Goto, storeVars, lockVars, reqVars
  <2>18. ASSUME NEW p \in Procs, Sweep(p) PROVE TypeOK'
    BY <2>18 DEF Sweep, Goto, storeVars, reqVars
  <2>19. ASSUME NEW p \in Procs, DropToken(p) PROVE TypeOK'
    BY <2>19 DEF DropToken, Goto, storeVars, reqVars
  <2>20. ASSUME NEW p \in Procs, RemoveStaging(p) PROVE TypeOK'
    BY <2>20 DEF RemoveStaging, Goto, storeVars, reqVars
  <2>21. ASSUME NEW p \in Procs, Crash(p) PROVE TypeOK'
    BY <2>21 DEF Crash, storeVars, lockVars, reqVars
  <2>22. ASSUME NEW u \in Updates, Retain(u) PROVE TypeOK'
    BY <2>22 DEF Retain, lockVars, reqVars
  <2>23. ASSUME ExpireLease PROVE TypeOK'
    BY <2>23 DEF ExpireLease, storeVars, reqVars
  <2>24. ASSUME UNCHANGED vars PROVE TypeOK'
    BY <2>24 DEF vars, storeVars, lockVars, reqVars
  <2>25. ASSUME NEW p \in Procs, AcquireFails(p) PROVE TypeOK'
    BY <2>25 DEF AcquireFails, Return, Goto, storeVars, reqVars
  <2>26. ASSUME NEW p \in Procs, ReleaseFails(p) PROVE TypeOK'
    BY <2>26 DEF ReleaseFails, ReleaseError, Return, Goto, storeVars, reqVars
  <2> QED
    BY NextCases, <2>1, <2>2, <2>3, <2>4, <2>5, <2>6, <2>7, <2>8, <2>9, <2>10,
       <2>11, <2>12, <2>13, <2>14, <2>15, <2>16, <2>17, <2>18, <2>19, <2>20,
       <2>21, <2>22, <2>23, <2>24, <2>25, <2>26
<1> QED BY <1>1, <1>2, PTL DEF Spec

-----------------------------------------------------------------------------
(***************************************************************************)
(* Exclusion.  Nothing in the store checks who a token belongs to, so the  *)
(* argument needs the environment: either no token ever outlives its       *)
(* lease, or registrars do not race over one that did.                     *)
(***************************************************************************)
ExclusiveLease == LeaseExpiry = "never" \/ ~Races

\* The process has created a token and has not dropped it.
Owning(p) == pc[p] = "owner" \/ Holding(p)

LeaseInv ==
    /\ LeaseExpiry = "never" => ~expired /\ \A p \in Procs : pc[p] # "takeover"
    /\ ~Races /\ LeaseOver => RunsAlone

TokenInv == \A p \in Procs : Owning(p) => token = p

\* The lease and the token stay consistent in every step.
LEMMA TokenStep ==
  ASSUME ExclusiveLease, TypeOK, LeaseInv, TokenInv, [Next]_vars
  PROVE  LeaseInv' /\ TokenInv'
<1> USE DEF ExclusiveLease, LeaseInv, LeaseOver, RunsAlone, TokenInv, Owning,
            Holding, Running, Goto, Return, Leave
<1>0. /\ pc \in [Procs -> Labels] /\ expired \in BOOLEAN
      /\ None \notin Procs
  BY NoneAssumption DEF TypeOK
<1>1. ASSUME NEW p \in Procs, Start(p) PROVE LeaseInv' /\ TokenInv'
  BY <1>0, <1>1 DEF Start, lockVars
<1>2. ASSUME NEW p \in Procs, ReadHead(p) PROVE LeaseInv' /\ TokenInv'
  BY <1>0, <1>2 DEF ReadHead, lockVars
<1>3. ASSUME NEW p \in Procs, Validate(p) PROVE LeaseInv' /\ TokenInv'
  BY <1>0, <1>3 DEF Validate, lockVars
<1>4. ASSUME NEW p \in Procs, MakeStaging(p) PROVE LeaseInv' /\ TokenInv'
  BY <1>0, <1>4 DEF MakeStaging
<1>5. ASSUME NEW p \in Procs, Timeout(p) PROVE LeaseInv' /\ TokenInv'
  BY <1>0, <1>5 DEF Timeout, lockVars
<1>6. ASSUME NEW p \in Procs, MakeToken(p) PROVE LeaseInv' /\ TokenInv'
  BY <1>0, <1>6 DEF MakeToken
<1>7. ASSUME NEW p \in Procs, TakeOver(p) PROVE LeaseInv' /\ TokenInv'
  BY <1>0, <1>7 DEF TakeOver
<1>8. ASSUME NEW p \in Procs, WriteOwner(p) PROVE LeaseInv' /\ TokenInv'
  BY <1>0, <1>8 DEF WriteOwner
<1>9. ASSUME NEW p \in Procs, Compare(p) PROVE LeaseInv' /\ TokenInv'
  BY <1>0, <1>9 DEF Compare, lockVars
<1>10. ASSUME NEW p \in Procs, PublishControls(p) PROVE LeaseInv' /\ TokenInv'
  BY <1>0, <1>10 DEF PublishControls, lockVars
<1>11. ASSUME NEW p \in Procs, Stage(p) PROVE LeaseInv' /\ TokenInv'
  BY <1>0, <1>11 DEF Stage
<1>12. ASSUME NEW p \in Procs, Revalidate(p) PROVE LeaseInv' /\ TokenInv'
  BY <1>0, <1>12 DEF Revalidate
<1>13. ASSUME NEW p \in Procs, Archive(p) PROVE LeaseInv' /\ TokenInv'
  BY <1>0, <1>13 DEF Archive, lockVars
<1>14. ASSUME NEW p \in Procs, SyncHeads(p) PROVE LeaseInv' /\ TokenInv'
  BY <1>0, <1>14 DEF SyncHeads
<1>15. ASSUME NEW p \in Procs, Recheck(p) PROVE LeaseInv' /\ TokenInv'
  BY <1>0, <1>15 DEF Recheck
<1>16. ASSUME NEW p \in Procs, Advance(p) PROVE LeaseInv' /\ TokenInv'
  BY <1>0, <1>16 DEF Advance
<1>17. ASSUME NEW p \in Procs, Verify(p) PROVE LeaseInv' /\ TokenInv'
  BY <1>0, <1>17 DEF Verify, lockVars
<1>18. ASSUME NEW p \in Procs, Sweep(p) PROVE LeaseInv' /\ TokenInv'
  BY <1>0, <1>18 DEF Sweep
<1>19. ASSUME NEW p \in Procs, DropToken(p) PROVE LeaseInv' /\ TokenInv'
  BY <1>0, <1>19 DEF DropToken
<1>20. ASSUME NEW p \in Procs, RemoveStaging(p) PROVE LeaseInv' /\ TokenInv'
  BY <1>0, <1>20 DEF RemoveStaging
<1>21. ASSUME NEW p \in Procs, Crash(p) PROVE LeaseInv' /\ TokenInv'
  BY <1>0, <1>21 DEF Crash, lockVars
<1>22. ASSUME NEW u \in Updates, Retain(u) PROVE LeaseInv' /\ TokenInv'
  BY <1>22 DEF Retain, lockVars
<1>23. ASSUME ExpireLease PROVE LeaseInv' /\ TokenInv'
  BY <1>0, <1>23, LeaseAssumption DEF ExpireLease
<1>24. ASSUME UNCHANGED vars PROVE LeaseInv' /\ TokenInv'
  BY <1>24 DEF vars, lockVars
<1>25. ASSUME NEW p \in Procs, AcquireFails(p) PROVE LeaseInv' /\ TokenInv'
  BY <1>0, <1>25 DEF AcquireFails, storeVars, lockVars, reqVars
<1>26. ASSUME NEW p \in Procs, ReleaseFails(p) PROVE LeaseInv' /\ TokenInv'
  BY <1>0, <1>26 DEF ReleaseFails, ReleaseError, storeVars, lockVars, reqVars
<1> QED
  BY NextCases, <1>1, <1>2, <1>3, <1>4, <1>5, <1>6, <1>7, <1>8, <1>9, <1>10,
     <1>11, <1>12, <1>13, <1>14, <1>15, <1>16, <1>17, <1>18, <1>19, <1>20,
     <1>21, <1>22, <1>23, <1>24, <1>25, <1>26

LEMMA TokenInit == Init => LeaseInv /\ TokenInv
  BY DEF Init, LeaseInv, LeaseOver, TokenInv, Owning, Holding, Running

\* The token excludes: two processes inside the transaction are the same one.
LEMMA TokenExcludes ==
  ASSUME TypeOK, TokenInv, NEW p \in Procs, NEW q \in Procs, Owning(p), Owning(q)
  PROVE  p = q
  BY DEF TokenInv

\* acquireStoreWriter is a mutual exclusion: as long as leases do not expire,
\* or registrars do not race over one that did, at most one process is past it.
THEOREM WriterExclusive ==
  ASSUME ExclusiveLease
  PROVE  Spec => []MutualExclusion
<1>1. LeaseInv /\ TokenInv => MutualExclusion
  BY DEF TokenInv, MutualExclusion, Owning
<1>2. TypeOK /\ LeaseInv /\ TokenInv /\ [Next]_vars => (LeaseInv /\ TokenInv)'
  BY TokenStep
<1> QED BY <1>1, <1>2, TokenInit, TypeCorrect, PTL DEF Spec

-----------------------------------------------------------------------------
(* Facts about the chain of a head.                                        *)

LEMMA ChainSelf ==
  ASSUME NEW h \in Seq(Updates)
  PROVE  h \in Chain(h)
<1>1. SubSeq(h, 1, Len(h)) = h /\ Len(h) \in 0..Len(h)
  OBVIOUS
<1> QED BY <1>1 DEF Chain

LEMMA ChainLength ==
  ASSUME NEW h \in Seq(Updates), NEW s \in Chain(h)
  PROVE  Len(s) <= Len(h)
<1>1. PICK n \in 0..Len(h) : s = SubSeq(h, 1, n)
  BY DEF Chain
<1>2. Len(SubSeq(h, 1, n)) = n
  OBVIOUS
<1> QED BY <1>1, <1>2

\* A successor document: one generation more, and its previous is the head.
LEMMA SuccessorShape ==
  ASSUME NEW h \in Seq(Updates), NEW u \in Updates
  PROVE  /\ Append(h, u) \in Seq(Updates)
         /\ Len(Append(h, u)) = Len(h) + 1
         /\ SubSeq(Append(h, u), 1, Len(Append(h, u)) - 1) = h
  OBVIOUS

\* Appending a generation adds exactly the new document to the chain.
LEMMA ChainAppend ==
  ASSUME NEW h \in Seq(Updates), NEW u \in Updates
  PROVE  Chain(Append(h, u)) = Chain(h) \cup {Append(h, u)}
<1> DEFINE s == Append(h, u)
<1>1. s \in Seq(Updates) /\ Len(s) = Len(h) + 1 /\ Len(h) \in Nat
  OBVIOUS
<1>2. ASSUME NEW n \in 0..Len(h)
      PROVE  SubSeq(s, 1, n) = SubSeq(h, 1, n)
  OBVIOUS
<1>3. SubSeq(s, 1, Len(h) + 1) = s
  OBVIOUS
<1>4. 0..Len(s) = (0..Len(h)) \cup {Len(h) + 1}
  BY <1>1
<1> HIDE DEF s
<1>5. Chain(s) \subseteq Chain(h) \cup {s}
  BY <1>1, <1>2, <1>3, <1>4 DEF Chain
<1>6. Chain(h) \subseteq Chain(s)
  BY <1>1, <1>2, <1>4 DEF Chain
<1>7. s \in Chain(s)
  BY <1>1, <1>3, <1>4 DEF Chain
<1> QED BY <1>5, <1>6, <1>7 DEF s

-----------------------------------------------------------------------------
(***************************************************************************)
(* The history.  PhaseInv says what a writer may still rely on at each of  *)
(* its steps: from the first comparison to the rename the head is the      *)
(* expected one, head.next is its own successor, and that successor is     *)
(* archived before the second comparison.                                  *)
(***************************************************************************)
PhaseInv ==
    \A p \in Procs :
        /\ pc[p] \in {"controls", "stage", "revalidate", "archive",
                      "syncHeads", "recheck", "advance"} => head = expected[p]
        /\ pc[p] \in {"revalidate", "archive", "syncHeads", "recheck",
                      "advance"} => headNext = successor[p]
        /\ pc[p] \in {"syncHeads", "recheck", "advance"}
              => successor[p] \in archived
        /\ pc[p] = "verify" => head = successor[p]

\* A call that has been made asks for one generation more than it expects.
ShapeInv ==
    \A p \in Procs :
        pc[p] # "idle" \/ outcome[p] # "none"
            => \E u \in Updates : successor[p] = Append(expected[p], u)

\* The outcome is open until the call leaves through its release.
OutcomeInv ==
    \A p \in Procs :
        pc[p] \notin {"idle", "crashed", "sweep", "drop", "rmdir"}
            => outcome[p] = "none"

LEMMA ShapeStep ==
  ASSUME TypeOK, ShapeInv, OutcomeInv, [Next]_vars
  PROVE  ShapeInv' /\ OutcomeInv'
<1> USE DEF ShapeInv, OutcomeInv, Goto, Return, Leave, Running
<1>0. /\ pc \in [Procs -> Labels] /\ outcome \in [Procs -> Outcomes]
      /\ expected \in [Procs -> Seq(Updates)]
      /\ successor \in [Procs -> Seq(Updates)]
  BY DEF TypeOK, Heads
<1>1. ASSUME NEW p \in Procs, Start(p) PROVE ShapeInv' /\ OutcomeInv'
  <2>1. PICK e \in archived, u \in Updates :
          /\ expected' = [expected EXCEPT ![p] = e]
          /\ successor' = [successor EXCEPT ![p] = Append(e, u)]
    BY <1>1 DEF Start
  <2>2. successor'[p] = Append(expected'[p], u)
    BY <1>0, <2>1
  <2>3. \A q \in Procs \ {p} : /\ pc'[q] = pc[q] /\ outcome'[q] = outcome[q]
                               /\ expected'[q] = expected[q]
                               /\ successor'[q] = successor[q]
    BY <1>0, <1>1, <2>1 DEF Start
  <2>4. OutcomeInv'
    BY <1>0, <1>1 DEF Start
  <2>5. ShapeInv'
    BY <2>2, <2>3
  <2> QED BY <2>4, <2>5
<1>2. ASSUME NEW p \in Procs, ReadHead(p) PROVE ShapeInv' /\ OutcomeInv'
  BY <1>0, <1>2 DEF ReadHead, storeVars, lockVars, reqVars
<1>3. ASSUME NEW p \in Procs, Validate(p) PROVE ShapeInv' /\ OutcomeInv'
  BY <1>0, <1>3 DEF Validate, storeVars, lockVars, reqVars
<1>4. ASSUME NEW p \in Procs, MakeStaging(p) PROVE ShapeInv' /\ OutcomeInv'
  BY <1>0, <1>4 DEF MakeStaging, storeVars, lockVars, reqVars
<1>5. ASSUME NEW p \in Procs, Timeout(p) PROVE ShapeInv' /\ OutcomeInv'
  BY <1>0, <1>5 DEF Timeout, storeVars, lockVars, reqVars
<1>6. ASSUME NEW p \in Procs, MakeToken(p) PROVE ShapeInv' /\ OutcomeInv'
  BY <1>0, <1>6 DEF MakeToken, storeVars, lockVars, reqVars
<1>7. ASSUME NEW p \in Procs, TakeOver(p) PROVE ShapeInv' /\ OutcomeInv'
  BY <1>0, <1>7 DEF TakeOver, storeVars, lockVars, reqVars
<1>8. ASSUME NEW p \in Procs, WriteOwner(p) PROVE ShapeInv' /\ OutcomeInv'
  BY <1>0, <1>8 DEF WriteOwner, storeVars, lockVars, reqVars
<1>9. ASSUME NEW p \in Procs, Compare(p) PROVE ShapeInv' /\ OutcomeInv'
  BY <1>0, <1>9 DEF Compare, storeVars, lockVars, reqVars
<1>10. ASSUME NEW p \in Procs, PublishControls(p) PROVE ShapeInv' /\ OutcomeInv'
  BY <1>0, <1>10 DEF PublishControls, storeVars, lockVars, reqVars
<1>11. ASSUME NEW p \in Procs, Stage(p) PROVE ShapeInv' /\ OutcomeInv'
  BY <1>0, <1>11 DEF Stage, storeVars, lockVars, reqVars
<1>12. ASSUME NEW p \in Procs, Revalidate(p) PROVE ShapeInv' /\ OutcomeInv'
  BY <1>0, <1>12 DEF Revalidate, storeVars, lockVars, reqVars
<1>13. ASSUME NEW p \in Procs, Archive(p) PROVE ShapeInv' /\ OutcomeInv'
  BY <1>0, <1>13 DEF Archive, storeVars, lockVars, reqVars
<1>14. ASSUME NEW p \in Procs, SyncHeads(p) PROVE ShapeInv' /\ OutcomeInv'
  BY <1>0, <1>14 DEF SyncHeads, storeVars, lockVars, reqVars
<1>15. ASSUME NEW p \in Procs, Recheck(p) PROVE ShapeInv' /\ OutcomeInv'
  BY <1>0, <1>15 DEF Recheck, storeVars, lockVars, reqVars
<1>16. ASSUME NEW p \in Procs, Advance(p) PROVE ShapeInv' /\ OutcomeInv'
  BY <1>0, <1>16 DEF Advance, storeVars, lockVars, reqVars
<1>17. ASSUME NEW p \in Procs, Verify(p) PROVE ShapeInv' /\ OutcomeInv'
  BY <1>0, <1>17 DEF Verify, storeVars, lockVars, reqVars
<1>18. ASSUME NEW p \in Procs, Sweep(p) PROVE ShapeInv' /\ OutcomeInv'
  BY <1>0, <1>18 DEF Sweep, storeVars, lockVars, reqVars
<1>19. ASSUME NEW p \in Procs, DropToken(p) PROVE ShapeInv' /\ OutcomeInv'
  BY <1>0, <1>19 DEF DropToken, storeVars, lockVars, reqVars
<1>20. ASSUME NEW p \in Procs, RemoveStaging(p) PROVE ShapeInv' /\ OutcomeInv'
  BY <1>0, <1>20 DEF RemoveStaging, storeVars, lockVars, reqVars
<1>21. ASSUME NEW p \in Procs, Crash(p) PROVE ShapeInv' /\ OutcomeInv'
  BY <1>0, <1>21 DEF Crash, storeVars, lockVars, reqVars
<1>22. ASSUME NEW u \in Updates, Retain(u) PROVE ShapeInv' /\ OutcomeInv'
  BY <1>0, <1>22 DEF Retain, storeVars, lockVars, reqVars
<1>23. ASSUME ExpireLease PROVE ShapeInv' /\ OutcomeInv'
  BY <1>0, <1>23 DEF ExpireLease, storeVars, lockVars, reqVars
<1>24. ASSUME UNCHANGED vars PROVE ShapeInv' /\ OutcomeInv'
  BY <1>0, <1>24 DEF vars, storeVars, lockVars, reqVars
<1>25. ASSUME NEW p \in Procs, AcquireFails(p) PROVE ShapeInv' /\ OutcomeInv'
  BY <1>0, <1>25 DEF AcquireFails, storeVars, lockVars, reqVars
<1>26. ASSUME NEW p \in Procs, ReleaseFails(p) PROVE ShapeInv' /\ OutcomeInv'
  BY <1>0, <1>26 DEF ReleaseFails, ReleaseError, storeVars, lockVars, reqVars
<1> QED
  BY NextCases, <1>1, <1>2, <1>3, <1>4, <1>5, <1>6, <1>7, <1>8, <1>9, <1>10,
     <1>11, <1>12, <1>13, <1>14, <1>15, <1>16, <1>17, <1>18, <1>19, <1>20,
     <1>21, <1>22, <1>23, <1>24, <1>25, <1>26

LEMMA PhaseStep ==
  ASSUME TypeOK, TokenInv, OutcomeInv, PhaseInv, [Next]_vars
  PROVE  PhaseInv'
<1> USE DEF PhaseInv, TokenInv, Owning, Holding, Goto, Return, Leave
<1>0. /\ pc \in [Procs -> Labels]
      /\ expected \in [Procs -> Seq(Updates)]
      /\ successor \in [Procs -> Seq(Updates)]
  BY DEF TypeOK, Heads
<1>1. ASSUME NEW p \in Procs, Start(p) PROVE PhaseInv'
  BY <1>0, <1>1 DEF Start, storeVars, lockVars, reqVars
<1>2. ASSUME NEW p \in Procs, ReadHead(p) PROVE PhaseInv'
  BY <1>0, <1>2 DEF ReadHead, storeVars, lockVars, reqVars
<1>3. ASSUME NEW p \in Procs, Validate(p) PROVE PhaseInv'
  BY <1>0, <1>3 DEF Validate, storeVars, lockVars, reqVars
<1>4. ASSUME NEW p \in Procs, MakeStaging(p) PROVE PhaseInv'
  BY <1>0, <1>4 DEF MakeStaging, storeVars, lockVars, reqVars
<1>5. ASSUME NEW p \in Procs, Timeout(p) PROVE PhaseInv'
  BY <1>0, <1>5 DEF Timeout, storeVars, lockVars, reqVars
<1>6. ASSUME NEW p \in Procs, MakeToken(p) PROVE PhaseInv'
  BY <1>0, <1>6 DEF MakeToken, storeVars, lockVars, reqVars
<1>7. ASSUME NEW p \in Procs, TakeOver(p) PROVE PhaseInv'
  BY <1>0, <1>7 DEF TakeOver, storeVars, lockVars, reqVars
<1>8. ASSUME NEW p \in Procs, WriteOwner(p) PROVE PhaseInv'
  BY <1>0, <1>8 DEF WriteOwner, storeVars, lockVars, reqVars
<1>9. ASSUME NEW p \in Procs, Compare(p) PROVE PhaseInv'
  BY <1>0, <1>9 DEF Compare, storeVars, lockVars, reqVars
<1>10. ASSUME NEW p \in Procs, PublishControls(p) PROVE PhaseInv'
  BY <1>0, <1>10 DEF PublishControls, storeVars, lockVars, reqVars
<1>11. ASSUME NEW p \in Procs, Stage(p) PROVE PhaseInv'
  BY <1>0, <1>11 DEF Stage, storeVars, lockVars, reqVars
<1>12. ASSUME NEW p \in Procs, Revalidate(p) PROVE PhaseInv'
  BY <1>0, <1>12 DEF Revalidate, storeVars, lockVars, reqVars
<1>13. ASSUME NEW p \in Procs, Archive(p) PROVE PhaseInv'
  BY <1>0, <1>13 DEF Archive, storeVars, lockVars, reqVars
<1>14. ASSUME NEW p \in Procs, SyncHeads(p) PROVE PhaseInv'
  BY <1>0, <1>14 DEF SyncHeads, storeVars, lockVars, reqVars
<1>15. ASSUME NEW p \in Procs, Recheck(p) PROVE PhaseInv'
  BY <1>0, <1>15 DEF Recheck, storeVars, lockVars, reqVars
<1>16. ASSUME NEW p \in Procs, Advance(p) PROVE PhaseInv'
  BY <1>0, <1>16 DEF Advance, storeVars, lockVars, reqVars
<1>17. ASSUME NEW p \in Procs, Verify(p) PROVE PhaseInv'
  BY <1>0, <1>17 DEF Verify, storeVars, lockVars, reqVars
<1>18. ASSUME NEW p \in Procs, Sweep(p) PROVE PhaseInv'
  BY <1>0, <1>18 DEF Sweep, storeVars, lockVars, reqVars
<1>19. ASSUME NEW p \in Procs, DropToken(p) PROVE PhaseInv'
  BY <1>0, <1>19 DEF DropToken, storeVars, lockVars, reqVars
<1>20. ASSUME NEW p \in Procs, RemoveStaging(p) PROVE PhaseInv'
  BY <1>0, <1>20 DEF RemoveStaging, storeVars, lockVars, reqVars
<1>21. ASSUME NEW p \in Procs, Crash(p) PROVE PhaseInv'
  BY <1>0, <1>21 DEF Crash, storeVars, lockVars, reqVars
<1>22. ASSUME NEW u \in Updates, Retain(u) PROVE PhaseInv'
  BY <1>0, <1>22 DEF Retain, storeVars, lockVars, reqVars
<1>23. ASSUME ExpireLease PROVE PhaseInv'
  BY <1>0, <1>23 DEF ExpireLease, storeVars, lockVars, reqVars
<1>24. ASSUME UNCHANGED vars PROVE PhaseInv'
  BY <1>0, <1>24 DEF vars, storeVars, lockVars, reqVars
<1>25. ASSUME NEW p \in Procs, AcquireFails(p) PROVE PhaseInv'
  BY <1>0, <1>25 DEF AcquireFails, storeVars, lockVars, reqVars
<1>26. ASSUME NEW p \in Procs, ReleaseFails(p) PROVE PhaseInv'
  BY <1>0, <1>26 DEF ReleaseFails, ReleaseError, storeVars, lockVars, reqVars
<1> QED
  BY NextCases, <1>1, <1>2, <1>3, <1>4, <1>5, <1>6, <1>7, <1>8, <1>9, <1>10,
     <1>11, <1>12, <1>13, <1>14, <1>15, <1>16, <1>17, <1>18, <1>19, <1>20,
     <1>21, <1>22, <1>23, <1>24, <1>25, <1>26

\* Only Advance moves the head, and only by one generation of the chain.
LEMMA HeadStep ==
  ASSUME TypeOK, PhaseInv, ShapeInv, [Next]_vars
  PROVE  \/ head' = head
         \/ \E p \in Procs : \E u \in Updates :
               /\ Advance(p) /\ head' = successor[p] /\ head = expected[p]
               /\ head' = Append(head, u)
               /\ successor[p] \in archived /\ archived' = archived
<1>1. ASSUME NEW p \in Procs, Advance(p)
      PROVE  \E u \in Updates :
               /\ head' = successor[p] /\ head = expected[p]
               /\ head' = Append(head, u)
               /\ successor[p] \in archived /\ archived' = archived
  <2>1. /\ pc[p] = "advance" /\ headNext = successor[p] /\ head = expected[p]
        /\ successor[p] \in archived
    BY <1>1 DEF Advance, PhaseInv
  <2>2. headNext # None
    BY <2>1, NoneAssumption DEF TypeOK, Heads
  <2>3. head' = successor[p] /\ archived' = archived
    BY <1>1, <2>1, <2>2 DEF Advance
  <2>4. PICK u \in Updates : successor[p] = Append(expected[p], u)
    BY <2>1 DEF ShapeInv
  <2> QED BY <2>1, <2>3, <2>4
<1>2. (\E p \in Procs : Advance(p)) \/ head' = head
  BY NextCases DEF Start, ReadHead, Validate, MakeStaging, Timeout, MakeToken,
     TakeOver, WriteOwner, Compare, PublishControls, Stage, Revalidate, Archive,
     SyncHeads, Recheck, Verify, Sweep, DropToken, RemoveStaging, AcquireFails, ReleaseFails, Crash, Retain,
     ExpireLease, vars, storeVars
<1> QED BY <1>1, <1>2

\* An archive is never removed, and a new one is a successor of the head.
LEMMA ArchiveStep ==
  ASSUME TypeOK, PhaseInv, ShapeInv, [Next]_vars
  PROVE  /\ archived \subseteq archived'
         /\ \A a \in archived' \ archived :
               \E u \in Updates : a = Append(head, u)
<1>0. head \in Seq(Updates) /\ successor \in [Procs -> Seq(Updates)]
  BY DEF TypeOK, Heads
<1>1. ASSUME NEW p \in Procs, Archive(p)
      PROVE  /\ archived \subseteq archived'
             /\ \A a \in archived' \ archived :
                   \E u \in Updates : a = Append(head, u)
  <2>1. pc[p] = "archive" /\ head = expected[p]
    BY <1>1 DEF Archive, PhaseInv
  <2>2. PICK u \in Updates : successor[p] = Append(head, u)
    BY <2>1 DEF ShapeInv
  <2>3. archived' \in {archived, archived \cup {successor[p]}}
    BY <1>1 DEF Archive
  <2> QED BY <2>2, <2>3
<1>2. ASSUME NEW p \in Procs, Recheck(p) PROVE archived' = archived
  BY <1>2 DEF Recheck, PhaseInv
<1>3. ASSUME NEW p \in Procs, Advance(p) PROVE archived' = archived
  <2>1. headNext # None
    BY <1>0, <1>3, NoneAssumption DEF Advance, PhaseInv
  <2> QED BY <1>3, <2>1 DEF Advance
<1>4. \/ \E p \in Procs : Archive(p) \/ Recheck(p) \/ Advance(p)
      \/ archived' = archived
  BY NextCases DEF Start, ReadHead, Validate, MakeStaging, Timeout, MakeToken,
     TakeOver, WriteOwner, Compare, PublishControls, Stage, Revalidate,
     SyncHeads, Verify, Sweep, DropToken, RemoveStaging, AcquireFails, ReleaseFails, Crash, Retain,
     ExpireLease, vars, storeVars
<1> QED BY <1>1, <1>2, <1>3, <1>4

\* History only grows: what was on the chain stays on it.
LEMMA ChainGrows ==
  ASSUME TypeOK, PhaseInv, ShapeInv, [Next]_vars
  PROVE  Chain(head) \subseteq Chain(head')
<1>0. head \in Seq(Updates)
  BY DEF TypeOK, Heads
<1> QED BY <1>0, HeadStep, ChainAppend

LEMMA HistoryStep ==
  ASSUME TypeOK, PhaseInv, ShapeInv, HeadArchived, NothingAhead, [Next]_vars
  PROVE  HeadArchived' /\ NothingAhead'
<1>0. head \in Seq(Updates) /\ archived \subseteq Seq(Updates)
  BY DEF TypeOK, Heads
<1>1. HeadArchived'
  <2>1. CASE head' = head
    BY <2>1, ArchiveStep DEF HeadArchived, Chain
  <2>2. ASSUME NEW p \in Procs, NEW u \in Updates, head' = successor[p],
               head' = Append(head, u), successor[p] \in archived,
               archived' = archived
        PROVE  HeadArchived'
    <3>1. Chain(head') = Chain(head) \cup {head'}
      BY <1>0, <2>2, ChainAppend
    <3>2. Chain(head') \subseteq archived'
      BY <2>2, <3>1 DEF HeadArchived
    <3> QED BY <3>2 DEF HeadArchived, Chain
  <2> QED BY <2>1, <2>2, HeadStep
<1>2. NothingAhead'
  <2>1. ASSUME NEW a \in archived', a # <<>>
        PROVE  SubSeq(a, 1, Len(a) - 1) \in Chain(head')
    <3>1. CASE a \in archived
      BY <2>1, <3>1, ChainGrows DEF NothingAhead
    <3>2. CASE a \notin archived
      <4>1. PICK u \in Updates : a = Append(head, u)
        BY <2>1, <3>2, ArchiveStep
      <4>2. SubSeq(a, 1, Len(a) - 1) = head
        BY <1>0, <4>1, SuccessorShape
      <4> QED BY <1>0, <4>2, ChainSelf, ChainGrows
    <3> QED BY <3>1, <3>2
  <2> QED BY <2>1 DEF NothingAhead, Chain
<1> QED BY <1>1, <1>2

-----------------------------------------------------------------------------
(* The answers.                                                            *)

\* A positive outcome, returned or about to be, is part of the history.
AnswerInv ==
    \A p \in Procs : outcome[p] \in {"committed", "idempotent"}
                        => successor[p] \in Chain(head)

\* The process moved the head and has said so, or is about to say so.
Won(p) == outcome[p] = "committed" \/ pc[p] = "verify"

WonInv == \A p, q \in Procs : p # q /\ Won(p) /\ Won(q)
                                => expected[p] # expected[q]

\* Which steps set an outcome, and to what.
LEMMA OutcomeStep ==
  ASSUME TypeOK, PhaseInv, [Next]_vars, NEW q \in Procs,
         outcome'[q] \in {"committed", "idempotent"}
  PROVE  /\ successor'[q] = successor[q] /\ expected'[q] = expected[q]
         /\ \/ outcome'[q] = outcome[q]
            \/ Compare(q) /\ outcome'[q] = "idempotent" /\ head = successor[q] /\ head' = head
            \/ Verify(q) /\ pc[q] = "verify" /\ head = successor[q] /\ head' = head
<1> DEFINE Goal ==
         /\ successor'[q] = successor[q] /\ expected'[q] = expected[q]
         /\ \/ outcome'[q] = outcome[q]
            \/ Compare(q) /\ outcome'[q] = "idempotent" /\ head = successor[q] /\ head' = head
            \/ Verify(q) /\ pc[q] = "verify" /\ head = successor[q] /\ head' = head
<1> USE DEF Goto, Return, Leave
<1>0. /\ pc \in [Procs -> Labels] /\ outcome \in [Procs -> Outcomes]
      /\ expected \in [Procs -> Seq(Updates)]
      /\ successor \in [Procs -> Seq(Updates)]
  BY DEF TypeOK, Heads
<1>1. ASSUME NEW p \in Procs, Start(p) PROVE Goal
  BY <1>0, <1>1 DEF Start, storeVars, lockVars, reqVars
<1>2. ASSUME NEW p \in Procs, ReadHead(p) PROVE Goal
  BY <1>0, <1>2 DEF ReadHead, storeVars, lockVars, reqVars
<1>3. ASSUME NEW p \in Procs, Validate(p) PROVE Goal
  BY <1>0, <1>3 DEF Validate, storeVars, lockVars, reqVars
<1>4. ASSUME NEW p \in Procs, MakeStaging(p) PROVE Goal
  BY <1>0, <1>4 DEF MakeStaging, storeVars, lockVars, reqVars
<1>5. ASSUME NEW p \in Procs, Timeout(p) PROVE Goal
  BY <1>0, <1>5 DEF Timeout, storeVars, lockVars, reqVars
<1>6. ASSUME NEW p \in Procs, MakeToken(p) PROVE Goal
  BY <1>0, <1>6 DEF MakeToken, storeVars, lockVars, reqVars
<1>7. ASSUME NEW p \in Procs, TakeOver(p) PROVE Goal
  BY <1>0, <1>7 DEF TakeOver, storeVars, lockVars, reqVars
<1>8. ASSUME NEW p \in Procs, WriteOwner(p) PROVE Goal
  BY <1>0, <1>8 DEF WriteOwner, storeVars, lockVars, reqVars
<1>9. ASSUME NEW p \in Procs, Compare(p) PROVE Goal
  BY <1>0, <1>9 DEF Compare, storeVars, lockVars, reqVars
<1>10. ASSUME NEW p \in Procs, PublishControls(p) PROVE Goal
  BY <1>0, <1>10 DEF PublishControls, storeVars, lockVars, reqVars
<1>11. ASSUME NEW p \in Procs, Stage(p) PROVE Goal
  BY <1>0, <1>11 DEF Stage, storeVars, lockVars, reqVars
<1>12. ASSUME NEW p \in Procs, Revalidate(p) PROVE Goal
  BY <1>0, <1>12 DEF Revalidate, storeVars, lockVars, reqVars
<1>13. ASSUME NEW p \in Procs, Archive(p) PROVE Goal
  BY <1>0, <1>13 DEF Archive, storeVars, lockVars, reqVars
<1>14. ASSUME NEW p \in Procs, SyncHeads(p) PROVE Goal
  BY <1>0, <1>14 DEF SyncHeads, storeVars, lockVars, reqVars
<1>15. ASSUME NEW p \in Procs, Recheck(p) PROVE Goal
  BY <1>0, <1>15 DEF Recheck, storeVars, lockVars, reqVars
<1>16. ASSUME NEW p \in Procs, Advance(p) PROVE Goal
  BY <1>0, <1>16 DEF Advance, storeVars, lockVars, reqVars
<1>17. ASSUME NEW p \in Procs, Verify(p) PROVE Goal
  BY <1>0, <1>17 DEF Verify, storeVars, lockVars, reqVars
<1>18. ASSUME NEW p \in Procs, Sweep(p) PROVE Goal
  BY <1>0, <1>18 DEF Sweep, storeVars, lockVars, reqVars
<1>19. ASSUME NEW p \in Procs, DropToken(p) PROVE Goal
  BY <1>0, <1>19 DEF DropToken, storeVars, lockVars, reqVars
<1>20. ASSUME NEW p \in Procs, RemoveStaging(p) PROVE Goal
  BY <1>0, <1>20 DEF RemoveStaging, storeVars, lockVars, reqVars
<1>21. ASSUME NEW p \in Procs, Crash(p) PROVE Goal
  BY <1>0, <1>21 DEF Crash, storeVars, lockVars, reqVars
<1>22. ASSUME NEW u \in Updates, Retain(u) PROVE Goal
  BY <1>0, <1>22 DEF Retain, storeVars, lockVars, reqVars
<1>23. ASSUME ExpireLease PROVE Goal
  BY <1>0, <1>23 DEF ExpireLease, storeVars, lockVars, reqVars
<1>24. ASSUME UNCHANGED vars PROVE Goal
  BY <1>0, <1>24 DEF vars, storeVars, lockVars, reqVars
<1>25. ASSUME NEW p \in Procs, AcquireFails(p) PROVE Goal
  BY <1>0, <1>25 DEF AcquireFails, storeVars, lockVars, reqVars
<1>26. ASSUME NEW p \in Procs, ReleaseFails(p) PROVE Goal
  BY <1>0, <1>26 DEF ReleaseFails, ReleaseError, storeVars, lockVars, reqVars
<1> QED
  BY NextCases, <1>1, <1>2, <1>3, <1>4, <1>5, <1>6, <1>7, <1>8, <1>9, <1>10,
     <1>11, <1>12, <1>13, <1>14, <1>15, <1>16, <1>17, <1>18, <1>19, <1>20,
     <1>21, <1>22, <1>23, <1>24, <1>25, <1>26

LEMMA AnswerStep ==
  ASSUME TypeOK, PhaseInv, ShapeInv, AnswerInv, [Next]_vars
  PROVE  AnswerInv'
<1>1. ASSUME NEW q \in Procs, outcome'[q] \in {"committed", "idempotent"}
      PROVE  successor'[q] \in Chain(head')
  <2>0. head \in Seq(Updates)
    BY DEF TypeOK, Heads
  <2>1. CASE outcome'[q] = outcome[q]
    BY <1>1, <2>1, OutcomeStep, ChainGrows DEF AnswerInv
  <2>2. CASE head = successor[q] /\ head' = head
    BY <1>1, <2>0, <2>2, OutcomeStep, ChainSelf
  <2> QED BY <1>1, <2>1, <2>2, OutcomeStep
<1> QED BY <1>1 DEF AnswerInv, Chain

\* Advance is the only way to the verification of the new head.
LEMMA VerifyStep ==
  ASSUME TypeOK, [Next]_vars, NEW q \in Procs, pc'[q] = "verify", ~Advance(q)
  PROVE  pc[q] = "verify" /\ expected'[q] = expected[q]
<1> DEFINE Goal == pc[q] = "verify" /\ expected'[q] = expected[q]
<1> USE DEF Goto, Return, Leave
<1>0. pc \in [Procs -> Labels] /\ expected \in [Procs -> Seq(Updates)]
  BY DEF TypeOK, Heads
<1>1. ASSUME NEW p \in Procs, Start(p) PROVE Goal
  BY <1>0, <1>1 DEF Start, storeVars, lockVars, reqVars
<1>2. ASSUME NEW p \in Procs, ReadHead(p) PROVE Goal
  BY <1>0, <1>2 DEF ReadHead, storeVars, lockVars, reqVars
<1>3. ASSUME NEW p \in Procs, Validate(p) PROVE Goal
  BY <1>0, <1>3 DEF Validate, storeVars, lockVars, reqVars
<1>4. ASSUME NEW p \in Procs, MakeStaging(p) PROVE Goal
  BY <1>0, <1>4 DEF MakeStaging, storeVars, lockVars, reqVars
<1>5. ASSUME NEW p \in Procs, Timeout(p) PROVE Goal
  BY <1>0, <1>5 DEF Timeout, storeVars, lockVars, reqVars
<1>6. ASSUME NEW p \in Procs, MakeToken(p) PROVE Goal
  BY <1>0, <1>6 DEF MakeToken, storeVars, lockVars, reqVars
<1>7. ASSUME NEW p \in Procs, TakeOver(p) PROVE Goal
  BY <1>0, <1>7 DEF TakeOver, storeVars, lockVars, reqVars
<1>8. ASSUME NEW p \in Procs, WriteOwner(p) PROVE Goal
  BY <1>0, <1>8 DEF WriteOwner, storeVars, lockVars, reqVars
<1>9. ASSUME NEW p \in Procs, Compare(p) PROVE Goal
  BY <1>0, <1>9 DEF Compare, storeVars, lockVars, reqVars
<1>10. ASSUME NEW p \in Procs, PublishControls(p) PROVE Goal
  BY <1>0, <1>10 DEF PublishControls, storeVars, lockVars, reqVars
<1>11. ASSUME NEW p \in Procs, Stage(p) PROVE Goal
  BY <1>0, <1>11 DEF Stage, storeVars, lockVars, reqVars
<1>12. ASSUME NEW p \in Procs, Revalidate(p) PROVE Goal
  BY <1>0, <1>12 DEF Revalidate, storeVars, lockVars, reqVars
<1>13. ASSUME NEW p \in Procs, Archive(p) PROVE Goal
  BY <1>0, <1>13 DEF Archive, storeVars, lockVars, reqVars
<1>14. ASSUME NEW p \in Procs, SyncHeads(p) PROVE Goal
  BY <1>0, <1>14 DEF SyncHeads, storeVars, lockVars, reqVars
<1>15. ASSUME NEW p \in Procs, Recheck(p) PROVE Goal
  BY <1>0, <1>15 DEF Recheck, storeVars, lockVars, reqVars
<1>16. ASSUME NEW p \in Procs, Advance(p) PROVE Goal
  BY <1>0, <1>16 DEF Advance, storeVars, lockVars, reqVars
<1>17. ASSUME NEW p \in Procs, Verify(p) PROVE Goal
  BY <1>0, <1>17 DEF Verify, storeVars, lockVars, reqVars
<1>18. ASSUME NEW p \in Procs, Sweep(p) PROVE Goal
  BY <1>0, <1>18 DEF Sweep, storeVars, lockVars, reqVars
<1>19. ASSUME NEW p \in Procs, DropToken(p) PROVE Goal
  BY <1>0, <1>19 DEF DropToken, storeVars, lockVars, reqVars
<1>20. ASSUME NEW p \in Procs, RemoveStaging(p) PROVE Goal
  BY <1>0, <1>20 DEF RemoveStaging, storeVars, lockVars, reqVars
<1>21. ASSUME NEW p \in Procs, Crash(p) PROVE Goal
  BY <1>0, <1>21 DEF Crash, storeVars, lockVars, reqVars
<1>22. ASSUME NEW u \in Updates, Retain(u) PROVE Goal
  BY <1>0, <1>22 DEF Retain, storeVars, lockVars, reqVars
<1>23. ASSUME ExpireLease PROVE Goal
  BY <1>0, <1>23 DEF ExpireLease, storeVars, lockVars, reqVars
<1>24. ASSUME UNCHANGED vars PROVE Goal
  BY <1>0, <1>24 DEF vars, storeVars, lockVars, reqVars
<1>25. ASSUME NEW p \in Procs, AcquireFails(p) PROVE Goal
  BY <1>0, <1>25 DEF AcquireFails, storeVars, lockVars, reqVars
<1>26. ASSUME NEW p \in Procs, ReleaseFails(p) PROVE Goal
  BY <1>0, <1>26 DEF ReleaseFails, ReleaseError, storeVars, lockVars, reqVars
<1> QED
  BY NextCases, <1>1, <1>2, <1>3, <1>4, <1>5, <1>6, <1>7, <1>8, <1>9, <1>10,
     <1>11, <1>12, <1>13, <1>14, <1>15, <1>16, <1>17, <1>18, <1>19, <1>20,
     <1>21, <1>22, <1>23, <1>24, <1>25, <1>26

\* A new winner's expected head is the current head; an old winner's
\* expected head is strictly below it.
LEMMA WonStep ==
  ASSUME TypeOK, TokenInv, PhaseInv, ShapeInv, OutcomeInv, AnswerInv, WonInv,
         [Next]_vars
  PROVE  WonInv'
<1>0. /\ pc \in [Procs -> Labels] /\ outcome \in [Procs -> Outcomes]
      /\ expected \in [Procs -> Seq(Updates)]
      /\ successor \in [Procs -> Seq(Updates)]
      /\ head \in Seq(Updates)
  BY DEF TypeOK, Heads
<1>1. ASSUME NEW p \in Procs, Won(p)', ~Advance(p)
      PROVE  Won(p) /\ expected'[p] = expected[p]
  <2>1. CASE outcome'[p] = "committed"
    BY <1>1, <2>1, OutcomeStep DEF Won
  <2>2. CASE pc'[p] = "verify"
    BY <1>1, <2>2, VerifyStep DEF Won
  <2> QED BY <1>1, <2>1, <2>2 DEF Won
<1>2. ASSUME NEW p \in Procs, NEW q \in Procs, p # q, Advance(p), Won(q)
      PROVE  expected[p] # expected[q]
  <2>1. pc[p] = "advance" /\ head = expected[p]
    BY <1>2 DEF Advance, PhaseInv
  <2>2. pc[q] # "verify"
    BY <1>2, <2>1, TokenExcludes DEF Owning, Holding
  <2>3. outcome[q] = "committed" /\ successor[q] \in Chain(head)
    BY <1>2, <2>2 DEF Won, AnswerInv
  <2>4. PICK u \in Updates : successor[q] = Append(expected[q], u)
    BY <2>3 DEF ShapeInv
  <2>5. Len(successor[q]) <= Len(head)
    BY <1>0, <2>3, ChainLength
  <2>6. Len(successor[q]) = Len(expected[q]) + 1 /\ Len(expected[q]) \in Nat
    BY <1>0, <2>4, SuccessorShape
  <2> QED BY <1>0, <2>1, <2>5, <2>6
<1>3. ASSUME NEW p \in Procs, Advance(p)
      PROVE  /\ expected' = expected
             /\ \A q \in Procs : q # p => ~Advance(q)
  <2>1. expected' = expected
    BY <1>3 DEF Advance, reqVars
  <2>2. ASSUME NEW q \in Procs, Advance(q) PROVE q = p
    BY <1>3, <2>2, TokenExcludes DEF Advance, Owning, Holding
  <2> QED BY <2>1, <2>2
<1>4. ASSUME NEW p \in Procs, NEW q \in Procs, p # q, Won(p)', Won(q)'
      PROVE  expected'[p] # expected'[q]
  <2>1. CASE Advance(p)
    BY <1>1, <1>2, <1>3, <1>4, <2>1
  <2>2. CASE Advance(q)
    BY <1>1, <1>2, <1>3, <1>4, <2>2
  <2>3. CASE ~Advance(p) /\ ~Advance(q)
    BY <1>1, <1>4, <2>3 DEF WonInv
  <2> QED BY <2>1, <2>2, <2>3
<1> QED BY <1>4 DEF WonInv, Won

-----------------------------------------------------------------------------
(* The inductive invariant of the store and what follows from it.          *)

StoreInv ==
    /\ TypeOK /\ LeaseInv /\ TokenInv
    /\ ShapeInv /\ OutcomeInv /\ PhaseInv
    /\ HeadArchived /\ NothingAhead /\ AnswerInv /\ WonInv

LEMMA StoreInit == Init /\ TypeOK => StoreInv
<1> SUFFICES ASSUME Init, TypeOK PROVE StoreInv
  OBVIOUS
<1>1. ShapeInv /\ OutcomeInv /\ PhaseInv /\ AnswerInv /\ WonInv
  BY DEF Init, ShapeInv, OutcomeInv, PhaseInv, AnswerInv, WonInv, Won
<1>2. SubSeq(<<>>, 1, 0) = <<>> /\ Len(<<>>) = 0
  OBVIOUS
<1>3. Chain(<<>>) = {<<>>}
  <2>1. 0..Len(<<>>) = {0}
    BY <1>2
  <2> QED BY <1>2, <2>1 DEF Chain
<1>4. HeadArchived /\ NothingAhead
  BY <1>3 DEF Init, HeadArchived, NothingAhead
<1> QED BY <1>1, <1>4, TokenInit DEF StoreInv

\* StoreInv is an invariant whenever leases exclude.
LEMMA StoreInvariant ==
  ASSUME ExclusiveLease
  PROVE  Spec => []StoreInv
<1>1. TypeOK' /\ StoreInv /\ [Next]_vars => StoreInv'
  BY TokenStep, ShapeStep, PhaseStep, HistoryStep, AnswerStep, WonStep
     DEF StoreInv
<1> QED BY <1>1, StoreInit, TypeCorrect, PTL DEF Spec

\* The order of CommitRegistration - archive, compare again, rename - means
\* head.json never names archive bytes that are not there.
THEOREM HeadAlwaysArchived ==
  ASSUME ExclusiveLease
  PROVE  Spec => []HeadArchived
<1>1. StoreInv => HeadArchived
  BY DEF StoreInv
<1> QED BY <1>1, StoreInvariant, PTL

\* Orphaned archives stay one generation above a committed head, so each of
\* them is a successor some registrar derived from real history.
THEOREM ArchiveNeverAhead ==
  ASSUME ExclusiveLease
  PROVE  Spec => []NothingAhead
<1>1. StoreInv => NothingAhead
  BY DEF StoreInv
<1> QED BY <1>1, StoreInvariant, PTL

\* No step rolls head.json back or skips a generation: the rename always
\* appends one registration to the head it replaces.
THEOREM HeadOnlyAppends ==
  ASSUME ExclusiveLease
  PROVE  Spec => HeadAppends
<1>1. StoreInv /\ [Next]_vars => [\E u \in Updates : head' = Append(head, u)]_head
  BY HeadStep DEF StoreInv
<1> QED BY <1>1, StoreInvariant, PTL DEF Spec, HeadAppends

\* An answer that was given - committed or already registered - remains part
\* of the history, whatever later registrars do and wherever they crash.
THEOREM AnswersStayTrue ==
  ASSUME ExclusiveLease
  PROVE  Spec => []AcknowledgedStays
<1>1. StoreInv => AcknowledgedStays
  BY DEF StoreInv, AnswerInv, AcknowledgedStays
<1> QED BY <1>1, StoreInvariant, PTL

\* Concurrent registrations of one expected head cannot both commit.
THEOREM AtMostOneCommit ==
  ASSUME ExclusiveLease
  PROVE  Spec => []OneWinner
<1>1. StoreInv => OneWinner
  BY DEF StoreInv, WonInv, Won, OneWinner
<1> QED BY <1>1, StoreInvariant, PTL

-----------------------------------------------------------------------------
\* A call on its way out has its answer.
LeavingInv == \A p \in Procs : pc[p] \in {"sweep", "drop", "rmdir"} => outcome[p] # "none"

LEMMA LeavingStep ==
  ASSUME TypeOK, LeavingInv, [Next]_vars
  PROVE  LeavingInv'
<1> USE DEF LeavingInv, Goto, Return, Leave
<1>0. pc \in [Procs -> Labels] /\ outcome \in [Procs -> Outcomes]
  BY DEF TypeOK
<1>1. ASSUME NEW p \in Procs, Start(p) PROVE LeavingInv'
  BY <1>0, <1>1 DEF Start
<1>2. ASSUME NEW p \in Procs, ReadHead(p) PROVE LeavingInv'
  BY <1>0, <1>2 DEF ReadHead
<1>3. ASSUME NEW p \in Procs, Validate(p) PROVE LeavingInv'
  BY <1>0, <1>3 DEF Validate
<1>4. ASSUME NEW p \in Procs, MakeStaging(p) PROVE LeavingInv'
  BY <1>0, <1>4 DEF MakeStaging
<1>5. ASSUME NEW p \in Procs, Timeout(p) PROVE LeavingInv'
  BY <1>0, <1>5 DEF Timeout
<1>6. ASSUME NEW p \in Procs, MakeToken(p) PROVE LeavingInv'
  BY <1>0, <1>6 DEF MakeToken
<1>7. ASSUME NEW p \in Procs, TakeOver(p) PROVE LeavingInv'
  BY <1>0, <1>7 DEF TakeOver
<1>8. ASSUME NEW p \in Procs, WriteOwner(p) PROVE LeavingInv'
  BY <1>0, <1>8 DEF WriteOwner
<1>9. ASSUME NEW p \in Procs, Compare(p) PROVE LeavingInv'
  BY <1>0, <1>9 DEF Compare
<1>10. ASSUME NEW p \in Procs, PublishControls(p) PROVE LeavingInv'
  BY <1>0, <1>10 DEF PublishControls
<1>11. ASSUME NEW p \in Procs, Stage(p) PROVE LeavingInv'
  BY <1>0, <1>11 DEF Stage
<1>12. ASSUME NEW p \in Procs, Revalidate(p) PROVE LeavingInv'
  BY <1>0, <1>12 DEF Revalidate
<1>13. ASSUME NEW p \in Procs, Archive(p) PROVE LeavingInv'
  BY <1>0, <1>13 DEF Archive
<1>14. ASSUME NEW p \in Procs, SyncHeads(p) PROVE LeavingInv'
  BY <1>0, <1>14 DEF SyncHeads
<1>15. ASSUME NEW p \in Procs, Recheck(p) PROVE LeavingInv'
  BY <1>0, <1>15 DEF Recheck
<1>16. ASSUME NEW p \in Procs, Advance(p) PROVE LeavingInv'
  BY <1>0, <1>16 DEF Advance
<1>17. ASSUME NEW p \in Procs, Verify(p) PROVE LeavingInv'
  BY <1>0, <1>17 DEF Verify
<1>18. ASSUME NEW p \in Procs, Sweep(p) PROVE LeavingInv'
  BY <1>0, <1>18 DEF Sweep
<1>19. ASSUME NEW p \in Procs, DropToken(p) PROVE LeavingInv'
  BY <1>0, <1>19 DEF DropToken
<1>20. ASSUME NEW p \in Procs, RemoveStaging(p) PROVE LeavingInv'
  BY <1>0, <1>20 DEF RemoveStaging
<1>21. ASSUME NEW p \in Procs, Crash(p) PROVE LeavingInv'
  BY <1>0, <1>21 DEF Crash
<1>22. ASSUME NEW u \in Updates, Retain(u) PROVE LeavingInv'
  BY <1>0, <1>22 DEF Retain
<1>23. ASSUME ExpireLease PROVE LeavingInv'
  BY <1>0, <1>23 DEF ExpireLease
<1>24. ASSUME UNCHANGED vars PROVE LeavingInv'
  BY <1>0, <1>24 DEF vars
<1>25. ASSUME NEW p \in Procs, AcquireFails(p) PROVE LeavingInv'
  BY <1>0, <1>25 DEF AcquireFails, storeVars, lockVars, reqVars
<1>26. ASSUME NEW p \in Procs, ReleaseFails(p) PROVE LeavingInv'
  BY <1>0, <1>26 DEF ReleaseFails, ReleaseError, storeVars, lockVars, reqVars
<1> QED
  BY NextCases, <1>1, <1>2, <1>3, <1>4, <1>5, <1>6, <1>7, <1>8, <1>9, <1>10,
     <1>11, <1>12, <1>13, <1>14, <1>15, <1>16, <1>17, <1>18, <1>19, <1>20,
     <1>21, <1>22, <1>23, <1>24, <1>25, <1>26

-----------------------------------------------------------------------------
(***************************************************************************)
(* The namespace of the transaction.  QuiescentExportable says nothing     *)
(* about the states between two answers; StagingInv says who will remove   *)
(* the directory: it stands only while somebody is on the way to a token   *)
(* in it, holds that token, is about to remove it, died over it, or left   *)
(* it behind because of an I/O error, which is not forgotten until the     *)
(* directory goes.  A writer about to remove it has swept it, so what      *)
(* keeps it from doing so is the token of somebody who is not served yet.  *)
(***************************************************************************)
StagingInv ==
    /\ token # None =>
          /\ staging
          /\ Owning(token) \/ pc[token] = "crashed" \/ residue
          /\ ~Served(token)
    /\ headNext # None =>
          /\ staging
          /\ residue \/ \E p \in Procs :
                pc[p] \in {"revalidate", "archive", "syncHeads", "recheck",
                           "advance", "crashed"}
    /\ staging => residue \/ \E p \in Procs :
          Owning(p) \/ pc[p] \in {"token", "takeover", "rmdir", "crashed"}
    /\ residue => staging /\ \E p \in Procs : ~Served(p)
    /\ \A p \in Procs :
          /\ pc[p] = "takeover" => token # None
          /\ pc[p] = "drop" => headNext = None
          /\ pc[p] = "rmdir" =>
                /\ token # p
                /\ headNext # None => token # None /\ pc[token] # "owner"

LEMMA StagingStep ==
  ASSUME ExclusiveLease, TypeOK, LeaseInv, TokenInv, LeavingInv, StagingInv,
         [Next]_vars
  PROVE  StagingInv'
<1> USE DEF StagingInv, Owning, Holding, Served, Goto, Return, Leave
<1>0. /\ pc \in [Procs -> Labels] /\ staging \in BOOLEAN /\ residue \in BOOLEAN
      /\ outcome \in [Procs -> Outcomes]
      /\ token \in Procs \cup {None} /\ None \notin Procs
  BY NoneAssumption DEF TypeOK
<1>1. ASSUME NEW p \in Procs, Start(p) PROVE StagingInv'
  BY <1>0, <1>1 DEF Start, storeVars, lockVars, reqVars
<1>2. ASSUME NEW p \in Procs, ReadHead(p) PROVE StagingInv'
  BY <1>0, <1>2 DEF ReadHead, storeVars, lockVars, reqVars
<1>3. ASSUME NEW p \in Procs, Validate(p) PROVE StagingInv'
  BY <1>0, <1>3 DEF Validate, storeVars, lockVars, reqVars
<1>4. ASSUME NEW p \in Procs, MakeStaging(p) PROVE StagingInv'
  BY <1>0, <1>4 DEF MakeStaging, storeVars, lockVars, reqVars
<1>5. ASSUME NEW p \in Procs, Timeout(p) PROVE StagingInv'
  BY <1>0, <1>5 DEF Timeout, storeVars, lockVars, reqVars
<1>6. ASSUME NEW p \in Procs, MakeToken(p) PROVE StagingInv'
  BY <1>0, <1>6 DEF MakeToken, storeVars, lockVars, reqVars
<1>7. ASSUME NEW p \in Procs, TakeOver(p) PROVE StagingInv'
  <2>1. pc[p] = "takeover" /\ token # None /\ ~Races /\ LeaseOver
    BY <1>7 DEF TakeOver, LeaseInv, LeaseOver, ExclusiveLease
  <2>2. token \in Procs /\ (residue \/ pc[token] = "crashed")
    BY <1>0, <2>1 DEF LeaseInv, RunsAlone, Running
  <2>3. residue' \/ pc'[token] = "crashed"
    BY <1>0, <1>7, <2>1, <2>2 DEF TakeOver
  <2>4. \A q \in Procs : pc'[q] \notin {"takeover", "drop", "rmdir"}
    BY <1>0, <1>7, <2>1 DEF TakeOver, LeaseInv, RunsAlone, Running
  <2>5. token' = None /\ UNCHANGED <<staging, headNext, residue>> /\ pc'[p] = "acquire"
    BY <1>0, <1>7 DEF TakeOver
  <2>6. staging' /\ \E q \in Procs : ~Served(q)'
    BY <1>0, <2>1, <2>2, <2>5
  <2>7. headNext' # None => residue' \/ \E q \in Procs : pc'[q] = "crashed"
    BY <2>2, <2>3
  <2> QED BY <2>2, <2>3, <2>4, <2>5, <2>6, <2>7
<1>8. ASSUME NEW p \in Procs, WriteOwner(p) PROVE StagingInv'
  <2>1. pc[p] = "owner" /\ token = p /\ staging
    BY <1>0, <1>8 DEF WriteOwner, TokenInv
  <2>2. CASE pc' = [pc EXCEPT ![p] = "compare"]
    BY <1>0, <1>8, <2>1, <2>2 DEF WriteOwner
  <2>3. CASE Return(p, "CUSTODY_ERROR")
    <3>1. /\ token' \in {p, None} /\ residue' /\ UNCHANGED <<staging, headNext>>
      BY <1>0, <1>8, <2>1, <2>3 DEF WriteOwner
    <3>2. ~Served(p)'
      BY <1>0, <2>3
    <3>3. \A q \in Procs : pc'[q] # "takeover"
      BY <1>0, <2>1, <2>3 DEF LeaseInv, LeaseOver, RunsAlone, ExclusiveLease, Running
    <3>4. \A q \in Procs : pc'[q] = "rmdir" => q # p /\ headNext' = None
      BY <1>0, <2>1, <2>3, <3>1
    <3>5. \A q \in Procs : pc'[q] = "drop" => headNext' = None
      BY <1>0, <2>3, <3>1
    <3> QED BY <1>0, <2>1, <3>1, <3>2, <3>3, <3>4, <3>5
  <2> QED BY <1>0, <1>8, <2>2, <2>3 DEF WriteOwner
<1>9. ASSUME NEW p \in Procs, Compare(p) PROVE StagingInv'
  BY <1>0, <1>9 DEF Compare, storeVars, lockVars, reqVars
<1>10. ASSUME NEW p \in Procs, PublishControls(p) PROVE StagingInv'
  BY <1>0, <1>10 DEF PublishControls, storeVars, lockVars, reqVars
<1>11. ASSUME NEW p \in Procs, Stage(p) PROVE StagingInv'
  <2>1. token = p /\ staging /\ pc[p] = "stage"
    BY <1>0, <1>11 DEF Stage, TokenInv
  <2>2. \A q \in Procs : pc'[q] # "drop" /\ (pc'[q] = "takeover" => pc[q] = "takeover")
    BY <1>0, <1>11, <2>1 DEF Stage, TokenInv
  <2>3. UNCHANGED <<staging, token, residue>> /\ pc'[p] \in {"revalidate", "sweep"}
    BY <1>0, <1>11 DEF Stage
  <2>4. pc'[p] = "sweep" => headNext' = headNext
    BY <1>0, <1>11 DEF Stage
  <2>5. \A q \in Procs \ {p} : pc'[q] = pc[q] /\ outcome'[q] = outcome[q]
    BY <1>0, <1>11 DEF Stage
  <2> QED BY <1>0, <2>1, <2>2, <2>3, <2>4, <2>5
<1>12. ASSUME NEW p \in Procs, Revalidate(p) PROVE StagingInv'
  BY <1>0, <1>12 DEF Revalidate, storeVars, lockVars, reqVars
<1>13. ASSUME NEW p \in Procs, Archive(p) PROVE StagingInv'
  BY <1>0, <1>13 DEF Archive, storeVars, lockVars, reqVars
<1>14. ASSUME NEW p \in Procs, SyncHeads(p) PROVE StagingInv'
  BY <1>0, <1>14 DEF SyncHeads, storeVars, lockVars, reqVars
<1>15. ASSUME NEW p \in Procs, Recheck(p) PROVE StagingInv'
  BY <1>0, <1>15 DEF Recheck, storeVars, lockVars, reqVars
<1>16. ASSUME NEW p \in Procs, Advance(p) PROVE StagingInv'
  BY <1>0, <1>16 DEF Advance, storeVars, lockVars, reqVars
<1>17. ASSUME NEW p \in Procs, Verify(p) PROVE StagingInv'
  BY <1>0, <1>17 DEF Verify, storeVars, lockVars, reqVars
<1>18. ASSUME NEW p \in Procs, Sweep(p) PROVE StagingInv'
  BY <1>0, <1>18 DEF Sweep, storeVars, lockVars, reqVars
<1>19. ASSUME NEW p \in Procs, DropToken(p) PROVE StagingInv'
  BY <1>0, <1>19 DEF DropToken, LeaseInv, LeaseOver, RunsAlone, TokenInv, Running,
     ExclusiveLease
<1>20. ASSUME NEW p \in Procs, RemoveStaging(p) PROVE StagingInv'
  BY <1>0, <1>20 DEF RemoveStaging, storeVars, lockVars, reqVars
<1>21. ASSUME NEW p \in Procs, Crash(p) PROVE StagingInv'
  BY <1>0, <1>21 DEF Crash, storeVars, lockVars, reqVars
<1>22. ASSUME NEW u \in Updates, Retain(u) PROVE StagingInv'
  BY <1>0, <1>22 DEF Retain, storeVars, lockVars, reqVars
<1>23. ASSUME ExpireLease PROVE StagingInv'
  BY <1>0, <1>23 DEF ExpireLease, storeVars, lockVars, reqVars
<1>24. ASSUME UNCHANGED vars PROVE StagingInv'
  BY <1>0, <1>24 DEF vars, storeVars, lockVars, reqVars
<1>25. ASSUME NEW p \in Procs, AcquireFails(p) PROVE StagingInv'
  BY <1>0, <1>25 DEF AcquireFails, storeVars, lockVars, reqVars
<1>26. ASSUME NEW p \in Procs, ReleaseFails(p) PROVE StagingInv'
  <2>1. /\ UNCHANGED <<staging, token>> /\ residue' = (residue \/ staging)
        /\ pc' = [pc EXCEPT ![p] = "idle"]
        /\ headNext' \in {headNext, None}
        /\ \A q \in Procs \ {p} : outcome'[q] = outcome[q]
    BY <1>0, <1>26 DEF ReleaseFails
  <2>2. ~Served(p)'
    BY <1>0, <1>26 DEF ReleaseFails, ReleaseError, LeavingInv
  <2>3. \A q \in Procs \ {p} : Served(q)' = Served(q)
    BY <1>0, <2>1
  <2> QED BY <1>0, <2>1, <2>2, <2>3
<1> QED
  BY NextCases, <1>1, <1>2, <1>3, <1>4, <1>5, <1>6, <1>7, <1>8, <1>9, <1>10,
     <1>11, <1>12, <1>13, <1>14, <1>15, <1>16, <1>17, <1>18, <1>19, <1>20,
     <1>21, <1>22, <1>23, <1>24, <1>25, <1>26

\* release leaves nothing behind but by an I/O error of an acquisition or of a
\* release, and then not in silence: a store whose callers have their answers
\* holds no transaction directory and can be exported, or an acquisition or a
\* release failed over that directory and some caller's last answer is an error.
THEOREM QuiescentStoreExports ==
  ASSUME ExclusiveLease
  PROVE  Spec => []QuiescentExportable
<1>1. Init => StagingInv /\ LeavingInv
  BY DEF Init, StagingInv, LeavingInv
<1>2. /\ TypeOK /\ LeaseInv /\ TokenInv /\ LeavingInv /\ StagingInv /\ [Next]_vars
      => (StagingInv /\ LeavingInv)'
  BY StagingStep, LeavingStep
<1>3. StagingInv => QuiescentExportable
  BY DEF StagingInv, QuiescentExportable, Owning, Holding
<1>4. StoreInv => TypeOK /\ LeaseInv /\ TokenInv
  BY DEF StoreInv
<1> QED BY <1>1, <1>2, <1>3, <1>4, StoreInvariant, PTL DEF Spec

-----------------------------------------------------------------------------
(***************************************************************************)
(* What a document rests on.  No step removes a control set or a retained  *)
(* bundle, so this part of the argument needs no exclusion: it holds even  *)
(* when leases expire under live writers.                                  *)
(***************************************************************************)
SupportInv ==
    \A p \in Procs :
        /\ pc[p] # "idle" => Supported(expected[p])
        /\ pc[p] \in {"stage", "revalidate", "archive", "syncHeads", "recheck",
                      "advance", "verify"} => Supported(successor[p])

LEMMA EvidenceGrows ==
  ASSUME [Next]_vars
  PROVE  controls \subseteq controls' /\ retained \subseteq retained'
  BY NextCases DEF Start, ReadHead, Validate, MakeStaging, Timeout, MakeToken,
     TakeOver, WriteOwner, Compare, PublishControls, Stage, Revalidate, Archive,
     SyncHeads, Recheck, Advance, Verify, Sweep, DropToken, RemoveStaging,
     AcquireFails, ReleaseFails, Crash, Retain, ExpireLease, vars, storeVars

\* A document that is supported stays supported.
LEMMA SupportStays ==
  ASSUME [Next]_vars, NEW h, Supported(h)
  PROVE  \A i \in 1..Len(h) : h[i] \in controls' \cap retained'
  BY EvidenceGrows DEF Supported

\* Which documents a step may bring into the store.
LEMMA DocumentStep ==
  ASSUME TypeOK, [Next]_vars
  PROVE  /\ \A h \in archived' : h \in archived \/ \E p \in Procs : pc[p] = "archive" /\ h = successor[p]
         /\ head' = head \/ (headNext # None /\ head' = headNext)
         /\ \/ headNext' \in {headNext, None}
            \/ \E p \in Procs : pc[p] = "stage" /\ headNext' = successor[p]
<1>0. /\ archived \subseteq Seq(Updates)
      /\ successor \in [Procs -> Seq(Updates)]
  BY DEF TypeOK, Heads
<1> QED
  BY <1>0, NextCases DEF Start, ReadHead, Validate, MakeStaging, Timeout,
     MakeToken, TakeOver, WriteOwner, Compare, PublishControls, Stage,
     Revalidate, Archive, SyncHeads, Recheck, Advance, Verify, Sweep, DropToken,
     RemoveStaging, AcquireFails, ReleaseFails, Crash, Retain, ExpireLease, vars, storeVars, lockVars, Goto,
     Leave, Return

LEMMA DocumentsStep ==
  ASSUME TypeOK, SupportInv, ControlsArchived, [Next]_vars
  PROVE  ControlsArchived'
<1>1. ASSUME NEW p \in Procs, pc[p] \in {"archive", "stage"} PROVE Supported(successor[p])
  BY <1>1 DEF SupportInv
<1>2. ASSUME NEW h \in archived' \cup {head'}
      PROVE  \A i \in 1..Len(h) : h[i] \in controls' \cap retained'
  <2>1. Supported(h)
    BY <1>1, <1>2, DocumentStep DEF ControlsArchived
  <2> QED BY <2>1, SupportStays
<1>3. ASSUME headNext' # None
      PROVE  \A i \in 1..Len(headNext') : headNext'[i] \in controls' \cap retained'
  <2>1. Supported(headNext')
    BY <1>1, <1>3, DocumentStep DEF ControlsArchived
  <2>2. PICK h : h = headNext'
    OBVIOUS
  <2>3. Supported(h)
    BY <2>1, <2>2
  <2>4. \A i \in 1..Len(h) : h[i] \in controls' \cap retained'
    BY <2>3, SupportStays
  <2> QED BY <2>2, <2>4
<1> QED BY <1>2, <1>3 DEF ControlsArchived, Supported

\* Who is supported after a step was so before it, was taken from the archive
\* by the start of a call, or has just had its controls published.
LEMMA SupportCases ==
  ASSUME TypeOK, ShapeInv, [Next]_vars, NEW q \in Procs
  PROVE  /\ pc'[q] # "idle" =>
              \/ pc[q] # "idle" /\ expected'[q] = expected[q]
              \/ expected'[q] \in archived
         /\ pc'[q] \in {"stage", "revalidate", "archive", "syncHeads", "recheck",
                        "advance", "verify"} =>
              /\ successor'[q] = successor[q]
              /\ \/ pc[q] \in {"stage", "revalidate", "archive", "syncHeads",
                               "recheck", "advance", "verify"}
                 \/ /\ pc[q] = "controls" /\ expected'[q] = expected[q]
                    /\ UpdateOf(successor[q]) \in controls' \cap retained'
<1> DEFINE Busy == {"stage", "revalidate", "archive", "syncHeads", "recheck",
                   "advance", "verify"}
           Goal == /\ pc'[q] # "idle" =>
                        \/ pc[q] # "idle" /\ expected'[q] = expected[q]
                        \/ expected'[q] \in archived
                   /\ pc'[q] \in Busy =>
                        /\ successor'[q] = successor[q]
                        /\ \/ pc[q] \in Busy
                           \/ /\ pc[q] = "controls" /\ expected'[q] = expected[q]
                              /\ UpdateOf(successor[q]) \in controls' \cap retained'
<1> USE DEF Goto, Return, Leave, Running
<1>0. /\ pc \in [Procs -> Labels]
      /\ expected \in [Procs -> Seq(Updates)]
      /\ successor \in [Procs -> Seq(Updates)]
  BY DEF TypeOK, Heads
<1>1. ASSUME NEW p \in Procs, Start(p) PROVE Goal
  BY <1>0, <1>1 DEF Start, storeVars, lockVars, reqVars
<1>2. ASSUME NEW p \in Procs, ReadHead(p) PROVE Goal
  BY <1>0, <1>2 DEF ReadHead, storeVars, lockVars, reqVars
<1>3. ASSUME NEW p \in Procs, Validate(p) PROVE Goal
  BY <1>0, <1>3 DEF Validate, storeVars, lockVars, reqVars
<1>4. ASSUME NEW p \in Procs, MakeStaging(p) PROVE Goal
  BY <1>0, <1>4 DEF MakeStaging, storeVars, lockVars, reqVars
<1>5. ASSUME NEW p \in Procs, Timeout(p) PROVE Goal
  BY <1>0, <1>5 DEF Timeout, storeVars, lockVars, reqVars
<1>6. ASSUME NEW p \in Procs, MakeToken(p) PROVE Goal
  BY <1>0, <1>6 DEF MakeToken, storeVars, lockVars, reqVars
<1>7. ASSUME NEW p \in Procs, TakeOver(p) PROVE Goal
  BY <1>0, <1>7 DEF TakeOver, storeVars, lockVars, reqVars
<1>8. ASSUME NEW p \in Procs, WriteOwner(p) PROVE Goal
  BY <1>0, <1>8 DEF WriteOwner, storeVars, lockVars, reqVars
<1>9. ASSUME NEW p \in Procs, Compare(p) PROVE Goal
  BY <1>0, <1>9 DEF Compare, storeVars, lockVars, reqVars
<1>10. ASSUME NEW p \in Procs, PublishControls(p) PROVE Goal
  BY <1>0, <1>10 DEF PublishControls, storeVars, lockVars, reqVars
<1>11. ASSUME NEW p \in Procs, Stage(p) PROVE Goal
  BY <1>0, <1>11 DEF Stage, storeVars, lockVars, reqVars
<1>12. ASSUME NEW p \in Procs, Revalidate(p) PROVE Goal
  BY <1>0, <1>12 DEF Revalidate, storeVars, lockVars, reqVars
<1>13. ASSUME NEW p \in Procs, Archive(p) PROVE Goal
  BY <1>0, <1>13 DEF Archive, storeVars, lockVars, reqVars
<1>14. ASSUME NEW p \in Procs, SyncHeads(p) PROVE Goal
  BY <1>0, <1>14 DEF SyncHeads, storeVars, lockVars, reqVars
<1>15. ASSUME NEW p \in Procs, Recheck(p) PROVE Goal
  BY <1>0, <1>15 DEF Recheck, storeVars, lockVars, reqVars
<1>16. ASSUME NEW p \in Procs, Advance(p) PROVE Goal
  BY <1>0, <1>16 DEF Advance, storeVars, lockVars, reqVars
<1>17. ASSUME NEW p \in Procs, Verify(p) PROVE Goal
  BY <1>0, <1>17 DEF Verify, storeVars, lockVars, reqVars
<1>18. ASSUME NEW p \in Procs, Sweep(p) PROVE Goal
  BY <1>0, <1>18 DEF Sweep, storeVars, lockVars, reqVars
<1>19. ASSUME NEW p \in Procs, DropToken(p) PROVE Goal
  BY <1>0, <1>19 DEF DropToken, storeVars, lockVars, reqVars
<1>20. ASSUME NEW p \in Procs, RemoveStaging(p) PROVE Goal
  BY <1>0, <1>20 DEF RemoveStaging, storeVars, lockVars, reqVars
<1>21. ASSUME NEW p \in Procs, Crash(p) PROVE Goal
  BY <1>0, <1>21 DEF Crash, storeVars, lockVars, reqVars
<1>22. ASSUME NEW u \in Updates, Retain(u) PROVE Goal
  BY <1>0, <1>22 DEF Retain, storeVars, lockVars, reqVars
<1>23. ASSUME ExpireLease PROVE Goal
  BY <1>0, <1>23 DEF ExpireLease, storeVars, lockVars, reqVars
<1>24. ASSUME UNCHANGED vars PROVE Goal
  BY <1>0, <1>24 DEF vars, storeVars, lockVars, reqVars
<1>25. ASSUME NEW p \in Procs, AcquireFails(p) PROVE Goal
  BY <1>0, <1>25 DEF AcquireFails, storeVars, lockVars, reqVars
<1>26. ASSUME NEW p \in Procs, ReleaseFails(p) PROVE Goal
  BY <1>0, <1>26 DEF ReleaseFails, ReleaseError, storeVars, lockVars, reqVars
<1> QED
  BY NextCases, <1>1, <1>2, <1>3, <1>4, <1>5, <1>6, <1>7, <1>8, <1>9, <1>10,
     <1>11, <1>12, <1>13, <1>14, <1>15, <1>16, <1>17, <1>18, <1>19, <1>20,
     <1>21, <1>22, <1>23, <1>24, <1>25, <1>26

LEMMA SupportStep ==
  ASSUME TypeOK, TypeOK', ShapeInv, SupportInv, ControlsArchived, [Next]_vars
  PROVE  SupportInv'
<1> DEFINE Rest(h) == \A i \in 1..Len(h) : h[i] \in controls' \cap retained'
           Busy == {"stage", "revalidate", "archive", "syncHeads", "recheck",
                    "advance", "verify"}
<1>0. /\ expected \in [Procs -> Seq(Updates)]
      /\ successor \in [Procs -> Seq(Updates)]
      /\ controls' \subseteq Updates
  BY DEF TypeOK, Heads
<1>1. ASSUME NEW q \in Procs, pc'[q] # "idle" PROVE Rest(expected'[q])
  <2>1. Supported(expected'[q])
    BY <1>1, SupportCases DEF SupportInv, ControlsArchived
  <2>2. PICK h : h = expected'[q]
    OBVIOUS
  <2>3. Supported(h)
    BY <2>1, <2>2
  <2>4. Rest(h)
    BY <2>3, SupportStays
  <2> QED BY <2>2, <2>4
<1>2. ASSUME NEW q \in Procs, pc'[q] \in Busy PROVE Rest(successor'[q])
  <2>1. successor'[q] = successor[q]
    BY <1>2, SupportCases
  <2>2. CASE pc[q] \in Busy
    <3>1. Supported(successor[q])
      BY <2>2 DEF SupportInv
    <3>2. PICK h : h = successor[q]
      OBVIOUS
    <3>3. Supported(h)
      BY <3>1, <3>2
    <3>4. Rest(h)
      BY <3>3, SupportStays
    <3> QED BY <2>1, <3>2, <3>4
  <2>3. CASE pc[q] = "controls" /\ UpdateOf(successor[q]) \in controls' \cap retained'
    <3>1. PICK u \in Updates : successor[q] = Append(expected[q], u)
      BY <2>3 DEF ShapeInv
    <3>2. UpdateOf(successor[q]) = u
      BY <1>0, <3>1 DEF UpdateOf
    <3>3. PICK h \in Seq(Updates) : h = expected[q]
      BY <1>0
    <3>4. Supported(h)
      BY <2>3, <3>3 DEF SupportInv
    <3>5. Rest(h)
      BY <3>4, SupportStays
    <3>6. Rest(Append(h, u))
      <4>1. /\ Len(Append(h, u)) = Len(h) + 1 /\ Len(h) \in Nat
            /\ \A i \in 1..Len(h) : Append(h, u)[i] = h[i]
            /\ Append(h, u)[Len(h) + 1] = u
        OBVIOUS
      <4>2. \A i \in 1..Len(Append(h, u)) : i \in 1..Len(h) \/ i = Len(h) + 1
        BY <4>1
      <4> QED BY <2>3, <3>2, <3>5, <4>1, <4>2
    <3> QED BY <2>1, <3>1, <3>3, <3>6
  <2> QED BY <1>2, <2>2, <2>3, SupportCases
<1> QED BY <1>1, <1>2 DEF SupportInv, Supported

\* Every document that is current, archived or staged adds registrations only
\* whose controls are archived and whose bundle is retained: PublishControls
\* comes before the staging and the archive, and nothing is ever taken back.
THEOREM DocumentsSupported == Spec => []ControlsArchived
<1>1. Init => ShapeInv /\ OutcomeInv /\ SupportInv /\ ControlsArchived
  <2> SUFFICES ASSUME Init PROVE ShapeInv /\ OutcomeInv /\ SupportInv /\ ControlsArchived
    OBVIOUS
  <2>1. ShapeInv /\ OutcomeInv /\ SupportInv
    BY DEF Init, ShapeInv, OutcomeInv, SupportInv
  <2>2. 1..Len(<<>>) = {}
    OBVIOUS
  <2>3. ControlsArchived
    BY <2>2 DEF Init, ControlsArchived, Supported
  <2> QED BY <2>1, <2>3
<1>2. /\ TypeOK /\ TypeOK' /\ ShapeInv /\ OutcomeInv /\ SupportInv /\ ControlsArchived
      /\ [Next]_vars
      => (ShapeInv /\ OutcomeInv /\ SupportInv /\ ControlsArchived)'
  BY ShapeStep, SupportStep, DocumentsStep
<1> QED BY <1>1, <1>2, TypeCorrect, PTL DEF Spec

-----------------------------------------------------------------------------
(***************************************************************************)
(* The store implements the compare-and-append register: the rename of     *)
(* head.next is the instant at which a registration takes effect, the      *)
(* comparison is the one at which it is confirmed or lost, and every other *)
(* step is a stutter or a failure of the register.                         *)
(***************************************************************************)

\* The steps of the register, in terms of what a step of the store does.
LEMMA RegisterStutters ==
  ASSUME UNCHANGED <<head, expected, successor>>,
         \A q \in Procs : Phase(q)' = Phase(q)
  PROVE  UNCHANGED Register!vars
  BY DEF Register!vars

LEMMA RegisterFails ==
  ASSUME NEW p \in Procs, UNCHANGED <<head, expected, successor>>,
         \A q \in Procs \ {p} : Phase(q)' = Phase(q),
         Phase(p) # "idle", Phase(p)' = "failed"
  PROVE  Register!Next
  BY DEF Register!Next, Register!Fail

LEMMA RegisterConfirms ==
  ASSUME NEW p \in Procs, UNCHANGED <<head, expected, successor>>,
         \A q \in Procs \ {p} : Phase(q)' = Phase(q),
         Phase(p) = "pending", head = successor[p], Phase(p)' = "confirmed"
  PROVE  Register!Next
  BY DEF Register!Next, Register!Confirm

LEMMA RegisterLoses ==
  ASSUME NEW p \in Procs, UNCHANGED <<head, expected, successor>>,
         \A q \in Procs \ {p} : Phase(q)' = Phase(q),
         Phase(p) = "pending", head \notin {expected[p], successor[p]},
         Phase(p)' = "lost"
  PROVE  Register!Next
  BY DEF Register!Next, Register!Lose

LEMMA RegisterWins ==
  ASSUME NEW p \in Procs, UNCHANGED <<expected, successor>>,
         \A q \in Procs \ {p} : Phase(q)' = Phase(q),
         Phase(p) = "pending", head = expected[p], head' = successor[p],
         Phase(p)' = "won"
  PROVE  Register!Next
  BY DEF Register!Next, Register!Win

\* A history below the bound is one that a caller may want to extend.
LEMMA HistoryBelowBound ==
  ASSUME NEW e \in Seq(Updates), Len(e) < MaxGeneration
  PROVE  e \in Register!Histories
<1>1. e \in [1..Len(e) -> Updates] /\ Len(e) \in 0..(MaxGeneration - 1)
  BY BoundsAssumption
<1> QED BY <1>1 DEF Register!Histories

\* What the others do not see.
LEMMA PhaseFrame ==
  ASSUME NEW q \in Procs, pc'[q] = pc[q], outcome'[q] = outcome[q]
  PROVE  Phase(q)' = Phase(q)
  BY DEF Phase

\* Every step of the store is a step of the register or leaves it alone.
LEMMA RegisterStep ==
  ASSUME TypeOK, OutcomeInv, PhaseInv, LeavingInv, [Next]_vars
  PROVE  [Register!Next]_(Register!vars)
<1> DEFINE Goal == [Register!Next]_(Register!vars)
<1> USE DEF Goto, Return, Leave, LeavingInv
<1>0. /\ pc \in [Procs -> Labels] /\ outcome \in [Procs -> Outcomes]
      /\ archived \subseteq Seq(Updates)
      /\ successor \in [Procs -> Seq(Updates)]
  BY DEF TypeOK, Heads
<1>1. ASSUME NEW p \in Procs, Start(p) PROVE Goal
  <2>1. PICK e \in archived, u \in Updates :
          /\ Len(e) < MaxGeneration
          /\ expected' = [expected EXCEPT ![p] = e]
          /\ successor' = [successor EXCEPT ![p] = Append(e, u)]
    BY <1>1 DEF Start
  <2>2. e \in Register!Histories
    BY <1>0, <2>1, HistoryBelowBound
  <2>3. Phase(p) # "pending" /\ Phase(p)' = "pending"
    BY <1>0, <1>1 DEF Start, Phase
  <2>4. \A q \in Procs \ {p} : Phase(q)' = Phase(q)
    BY <1>0, <1>1, PhaseFrame DEF Start
  <2>5. head' = head
    BY <1>1 DEF Start, storeVars
  <2>6. Register!Call(p)
    BY <2>1, <2>2, <2>3, <2>4, <2>5 DEF Register!Call
  <2> QED BY <2>6 DEF Register!Next
<1>2. ASSUME NEW p \in Procs, ReadHead(p) PROVE Goal
  <2>1. UNCHANGED <<head, expected, successor>>
    BY <1>2 DEF ReadHead, storeVars, reqVars
  <2>2. \A q \in Procs : Phase(q)' = Phase(q)
    BY <1>0, <1>2 DEF ReadHead, Phase
  <2> QED BY <2>1, <2>2, RegisterStutters
<1>3. ASSUME NEW p \in Procs, Validate(p) PROVE Goal
  <2>1. UNCHANGED <<head, expected, successor>>
    BY <1>3 DEF Validate, storeVars, reqVars
  <2>2. \A q \in Procs \ {p} : Phase(q)' = Phase(q)
    BY <1>0, <1>3, PhaseFrame DEF Validate
  <2>3. \/ Phase(p)' = Phase(p)
        \/ Phase(p) # "idle" /\ Phase(p)' = "failed"
    BY <1>0, <1>3 DEF Validate, Phase, OutcomeInv
  <2> QED BY <2>1, <2>2, <2>3, RegisterStutters, RegisterFails
<1>4. ASSUME NEW p \in Procs, MakeStaging(p) PROVE Goal
  <2>1. UNCHANGED <<head, expected, successor>>
    BY <1>4 DEF MakeStaging, storeVars, reqVars
  <2>2. \A q \in Procs : Phase(q)' = Phase(q)
    BY <1>0, <1>4 DEF MakeStaging, Phase
  <2> QED BY <2>1, <2>2, RegisterStutters
<1>5. ASSUME NEW p \in Procs, Timeout(p) PROVE Goal
  <2>1. UNCHANGED <<head, expected, successor>>
    BY <1>5 DEF Timeout, storeVars, reqVars
  <2>2. Phase(p) # "idle" /\ Phase(p)' = "failed"
    BY <1>0, <1>5 DEF Timeout, Phase, OutcomeInv
  <2>3. \A q \in Procs \ {p} : Phase(q)' = Phase(q)
    BY <1>0, <1>5, PhaseFrame DEF Timeout
  <2> QED BY <2>1, <2>2, <2>3, RegisterFails
<1>6. ASSUME NEW p \in Procs, MakeToken(p) PROVE Goal
  <2>1. UNCHANGED <<head, expected, successor>>
    BY <1>6 DEF MakeToken, storeVars, reqVars
  <2>2. \A q \in Procs : Phase(q)' = Phase(q)
    BY <1>0, <1>6 DEF MakeToken, Phase
  <2> QED BY <2>1, <2>2, RegisterStutters
<1>7. ASSUME NEW p \in Procs, TakeOver(p) PROVE Goal
  <2>1. UNCHANGED <<head, expected, successor>>
    BY <1>7 DEF TakeOver, storeVars, reqVars
  <2>2. \A q \in Procs : Phase(q)' = Phase(q)
    BY <1>0, <1>7 DEF TakeOver, Phase
  <2> QED BY <2>1, <2>2, RegisterStutters
<1>8. ASSUME NEW p \in Procs, WriteOwner(p) PROVE Goal
  <2>1. UNCHANGED <<head, expected, successor>>
    BY <1>8 DEF WriteOwner, storeVars, reqVars
  <2>2. \A q \in Procs \ {p} : Phase(q)' = Phase(q)
    BY <1>0, <1>8, PhaseFrame DEF WriteOwner
  <2>3. \/ Phase(p)' = Phase(p)
        \/ Phase(p) # "idle" /\ Phase(p)' = "failed"
    BY <1>0, <1>8 DEF WriteOwner, Phase, OutcomeInv
  <2> QED BY <2>1, <2>2, <2>3, RegisterStutters, RegisterFails
<1>9. ASSUME NEW p \in Procs, Compare(p) PROVE Goal
  <2>1. UNCHANGED <<head, expected, successor>>
    BY <1>9 DEF Compare, storeVars, reqVars
  <2>2. \A q \in Procs \ {p} : Phase(q)' = Phase(q)
    BY <1>0, <1>9, PhaseFrame DEF Compare
  <2>3. Phase(p) = "pending"
    BY <1>0, <1>9 DEF Compare, Phase, OutcomeInv
  <2>4. \/ Phase(p)' = "pending"
        \/ Phase(p)' = "confirmed" /\ head = successor[p]
        \/ Phase(p)' = "lost" /\ head \notin {expected[p], successor[p]}
        \/ Phase(p)' = "failed"
    BY <1>0, <1>9 DEF Compare, Phase, OutcomeInv
  <2> QED BY <2>1, <2>2, <2>3, <2>4, RegisterStutters, RegisterConfirms,
             RegisterLoses, RegisterFails
<1>10. ASSUME NEW p \in Procs, PublishControls(p) PROVE Goal
  <2>1. UNCHANGED <<head, expected, successor>>
    BY <1>10 DEF PublishControls, storeVars, reqVars
  <2>2. \A q \in Procs \ {p} : Phase(q)' = Phase(q)
    BY <1>0, <1>10, PhaseFrame DEF PublishControls
  <2>3. \/ Phase(p)' = Phase(p)
        \/ Phase(p) # "idle" /\ Phase(p)' = "failed"
    BY <1>0, <1>10 DEF PublishControls, Phase, OutcomeInv
  <2> QED BY <2>1, <2>2, <2>3, RegisterStutters, RegisterFails
<1>11. ASSUME NEW p \in Procs, Stage(p) PROVE Goal
  <2>1. UNCHANGED <<head, expected, successor>>
    BY <1>11 DEF Stage, storeVars, reqVars
  <2>2. \A q \in Procs \ {p} : Phase(q)' = Phase(q)
    BY <1>0, <1>11, PhaseFrame DEF Stage
  <2>3. \/ Phase(p)' = Phase(p)
        \/ Phase(p) # "idle" /\ Phase(p)' = "failed"
    BY <1>0, <1>11 DEF Stage, Phase, OutcomeInv
  <2> QED BY <2>1, <2>2, <2>3, RegisterStutters, RegisterFails
<1>12. ASSUME NEW p \in Procs, Revalidate(p) PROVE Goal
  <2>1. UNCHANGED <<head, expected, successor>>
    BY <1>12 DEF Revalidate, storeVars, reqVars
  <2>2. \A q \in Procs \ {p} : Phase(q)' = Phase(q)
    BY <1>0, <1>12, PhaseFrame DEF Revalidate
  <2>3. \/ Phase(p)' = Phase(p)
        \/ Phase(p) # "idle" /\ Phase(p)' = "failed"
    BY <1>0, <1>12 DEF Revalidate, Phase, OutcomeInv
  <2> QED BY <2>1, <2>2, <2>3, RegisterStutters, RegisterFails
<1>13. ASSUME NEW p \in Procs, Archive(p) PROVE Goal
  <2>1. UNCHANGED <<head, expected, successor>>
    BY <1>13 DEF Archive, storeVars, reqVars
  <2>2. \A q \in Procs : Phase(q)' = Phase(q)
    BY <1>0, <1>13 DEF Archive, Phase
  <2> QED BY <2>1, <2>2, RegisterStutters
<1>14. ASSUME NEW p \in Procs, SyncHeads(p) PROVE Goal
  <2>1. UNCHANGED <<head, expected, successor>>
    BY <1>14 DEF SyncHeads, storeVars, reqVars
  <2>2. \A q \in Procs \ {p} : Phase(q)' = Phase(q)
    BY <1>0, <1>14, PhaseFrame DEF SyncHeads
  <2>3. \/ Phase(p)' = Phase(p)
        \/ Phase(p) # "idle" /\ Phase(p)' = "failed"
    BY <1>0, <1>14 DEF SyncHeads, Phase, OutcomeInv
  <2> QED BY <2>1, <2>2, <2>3, RegisterStutters, RegisterFails
<1>15. ASSUME NEW p \in Procs, Recheck(p) PROVE Goal
  <2>1. UNCHANGED <<head, expected, successor>>
    BY <1>15 DEF Recheck, storeVars, reqVars, PhaseInv
  <2>2. \A q \in Procs \ {p} : Phase(q)' = Phase(q)
    BY <1>0, <1>15, PhaseFrame DEF Recheck
  <2>3. \/ Phase(p)' = Phase(p)
        \/ Phase(p) # "idle" /\ Phase(p)' = "failed"
    BY <1>0, <1>15 DEF Recheck, Phase, OutcomeInv, PhaseInv
  <2> QED BY <2>1, <2>2, <2>3, RegisterStutters, RegisterFails
<1>16. ASSUME NEW p \in Procs, Advance(p) PROVE Goal
  <2>1. /\ pc[p] = "advance" /\ headNext = successor[p]
        /\ head = expected[p] /\ headNext # None
    BY <1>0, <1>16, NoneAssumption DEF Advance, PhaseInv
  <2>2. /\ UNCHANGED <<expected, successor>> /\ head' = successor[p]
        /\ pc' = [pc EXCEPT ![p] = "verify"] /\ outcome' = outcome
    BY <1>16, <2>1 DEF Advance, reqVars
  <2>3. \A q \in Procs \ {p} : Phase(q)' = Phase(q)
    BY <1>0, <2>2, PhaseFrame
  <2>4. Phase(p) = "pending" /\ Phase(p)' = "won"
    BY <1>0, <2>1, <2>2 DEF Phase, OutcomeInv
  <2> QED BY <2>1, <2>2, <2>3, <2>4, RegisterWins
<1>17. ASSUME NEW p \in Procs, Verify(p) PROVE Goal
  <2>1. UNCHANGED <<head, expected, successor>>
    BY <1>17 DEF Verify, storeVars, reqVars
  <2>2. \A q \in Procs \ {p} : Phase(q)' = Phase(q)
    BY <1>0, <1>17, PhaseFrame DEF Verify
  <2>3. \/ Phase(p)' = Phase(p)
        \/ Phase(p) # "idle" /\ Phase(p)' = "failed"
    BY <1>0, <1>17 DEF Verify, Phase, OutcomeInv
  <2> QED BY <2>1, <2>2, <2>3, RegisterStutters, RegisterFails
<1>18. ASSUME NEW p \in Procs, Sweep(p) PROVE Goal
  <2>1. UNCHANGED <<head, expected, successor>>
    BY <1>18 DEF Sweep, storeVars, reqVars
  <2>2. \A q \in Procs : Phase(q)' = Phase(q)
    BY <1>0, <1>18 DEF Sweep, Phase
  <2> QED BY <2>1, <2>2, RegisterStutters
<1>19. ASSUME NEW p \in Procs, DropToken(p) PROVE Goal
  <2>1. UNCHANGED <<head, expected, successor>>
    BY <1>19 DEF DropToken, storeVars, reqVars
  <2>2. \A q \in Procs : Phase(q)' = Phase(q)
    BY <1>0, <1>19 DEF DropToken, Phase
  <2> QED BY <2>1, <2>2, RegisterStutters
<1>20. ASSUME NEW p \in Procs, RemoveStaging(p) PROVE Goal
  <2>1. UNCHANGED <<head, expected, successor>>
    BY <1>20 DEF RemoveStaging, storeVars, reqVars
  <2>2. \A q \in Procs : Phase(q)' = Phase(q)
    BY <1>0, <1>20 DEF RemoveStaging, Phase
  <2> QED BY <2>1, <2>2, RegisterStutters
<1>21. ASSUME NEW p \in Procs, Crash(p) PROVE Goal
  <2>1. UNCHANGED <<head, expected, successor>>
    BY <1>21 DEF Crash, storeVars, reqVars
  <2>2. Phase(p) # "idle" /\ Phase(p)' = "failed"
    BY <1>0, <1>21 DEF Crash, Phase, Running
  <2>3. \A q \in Procs \ {p} : Phase(q)' = Phase(q)
    BY <1>0, <1>21, PhaseFrame DEF Crash
  <2> QED BY <2>1, <2>2, <2>3, RegisterFails
<1>22. ASSUME NEW u \in Updates, Retain(u) PROVE Goal
  <2>1. UNCHANGED <<head, expected, successor, pc, outcome>>
    BY <1>22 DEF Retain, reqVars
  <2> QED BY <2>1, PhaseFrame, RegisterStutters
<1>23. ASSUME ExpireLease PROVE Goal
  <2>1. UNCHANGED <<head, expected, successor, pc, outcome>>
    BY <1>23 DEF ExpireLease, storeVars, reqVars
  <2> QED BY <2>1, PhaseFrame, RegisterStutters
<1>24. ASSUME UNCHANGED vars PROVE Goal
  <2>1. UNCHANGED <<head, expected, successor, pc, outcome>>
    BY <1>24 DEF vars, storeVars, reqVars
  <2> QED BY <2>1, PhaseFrame, RegisterStutters
<1>25. ASSUME NEW p \in Procs, AcquireFails(p) PROVE Goal
  <2>1. UNCHANGED <<head, expected, successor>>
    BY <1>25 DEF AcquireFails, storeVars, reqVars
  <2>2. Phase(p) # "idle" /\ Phase(p)' = "failed"
    BY <1>0, <1>25 DEF AcquireFails, Phase, OutcomeInv
  <2>3. \A q \in Procs \ {p} : Phase(q)' = Phase(q)
    BY <1>0, <1>25, PhaseFrame DEF AcquireFails
  <2> QED BY <2>1, <2>2, <2>3, RegisterFails
<1>26. ASSUME NEW p \in Procs, ReleaseFails(p) PROVE Goal
  <2>1. UNCHANGED <<head, expected, successor>>
    BY <1>26 DEF ReleaseFails, storeVars, reqVars
  <2>2. \A q \in Procs \ {p} : Phase(q)' = Phase(q)
    BY <1>0, <1>26, PhaseFrame DEF ReleaseFails
  <2>3. pc[p] \in {"sweep", "drop", "rmdir"} /\ pc'[p] = "idle" /\ outcome[p] # "none"
    BY <1>0, <1>26 DEF ReleaseFails
  <2>4. CASE outcome[p] \in {"committed", "idempotent"}
    <3>1. Phase(p) # "idle"
      BY <2>3, <2>4 DEF Phase
    <3>2. Phase(p)' = "failed"
      BY <1>0, <1>26, <2>3, <2>4 DEF ReleaseFails, ReleaseError, Phase
    <3> QED BY <2>1, <2>2, <3>1, <3>2, RegisterFails
  <2>5. CASE outcome[p] \notin {"committed", "idempotent"}
    <3>1. outcome'[p] = outcome[p]
      BY <1>0, <1>26, <2>5 DEF ReleaseFails, ReleaseError
    <3>2. Phase(p)' = Phase(p)
      BY <2>3, <3>1 DEF Phase
    <3> QED BY <2>1, <2>2, <3>2, RegisterStutters
  <2> QED BY <2>4, <2>5
<1> QED
  BY NextCases, <1>1, <1>2, <1>3, <1>4, <1>5, <1>6, <1>7, <1>8, <1>9, <1>10,
     <1>11, <1>12, <1>13, <1>14, <1>15, <1>16, <1>17, <1>18, <1>19, <1>20,
     <1>21, <1>22, <1>23, <1>24, <1>25, <1>26

\* Whatever the interleaving and wherever processes die, every answer of
\* CommitRegistration is that of an atomic compare-and-append of head.json at
\* one instant inside the call.
THEOREM StoreImplementsRegister ==
  ASSUME ExclusiveLease
  PROVE  Spec => ImplementsRegister
<1>1. Init => Register!Init /\ LeavingInv
  BY DEF Init, Register!Init, Phase, LeavingInv
<1>2. TypeOK /\ LeavingInv /\ [Next]_vars => LeavingInv'
  BY LeavingStep
<1>3. StoreInv /\ LeavingInv /\ [Next]_vars => [Register!Next]_(Register!vars)
  BY RegisterStep DEF StoreInv
<1>4. StoreInv => TypeOK
  BY DEF StoreInv
<1> QED
  BY <1>1, <1>2, <1>3, <1>4, StoreInvariant, PTL
     DEF Spec, ImplementsRegister, Register!Spec

=============================================================================
