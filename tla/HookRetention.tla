----------------------------- MODULE HookRetention -----------------------------
(***************************************************************************)
(* Compaction of the hook store (internal/hook/retention.go).  A store above   *)
(* its bound loses whole generations: the ledger, route snapshots and crash    *)
(* evidence of a project whose root no longer exists.  A pass groups the       *)
(* entries it read once, screens each generation without a lock, and reclaims  *)
(* in batches under the store's lock, proving each death again under the       *)
(* project's own lock.  Meanwhile other processes arm and clear ledgers, and   *)
(* roots vanish and return.                                                    *)
(***************************************************************************)
EXTENDS Naturals, FiniteSets, FiniteSetsExt, SequencesExt

CONSTANTS Projects,
          Ceiling, Target,  \* hookStateDirRetentionCeiling, hookStateDirRetentionTarget
          Batch,            \* hookStateReclaimBatch
          MaxRoutes,        \* route snapshots of one project
          MaxArms, MaxMoves, MaxKills


VARIABLES
  root,     \* root[p]: "there", "gone", or "unknown" when it cannot be inspected
  led,      \* led[p]: the ledger: "none", "ok", "corrupt", "rootless"
  routes,   \* routes[p]: the sessions with a route snapshot
  temp,     \* projects with the durable temp of a write
  crashed,  \* projects with a preserved crash temp
  stamp,    \* stamp[p]: when the ledger was written
  lock,     \* lock[p]: who holds the project's state lock
  C,        \* the compaction pass
  owed,     \* projects with a root that have an unchecked change
  arms, moves, kills

store == <<led, routes, temp, crashed, stamp>>
bounds == <<arms, moves, kills>>
vars == <<root, store, lock, C, owed, bounds>>

NoC == [pc |-> "idle", own |-> {}, todo |-> <<>>, batch |-> <<>>, blocked |-> {},
        routes |-> [p \in Projects |-> {}], crashed |-> {}, need |-> 0, left |-> 0]

Init ==
  /\ root \in [Projects -> {"there", "gone", "unknown"}]
  /\ led \in [Projects -> {"ok", "corrupt", "rootless"}]
  /\ Cardinality({p \in Projects : led[p] # "ok" \/ root[p] = "unknown"}) <= 1
  /\ \E p \in Projects : routes \in [Projects -> {{}}] \cup {[r \in Projects |-> IF r = p THEN {1} ELSE {}]}
  /\ temp = {} /\ crashed = {}
  /\ stamp = [p \in Projects |-> 0] /\ lock = [p \in Projects |-> "free"]
  /\ C = NoC /\ owed = {p \in Projects : root[p] # "gone"}
  /\ arms = 0 /\ moves = 0 /\ kills = 0

Ledgers == {p \in Projects : led[p] # "none"}
Entries ==
  Cardinality(Ledgers) + Cardinality(temp) + Cardinality(crashed)
    + MapThenSumSet(LAMBDA p : Cardinality(routes[p]), Projects)

-----------------------------------------------------------------------------
(* Arming and stopping in one project. *)

\* A write begins: the lock, what an interrupted write left, and a durable temp.
ArmBegin(p) ==
  /\ root[p] = "there" /\ lock[p] = "free" /\ led[p] \in {"none", "ok", "rootless"}
  /\ arms < MaxArms /\ arms' = arms + 1
  /\ lock' = [lock EXCEPT ![p] = "armer"]
  /\ crashed' = (IF p \in temp THEN crashed \cup {p} ELSE crashed) /\ temp' = temp \cup {p}
  /\ UNCHANGED <<root, led, routes, stamp, C, owed, moves, kills>>

\* groupHookStateGenerations, oldest ledger first.
Older(p, r) == stamp[p] < stamp[r]
Grouped == SetToSortSeq({p \in Projects : p \in Ledgers \/ routes[p] # {}}, Older)

\* compactHookStateDir, as far as the grouping.
Pass(own) ==
  [NoC EXCEPT !.pc = "screen", !.own = own, !.todo = Grouped, !.blocked = temp,
              !.routes = routes, !.crashed = crashed,
              !.need = Entries - Target, !.left = Entries]

\* The ledger and a route snapshot are in place.  The write path then bounds the store
\* while it holds the project's lock, unless another pass is under way.
ArmEnd(p) ==
  /\ lock[p] = "armer" /\ p \in temp
  /\ temp' = temp \ {p} /\ led' = [led EXCEPT ![p] = "ok"] /\ stamp' = [stamp EXCEPT ![p] = arms]
  /\ \E s \in 1..MaxRoutes : routes' = [routes EXCEPT ![p] = @ \cup {s}]
  /\ owed' = (IF root[p] = "gone" THEN owed ELSE owed \cup {p})
  /\ UNCHANGED <<root, crashed, lock, C, bounds>>

Bounded(p) ==
  /\ lock[p] = "armer" /\ p \notin temp
  /\ \/ /\ Entries <= Ceiling \/ C.pc # "idle"
        /\ lock' = [lock EXCEPT ![p] = "free"] /\ UNCHANGED C
     \/ /\ Entries > Ceiling /\ C.pc = "idle"
        /\ C' = Pass({p}) /\ lock' = [lock EXCEPT ![p] = "bounding"]
  /\ UNCHANGED <<root, store, owed, bounds>>

ArmKilled(p) ==
  /\ lock[p] = "armer" /\ kills < MaxKills /\ kills' = kills + 1
  /\ lock' = [lock EXCEPT ![p] = "free"]
  /\ UNCHANGED <<root, store, C, owed, arms, moves>>

\* A Stop whose gates pass removes the ledger and the snapshots.
Stop(p) ==
  /\ root[p] = "there" /\ lock[p] = "free" /\ led[p] = "ok" /\ p \notin temp
  /\ led' = [led EXCEPT ![p] = "none"] /\ routes' = [routes EXCEPT ![p] = {}]
  /\ owed' = owed \ {p}
  /\ UNCHANGED <<root, temp, crashed, stamp, lock, C, bounds>>

\* A root is deleted or its volume detached: there is nothing left to check there.
Vanish(p) ==
  /\ root[p] = "there" /\ moves < MaxMoves /\ moves' = moves + 1
  /\ root' = [root EXCEPT ![p] = "gone"] /\ owed' = owed \ {p}
  /\ UNCHANGED <<store, lock, C, arms, kills>>
Return(p) ==
  /\ root[p] = "gone" /\ moves < MaxMoves /\ moves' = moves + 1
  /\ root' = [root EXCEPT ![p] = "there"]
  /\ UNCHANGED <<store, lock, C, owed, arms, kills>>

-----------------------------------------------------------------------------
(* The pass. *)

\* machinery doctor --repair.
Repair ==
  /\ C.pc = "idle" /\ Entries > Target /\ C' = Pass({})
  /\ UNCHANGED <<root, store, lock, owed, bounds>>

\* Mutant of Vanished: a ledger that records no root is judged by the root it should have.
VanishedUnrecorded(p) == root[p] = "gone"
\* hookStateRootVanished.
Vanished(p) == led[p] # "rootless" /\ root[p] = "gone"
\* hookStateGenerationLooksDead.
LooksDead(p) == led[p] \notin {"none", "corrupt"} /\ Vanished(p)
Size(p) == 1 + Cardinality(C.routes[p]) + (IF p \in C.crashed THEN 1 ELSE 0)

Screen ==
  /\ C.pc = "screen" /\ C.todo # <<>> /\ C.need > 0
  /\ LET p == Head(C.todo)
         dead == p \notin C.blocked /\ LooksDead(p)
         more == IF dead THEN Append(C.batch, p) ELSE C.batch
     IN C' = [C EXCEPT !.todo = Tail(@), !.batch = more,
                       !.need = IF dead /\ @ > Size(p) THEN @ - Size(p) ELSE IF dead THEN 0 ELSE @,
                       !.pc = IF Len(more) = Batch /\ dead THEN "flush" ELSE "screen"]
  /\ UNCHANGED <<root, store, lock, owed, bounds>>

Screened ==
  /\ C.pc = "screen" /\ (C.todo = <<>> \/ C.need = 0) /\ C.batch # <<>>
  /\ C' = [C EXCEPT !.pc = "last"]
  /\ UNCHANGED <<root, store, lock, owed, bounds>>

Flushing == C.pc \in {"flush", "last"}

\* Mutant of Claimable: what the screen found is not proved again.
ClaimableScreened(p) == lock[p] = "free" /\ led[p] # "none"

\* reclaimHookStateGeneration: the lock is taken and everything is read again.
Claimable(p) == lock[p] = "free" /\ LooksDead(p)

Claim ==
  /\ Flushing /\ C.batch # <<>>
  /\ LET p == Head(C.batch) IN
     \/ /\ Claimable(p) /\ lock' = [lock EXCEPT ![p] = "compactor"]
        /\ UNCHANGED C
     \/ /\ lock[p] # "compactor" /\ ~Claimable(p)
        /\ C' = [C EXCEPT !.batch = Tail(@)] /\ UNCHANGED lock
  /\ UNCHANGED <<root, store, owed, bounds>>

\* What the grouping saw of p beside its ledger, and is still there.
Extras(p) == <<({p} \cap crashed) \cap C.crashed, routes[p] \cap C.routes[p]>>
ExtrasLeft(p) == Cardinality(Extras(p)[1]) + Cardinality(Extras(p)[2])

\* The crash evidence and the snapshots of the grouping go first.
RemoveExtras ==
  /\ Flushing /\ C.batch # <<>> /\ lock[Head(C.batch)] = "compactor"
  /\ LET p == Head(C.batch) IN
     /\ ExtrasLeft(p) > 0 /\ C' = [C EXCEPT !.left = @ - ExtrasLeft(p)]
     /\ crashed' = crashed \ Extras(p)[1]
     /\ routes' = [routes EXCEPT ![p] = @ \ Extras(p)[2]]
  /\ UNCHANGED <<root, led, temp, stamp, lock, owed, bounds>>

\* Mutant of RemoveLedger: the lock stays with the compactor.
RemoveLedgerLocked ==
  /\ Flushing /\ C.batch # <<>> /\ lock[Head(C.batch)] = "compactor"
  /\ LET p == Head(C.batch) IN
     /\ ExtrasLeft(p) = 0 /\ led' = [led EXCEPT ![p] = "none"]
     /\ C' = [C EXCEPT !.batch = Tail(@), !.left = @ - 1]
  /\ UNCHANGED <<root, routes, temp, crashed, stamp, lock, owed, bounds>>

RemoveLedger ==
  /\ Flushing /\ C.batch # <<>> /\ lock[Head(C.batch)] = "compactor"
  /\ LET p == Head(C.batch) IN
     /\ ExtrasLeft(p) = 0
     /\ led' = [led EXCEPT ![p] = "none"] /\ lock' = [lock EXCEPT ![p] = "free"]
     /\ C' = [C EXCEPT !.batch = Tail(@), !.left = @ - 1]
  /\ UNCHANGED <<root, routes, temp, crashed, stamp, owed, bounds>>

\* Mutant of Flushed: the next batch begins before the pass looked for more.
FlushedAgain == C.pc = "flush" /\ C.batch = <<>> /\ UNCHANGED vars

\* After a full batch the need is computed again; after the last one the pass ends.
Flushed ==
  /\ C.pc = "flush" /\ C.batch = <<>>
  /\ C' = [C EXCEPT !.pc = "screen", !.need = IF C.left > Target THEN C.left - Target ELSE 0]
  /\ UNCHANGED <<root, store, lock, owed, bounds>>

\* The pass is over, and the write that began it lets go of its project.
PassEnds ==
  /\ C.batch = <<>>
  /\ C.pc = "last" \/ (C.pc = "screen" /\ (C.todo = <<>> \/ C.need = 0))
  /\ C' = [NoC EXCEPT !.left = C.left]
  /\ lock' = [p \in Projects |-> IF p \in C.own THEN "free" ELSE lock[p]]
  /\ UNCHANGED <<root, store, owed, bounds>>

PassKilled ==
  /\ C.pc # "idle" /\ kills < MaxKills /\ kills' = kills + 1 /\ C' = NoC
  /\ lock' = [p \in Projects |-> IF p \in C.own \/ lock[p] = "compactor" THEN "free" ELSE lock[p]]
  /\ UNCHANGED <<root, store, owed, arms, moves>>

PassNext ==
  Screen \/ Screened \/ Claim \/ RemoveExtras \/ RemoveLedger \/ Flushed \/ PassEnds
Next ==
  \/ \E p \in Projects : ArmBegin(p) \/ ArmEnd(p) \/ Bounded(p) \/ ArmKilled(p) \/ Stop(p)
                           \/ Vanish(p) \/ Return(p)
  \/ Repair \/ PassNext \/ PassKilled

Spec == Init /\ [][Next]_vars
\* A pass runs on its own: nothing it waits for is unbounded.
FairSpec == Spec /\ WF_vars(PassNext)

-----------------------------------------------------------------------------
(* Properties. *)

\* The state holds values of its type; the compactor holds at most the lock of the
\* generation it is removing.
TypeOK ==
  /\ root \in [Projects -> {"there", "gone", "unknown"}]
  /\ led \in [Projects -> {"none", "ok", "corrupt", "rootless"}]
  /\ routes \in [Projects -> SUBSET (1..MaxRoutes)]
  /\ lock \in [Projects -> {"free", "armer", "bounding", "compactor"}]
  /\ \A p \in Projects : lock[p] = "compactor" => Flushing /\ C.batch # <<>> /\ p = Head(C.batch)

\* compactHookStateDir: a pass never discharges the obligation of a project whose root is
\* there, however the root and the ledger changed since the pass looked at them.
LiveKept == \A p \in owed : led[p] # "none"

\* A ledger that cannot be read, or names no root, is never reclaimed.
UnprovableKept ==
  \A p \in Projects :
       (led[p] = "corrupt" => led'[p] = "corrupt") /\ (led[p] = "rootless" => led'[p] # "none")

\* reclaimHookStateGeneration: routes first and the ledger last: an interrupted pass leaves
\* no snapshot without its ledger, unless the snapshot was written after the grouping.
NothingOrphaned == \A p \in Projects : led[p] = "none" => routes[p] = {} /\ p \notin crashed

\* A durable crash temp retains its whole generation.
EvidenceRetains ==
  \A p \in Projects : p \in temp /\ lock[p] = "compactor" => led'[p] = led[p]

\* A pass that ends above the target has tried every generation that is dead: the store is
\* full of projects whose roots exist.
TargetOrAlive ==
  (PassEnds /\ C.left > Target)
       => \A p \in ToSet(C.todo) : ~LooksDead(p) \/ p \in C.blocked

\* A pass ends.
PassesEnd == (C.pc # "idle") ~> (C.pc = "idle")
================================================================================
