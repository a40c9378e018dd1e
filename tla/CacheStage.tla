----------------------------- MODULE CacheStage -----------------------------
(* The Java runtime cache: processes that share it provision the pinned     *)
(* runtime under one file lock (runtimeclosure/provision.go), publish a     *)
(* staged tree with a rename and recover the stages that a killed process   *)
(* left behind by quarantining them (cachestage, fsatomic, filelock).       *)
(* Processes are killed between any two effects; others edit the public     *)
(* names of the cache without the lock.                                     *)
EXTENDS Integers, FiniteSets

CONSTANTS Procs, Stages, MaxKills, MaxEdits

VARIABLES lock,      \* holder of the provisioning lock
          stage,     \* stage[s]: "none", "part", "built" or "left" (archive only)
          quar,      \* quar[s]: the private directory for s: "none", "empty" or "object"
          ver,       \* ver[s]: edits of the tree by others since its receipt
          planted,   \* a reserved name holds something that is no stage
          target,    \* "none", "part", "good", "bad" or "foreign"
          pc, mine,  \* mine[p]: the stage p is building
          wit,       \* wit[s]: what the inventory of the holder witnessed, or -1
          after,     \* where the holder goes after recovery
          kills, edits,
          lost,      \* an edit was deleted that no inventory had seen
          held       \* planted, when the inventory was taken
vars == <<lock, stage, quar, ver, planted, target, pc, mine, wit, after, kills, edits, lost, held>>


Ended == {"ok", "error", "stuck", "dead"}
Building == {"extract", "receipt", "publish", "renamed"}
At(p, l) == lock = p /\ pc[p] = l
Go(p, l) == pc' = [pc EXCEPT ![p] = l]

----------------------------------------------------------------------------
(* filelock                                                                 *)

\* Mutant of tryExclusiveLock: the lock is one per process.
tryExclusiveLockOwn == TRUE

tryExclusiveLock == lock = "none"

AcquireFileWaitContext(p) ==
    /\ pc[p] = "wait" /\ tryExclusiveLock /\ lock' = p /\ Go(p, "inventory")
    /\ after' = [after EXCEPT ![p] = "target"]
    /\ UNCHANGED <<stage, quar, ver, planted, target, mine, wit, kills, edits, lost, held>>
waitForLock(p) == /\ pc[p] = "wait" /\ lock # "none" /\ Go(p, "error")
                  /\ UNCHANGED <<lock, stage, quar, ver, planted, target, mine, wit, after, kills, edits, lost, held>>
Call(p) == /\ pc[p] = "idle" /\ Go(p, "wait")
           /\ UNCHANGED <<lock, stage, quar, ver, planted, target, mine, wit, after, kills, edits, lost, held>>

\* Mutant of KernelRelease: a killed holder keeps the lock.
KernelReleaseNever(p) == lock' = lock

\* The kernel drops the lock of a process that is gone.
KernelRelease(p) == lock' = IF lock = p THEN "none" ELSE lock
Release(p, how) == /\ Go(p, how) /\ lock' = (IF lock = p THEN "none" ELSE lock)
                   /\ mine' = [mine EXCEPT ![p] = "none"] /\ wit' = [s \in Stages |-> -1]

----------------------------------------------------------------------------
(* cachestage.Recover: witness the whole reserved inventory, finish the     *)
(* quarantines, then quarantine and remove every stage.                     *)

Witnessed(s) == wit[s] >= 0

\* Mutant of validateInventory: an entry that cannot be recovered is passed over.
validateInventoryLater == TRUE

validateInventory == ~planted
Inventory(p) ==
    /\ At(p, "inventory")
    /\ \/ /\ validateInventory /\ Go(p, "remove")
          /\ wit' = [s \in Stages |-> IF stage[s] # "none" \/ quar[s] = "object" THEN ver[s] ELSE -1]
          /\ UNCHANGED <<lock, mine>>
       \/ ~validateInventory /\ Release(p, "error")
    /\ held' = planted /\ UNCHANGED <<stage, quar, ver, planted, target, after, kills, edits, lost>>

\* Mutant of FinishEmpty: a private directory without its object is refused.
FinishEmptyRefused(p, s) == /\ quar[s] = "empty" /\ Release(p, "stuck")
                            /\ UNCHANGED <<stage, quar, ver, lost>>

\* A private directory whose object was never moved in, or is gone.
FinishEmpty(p, s) == /\ quar[s] = "empty" /\ quar' = [quar EXCEPT ![s] = "none"]
                     /\ UNCHANGED <<lock, stage, ver, pc, mine, wit, lost>>

\* Mutant of compareTreeWitness: the object is the one whose name was moved.
compareTreeWitnessName(s) == TRUE

compareTreeWitness(s) == wit[s] = ver[s]
RemoveAll(p, s) ==
    /\ quar[s] = "object"
    /\ \/ /\ compareTreeWitness(s) /\ quar' = [quar EXCEPT ![s] = "empty"]
          /\ lost' = (lost \/ wit[s] # ver[s]) /\ wit' = [wit EXCEPT ![s] = -1] /\ ver' = [ver EXCEPT ![s] = 0]
          /\ UNCHANGED <<lock, pc, mine>>
       \/ ~compareTreeWitness(s) /\ Release(p, "error") /\ UNCHANGED <<quar, ver, lost>>
    /\ UNCHANGED stage

\* Quarantine makes the private directory and moves the stage into it.
Mkdir(p, s) == /\ stage[s] # "none" /\ Witnessed(s) /\ quar[s] = "none" /\ (\A t \in Stages : quar[t] = "none")
               /\ quar' = [quar EXCEPT ![s] = "empty"] /\ Go(p, "move")
               /\ UNCHANGED <<lock, stage, ver, mine, wit, lost>>
Move(p, s) == /\ At(p, "move") /\ quar[s] = "empty" /\ stage[s] # "none"
              /\ quar' = [quar EXCEPT ![s] = "object"] /\ stage' = [stage EXCEPT ![s] = "none"] /\ Go(p, "remove")
              /\ UNCHANGED <<lock, ver, planted, target, mine, wit, after, kills, edits, lost, held>>

recoverTrees(p) == /\ At(p, "remove") /\ \E s \in Stages : FinishEmpty(p, s) \/ RemoveAll(p, s) \/ Mkdir(p, s)
                   /\ UNCHANGED <<planted, target, after, kills, edits, held>>
Recovered(p) ==
    /\ At(p, "remove") /\ \A s \in Stages : quar[s] = "none" /\ ~(stage[s] # "none" /\ Witnessed(s))
    /\ \/ after[p] = "target" /\ Go(p, "target") /\ UNCHANGED <<lock, mine, wit>>
       \/ after[p] # "target" /\ Release(p, after[p])
    /\ UNCHANGED <<stage, quar, ver, planted, target, after, kills, edits, lost, held>>

\* The deferred recovery decides nothing but where the call ends.
Defer(p, how) == Go(p, "inventory") /\ after' = [after EXCEPT ![p] = how] /\ UNCHANGED <<lock, wit>>
                 /\ mine' = [mine EXCEPT ![p] = "none"]

\* Mutant of Finally: only a failed call cleans its stage.
FinallyFailed(p, how) == IF how = "ok" THEN Release(p, how) /\ UNCHANGED after ELSE Defer(p, how)

Finally(p, how) == Defer(p, how)

----------------------------------------------------------------------------
(* runtimeclosure: provisioning                                             *)

\* Mutant of validateProvisionedJavaHome: the receipt is enough.
validateProvisionedJavaHomeReceipt == target \in {"good", "bad"}

validateProvisionedJavaHome == target = "good"

\* A warm cache is validated; an absent one is built.
javaHomeInInstall(p) ==
    /\ At(p, "target")
    /\ \/ target # "none" /\ validateProvisionedJavaHome /\ Release(p, "ok") /\ UNCHANGED <<stage, ver>>
       \/ target # "none" /\ ~validateProvisionedJavaHome /\ Release(p, "error") /\ UNCHANGED <<stage, ver>>
       \/ /\ target = "none"
          /\ \E s \in Stages : /\ stage[s] = "none" /\ quar[s] = "none" /\ stage' = [stage EXCEPT ![s] = "part"]
                               /\ mine' = [mine EXCEPT ![p] = s] /\ ver' = [ver EXCEPT ![s] = 0]
          /\ Go(p, "extract") /\ UNCHANGED <<lock, wit>>
    /\ UNCHANGED <<quar, planted, target, after, kills, edits, lost, held>>

\* Mutant of Broken: a member that could not be written is skipped.
BrokenSkipped(p) == Go(p, "receipt") /\ UNCHANGED <<lock, mine, wit, after>>

Broken(p) == Finally(p, "error")
Extract(p) ==
    /\ At(p, "extract")
    /\ \/ stage' = [stage EXCEPT ![mine[p]] = "built"] /\ Go(p, "receipt") /\ UNCHANGED <<lock, mine, wit, after>>
       \/ Broken(p) /\ UNCHANGED stage
    /\ UNCHANGED <<quar, ver, planted, target, kills, edits, lost, held>>

\* The receipt vouches for what the tree holds when it is fingerprinted.
Receipt(p) == /\ At(p, "receipt") /\ Go(p, "publish") /\ ver' = [ver EXCEPT ![mine[p]] = 0]
              /\ UNCHANGED <<lock, stage, quar, planted, target, mine, wit, after, kills, edits, lost, held>>

\* PublishTree: the tree is witnessed, then renamed where nothing stands.
PublishTree(p) ==
    /\ At(p, "publish")
    /\ \/ /\ wit' = [wit EXCEPT ![mine[p]] = ver[mine[p]]] /\ Go(p, "renamed") /\ UNCHANGED <<lock, mine, after>>
       \/ target # "none" /\ Finally(p, "error")
    /\ UNCHANGED <<stage, quar, ver, planted, target, kills, edits, lost, held>>

\* Mutant of RenameNoReplace: what stands there is replaced.
RenameNoReplaceOver(s) == stage[s] # "none"

RenameNoReplace(s) == stage[s] # "none" /\ target = "none"

\* Mutant of Installed: the target is the stage itself.
InstalledStage(s) == stage[s]

Installed(s) == IF stage[s] = "part" THEN "part" ELSE IF ver[s] = 0 THEN "good" ELSE "bad"
Rename(p) ==
    /\ At(p, "renamed")
    /\ \/ /\ RenameNoReplace(mine[p]) /\ compareTreeWitness(mine[p])
          /\ target' = Installed(mine[p]) /\ stage' = [stage EXCEPT ![mine[p]] = "left"]
          /\ Finally(p, IF Installed(mine[p]) = "good" THEN "ok" ELSE "error")
       \/ /\ ~(RenameNoReplace(mine[p]) /\ compareTreeWitness(mine[p])) /\ Finally(p, "error")
          /\ UNCHANGED <<stage, target>>
    /\ UNCHANGED <<quar, ver, planted, kills, edits, lost, held>>

----------------------------------------------------------------------------
(* A process is killed; others edit what has a public name.                 *)

\* RemoveAll of the killed process may have removed part of the object.
Kill(p) == /\ pc[p] \notin Ended \cup {"idle"} /\ kills < MaxKills /\ kills' = kills + 1
           /\ Go(p, "dead") /\ KernelRelease(p) /\ mine' = [mine EXCEPT ![p] = "none"]
           /\ UNCHANGED <<stage, quar, ver, planted, target, wit, after, edits, lost, held>>

Edit == /\ edits < MaxEdits /\ edits' = edits + 1
        /\ \/ \E s \in Stages : stage[s] # "none" /\ ver' = [ver EXCEPT ![s] = @ + 1] /\ UNCHANGED <<planted, target>>
           \/ planted' = ~planted /\ UNCHANGED <<ver, target>>
           \/ target = "good" /\ target' \in {"bad", "none"} /\ UNCHANGED <<ver, planted>>
           \/ target = "none" /\ target' = "foreign" /\ UNCHANGED <<ver, planted>>
        /\ UNCHANGED <<lock, stage, quar, pc, mine, wit, after, kills, lost, held>>

Init == /\ lock = "none" /\ stage = [s \in Stages |-> "none"] /\ quar = [s \in Stages |-> "none"]
        /\ ver = [s \in Stages |-> 0] /\ planted = FALSE /\ target = "none"
        /\ pc = [p \in Procs |-> "idle"] /\ mine = [p \in Procs |-> "none"] /\ wit = [s \in Stages |-> -1]
        /\ after = [p \in Procs |-> "target"] /\ kills = 0 /\ edits = 0 /\ lost = FALSE /\ held = FALSE
Work(p) == AcquireFileWaitContext(p) \/ Inventory(p) \/ recoverTrees(p) \/ Recovered(p) \/ javaHomeInInstall(p)
           \/ Extract(p) \/ Receipt(p) \/ PublishTree(p) \/ Rename(p) \/ \E s \in Stages : Move(p, s)
Next == Edit \/ \E p \in Procs : Call(p) \/ Work(p) \/ waitForLock(p) \/ Kill(p)
Spec == Init /\ [][Next]_vars /\ \A p \in Procs : WF_vars(Work(p))

----------------------------------------------------------------------------
(* Properties.                                                              *)

TypeOK == /\ lock \in Procs \cup {"none"} /\ stage \in [Stages -> {"none", "part", "built", "left"}]
          /\ quar \in [Stages -> {"none", "empty", "object"}]
          /\ target \in {"none", "part", "good", "bad", "foreign"} /\ \A p \in Procs : mine[p] \in Stages \cup {"none"}

\* A stage belongs to the live process that builds it: nobody recovers, moves
\* or publishes it.
LiveStageKept == \A p \in Procs : pc[p] \in Building => mine[p] # "none" /\ stage[mine[p]] \in {"part", "built"}

\* Recovery deletes only what its inventory saw: an edit made between the
\* inventory and the removal is preserved in its private directory.
NothingUnseenDeleted == ~lost

\* The target is published whole or not at all, whatever is killed.
TargetWhole == target # "part"

\* No killed process makes the cache unusable: recovery of what it left does
\* not fail.
NeverStuck == \A p \in Procs : pc[p] # "stuck"

\* An inventory with a reserved entry that is no stage is left as it is: a
\* stage disappears only under a holder that found none.
WholeInventoryFirst ==
    (\E s \in Stages : stage[s] \in {"part", "built"} /\ stage'[s] = "none") => ~held

\* What others put at the target is never replaced.
TargetNotReplaced == (target \in {"foreign", "bad"}) => target' = target

\* A launcher is returned of a runtime that was validated against its receipt.
ReturnedValid == \A p \in Procs : pc[p] = "target" /\ pc'[p] = "ok" => target = "good"

\* A call that succeeded leaves neither stages nor quarantines, unless others
\* edited the cache or other calls are building.
CleanEnd == \A p \in Procs : (pc[p] # "ok" /\ pc'[p] = "ok" /\ edits = 0) =>
                \A s \in Stages : stage'[s] = "none" /\ quar'[s] = "none"

\* Every caller that waits for the lock gets an answer, also when holders die.
Waiting(p) == pc[p] = "wait"
HasAnswer(p) == pc[p] \in Ended
=============================================================================
