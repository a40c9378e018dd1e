------------------------------ MODULE EmbedTx ------------------------------
(* The embed-refresh transaction (internal/gates).  The documents whose     *)
(* copied tables drifted are replaced together: a journal names them, each  *)
(* new document is written beside the old one, the old one is parked under  *)
(* a backup name by a link and an unlink, the new one takes its place.  The *)
(* phase "committed" is a second file beside the prepared journal.  An      *)
(* error rolls the plan back in the same process; a later process rolls an  *)
(* interrupted plan forward.  People edit documents at any time.            *)
EXTENDS Integers, FiniteSets

CONSTANTS Docs,                \* numbered in the order of the journal
          MaxKills, MaxFaults, MaxEdits


\* A person writes even contents; the refreshed form of content c is c + 1.
Absent == 0
Torn == -1
Refreshed(c) == c + 1
Drifted(c) == c # Absent /\ c % 2 = 0
Slots == {"target", "temp", "backup"}
Controls == {"journal", "stage"}

VARIABLES file,        \* [Docs -> [Slots -> content]]
          linked,      \* documents whose target and backup are one inode
          control,     \* [Controls -> none, torn, prepared or committed]
          quarantine,  \* NoQuarantine, or what a removal set aside
          plan, old,   \* the documents of the journal and their pre-images
          pc, todo,    \* the process and the documents it still has to treat
          recovering,  \* it replays a plan it found
          latest,      \* [Docs -> last content a person wrote]
          edited,      \* documents edited since the plan was made
          torn,        \* a write was cut short
          kills, faults, edits

vars == <<file, linked, control, quarantine, plan, old, pc, todo, recovering,
          latest, edited, torn, kills, faults, edits>>
disk == <<file, linked, control, quarantine>>
bounds == <<kills, faults, edits>>

NoQuarantine == [doc |-> 0, slot |-> "none", holds |-> "empty", content |-> Absent]
New(i) == Refreshed(old[i])

Init == /\ file = [i \in Docs |-> [target |-> 2, temp |-> Absent, backup |-> Absent]]
        /\ linked = {}
        /\ control = [c \in Controls |-> "none"]
        /\ quarantine = NoQuarantine
        /\ plan = {} /\ old = [i \in Docs |-> Absent]
        /\ pc = "idle" /\ todo = {} /\ recovering = FALSE
        /\ latest = [i \in Docs |-> 2] /\ edited = {} /\ torn = FALSE
        /\ kills = 0 /\ faults = 0 /\ edits = 0

First == CHOOSE i \in todo : \A j \in todo : i <= j
Last == CHOOSE i \in todo : \A j \in todo : j <= i
Goto(next, ds) == pc' = next /\ todo' = ds
Residue == \/ \E c \in Controls : control[c] # "none"
           \/ quarantine # NoQuarantine
           \/ \E i \in Docs : file[i].temp # Absent \/ file[i].backup # Absent

----------------------------------------------------------------------------
(* Starting: what is found decides between planning and recovering.         *)

\* A removal that was cut short is undone: the object goes back to its name,
\* unless the name was taken again.
Repopulated == /\ quarantine.slot = "target" /\ quarantine.holds = "full"
               /\ file[quarantine.doc].target # Absent

Resume ==
    /\ quarantine # NoQuarantine /\ ~Repopulated
    /\ quarantine' = NoQuarantine
    /\ IF quarantine.holds = "empty" THEN UNCHANGED <<file, linked, control>>
       ELSE IF quarantine.slot \in Controls
       THEN /\ control' = [control EXCEPT ![quarantine.slot] =
                            IF quarantine.content = 1 THEN "prepared" ELSE "committed"]
            /\ UNCHANGED <<file, linked>>
       ELSE /\ file' = [file EXCEPT ![quarantine.doc][quarantine.slot] = quarantine.content]
            /\ linked' = IF file'[quarantine.doc].target = file'[quarantine.doc].backup
                         THEN linked \cup {quarantine.doc} ELSE linked
            /\ UNCHANGED control

Start == /\ pc = "idle"
         /\ Residue \/ \E i \in Docs : Drifted(file[i].target)
         /\ \/ Resume /\ UNCHANGED pc
            \/ /\ quarantine = NoQuarantine /\ UNCHANGED disk
               /\ pc' = IF \E c \in Controls : control[c] # "none" THEN "recover" ELSE "plan"
         /\ recovering' = FALSE
         /\ UNCHANGED <<plan, old, todo, latest, edited, torn, bounds>>

\* The plan is the set of drifted documents; reserved names must be free.
Plan == /\ pc = "plan"
        /\ IF Residue \/ \A i \in Docs : ~Drifted(file[i].target)
           THEN Goto("idle", {}) /\ UNCHANGED <<plan, old, edited>>
           ELSE /\ plan' = {i \in Docs : Drifted(file[i].target)}
                /\ old' = [i \in Docs |-> file[i].target]
                /\ edited' = {}
                /\ Goto("preflight", {})
        /\ UNCHANGED <<disk, recovering, latest, torn, bounds>>

Preflight == /\ pc = "preflight"
             /\ Goto(IF \A i \in plan : file[i].target = old[i] THEN "prepare" ELSE "idle", {})
             /\ UNCHANGED <<disk, plan, old, recovering, latest, edited, torn, bounds>>

\* The journal is written as a stage and renamed to its name.

\* Mutant of WriteStage: the phase replaces the journal as well.
WriteStageOver(phase) == control' = [c \in Controls |-> phase]

WriteStage(phase) == control' = [control EXCEPT !.stage = phase]
Promote == control' = [journal |-> control.stage, stage |-> "none"]

Prepare == /\ pc = "prepare"
           /\ IF control.stage = "none" THEN WriteStage("prepared") /\ UNCHANGED <<pc, todo>>
              ELSE Promote /\ Goto("forward", plan)
           /\ UNCHANGED <<file, linked, quarantine, plan, old, recovering, latest, edited, torn, bounds>>

\* A lone stage is promoted; a committed stage beside the prepared journal
\* is the later phase.  Anything else is refused.
PhaseFound == IF control.stage # "none" THEN control.stage ELSE control.journal
Recognised == /\ control.stage # "torn"
              /\ control.journal # "none" /\ control.stage # "none"
                    => control.journal = "prepared" /\ control.stage = "committed"

\* Mutant of Recover: what is left is tidied up instead of replayed.
RecoverTidies ==
    /\ pc = "recover"
    /\ file' = [i \in Docs |-> [target |-> IF file[i].target = Absent THEN file[i].backup ELSE file[i].target,
                               temp |-> Absent, backup |-> Absent]]
    /\ linked' = {} /\ control' = [c \in Controls |-> "none"] /\ Goto("idle", {})
    /\ UNCHANGED <<quarantine, plan, old, recovering, latest, edited, torn, bounds>>

Recover == /\ pc = "recover"
           /\ recovering' = TRUE
           /\ IF ~Recognised THEN UNCHANGED control /\ Goto("idle", {})
              ELSE /\ IF control.journal = "none" THEN Promote ELSE UNCHANGED control
                   /\ Goto(IF PhaseFound = "prepared" THEN "forward" ELSE "finalize", plan)
           /\ UNCHANGED <<file, linked, quarantine, plan, old, latest, edited, torn, bounds>>

----------------------------------------------------------------------------
(* Forward: one document at a time, by what is found on disk.               *)

\* Mutant of Forwards: an existing target is never looked at.
ForwardsBlind(i) ==
    LET f == file[i] IN
    IF f.temp \notin {Absent, New(i)} \/ f.backup \notin {Absent, old[i]} THEN "refuse"
    ELSE IF i \in linked THEN "unlink"
    ELSE IF f.target # New(i) /\ f.backup = Absent THEN (IF f.temp = Absent THEN "write" ELSE "link")
    ELSE IF f.target # New(i) /\ f.backup # Absent THEN (IF f.temp = Absent THEN "write" ELSE "install")
    ELSE (IF f.temp # Absent THEN "drop" ELSE "done")

Forwards(i) ==
    LET f == file[i] IN
    IF f.temp \notin {Absent, New(i)} \/ f.backup \notin {Absent, old[i]} THEN "refuse"
    ELSE IF i \in linked /\ f.target = old[i] THEN "unlink"
    ELSE IF f.target = New(i) /\ f.backup # Absent THEN (IF f.temp # Absent THEN "drop" ELSE "done")
    ELSE IF f.target = old[i] /\ f.backup = Absent THEN (IF f.temp = Absent THEN "write" ELSE "link")
    ELSE IF f.target = Absent /\ f.backup # Absent THEN (IF f.temp = Absent THEN "write" ELSE "install")
    ELSE "refuse"

\* What each step leaves on disk.
Written(i) == [file EXCEPT ![i].temp = New(i)]
Without(i, slot) == [file EXCEPT ![i][slot] = Absent]
Linking(i) == [file EXCEPT ![i].backup = file[i].target]
Installed(i) == [file EXCEPT ![i].target = file[i].temp, ![i].temp = Absent]

Stopped == IF recovering THEN Goto("idle", {}) ELSE Goto("rollback", plan)

Forward ==
    /\ pc = "forward" /\ todo # {}
    /\ LET i == First IN
       CASE Forwards(i) = "write" -> file' = Written(i) /\ UNCHANGED <<linked, pc, todo>>
         [] Forwards(i) = "link" -> file' = Linking(i) /\ linked' = linked \cup {i} /\ UNCHANGED <<pc, todo>>
         [] Forwards(i) = "unlink" -> file' = Without(i, "target") /\ linked' = linked \ {i} /\ UNCHANGED <<pc, todo>>
         [] Forwards(i) = "install" -> file' = Installed(i) /\ UNCHANGED <<linked, pc, todo>>
         [] Forwards(i) = "drop" -> file' = Without(i, "temp") /\ UNCHANGED <<linked, pc, todo>>
         [] Forwards(i) = "done" -> UNCHANGED <<file, linked, pc>> /\ todo' = todo \ {i}
         [] OTHER -> UNCHANGED <<file, linked>> /\ Stopped
    /\ UNCHANGED <<control, quarantine, plan, old, recovering, latest, edited, torn, bounds>>

\* The committed phase is written beside the prepared journal.
Commit == /\ pc = "forward" /\ todo = {}
          /\ WriteStage("committed") /\ Goto("finalize", plan)
          /\ UNCHANGED <<file, linked, quarantine, plan, old, recovering, latest, edited, torn, bounds>>

----------------------------------------------------------------------------
(* Rollback, only in the process that met the error.                        *)

\* Mutant of Rolls: whatever stands at the target's name is removed.
RollsAny(i) ==
    LET f == file[i] IN
    IF i \in linked THEN "unlink"
    ELSE IF f.backup # Absent /\ f.target = Absent THEN "restore"
    ELSE IF f.backup # Absent THEN "remove"
    ELSE IF f.temp # Absent THEN "drop"
    ELSE "done"

Rolls(i) ==
    LET f == file[i] IN
    IF f.backup # Absent /\ i \in linked /\ f.target = old[i] THEN "unlink"
    ELSE IF f.backup # Absent /\ f.target = Absent THEN "restore"
    ELSE IF f.backup # Absent /\ f.target = New(i) THEN "remove"
    ELSE IF f.backup # Absent THEN "refuse"
    ELSE IF f.target # old[i] THEN "refuse"
    ELSE IF f.temp = New(i) THEN "drop"
    ELSE IF f.temp # Absent THEN "refuse"
    ELSE "done"

Rollback ==
    /\ pc = "rollback" /\ todo # {}
    /\ LET i == Last IN
       CASE Rolls(i) = "unlink" -> file' = Without(i, "backup") /\ linked' = linked \ {i} /\ UNCHANGED <<pc, todo>>
         [] Rolls(i) = "remove" -> file' = Without(i, "target") /\ UNCHANGED <<linked, pc, todo>>
         [] Rolls(i) = "restore" -> /\ file' = [file EXCEPT ![i].target = file[i].backup]
                                    /\ linked' = linked \cup {i} /\ UNCHANGED <<pc, todo>>
         [] Rolls(i) = "drop" -> file' = Without(i, "temp") /\ UNCHANGED <<linked, pc, todo>>
         [] Rolls(i) = "done" -> UNCHANGED <<file, linked, pc>> /\ todo' = todo \ {i}
         [] OTHER -> UNCHANGED <<file, linked>> /\ Goto("idle", {})
    /\ UNCHANGED <<control, quarantine, plan, old, recovering, latest, edited, torn, bounds>>

----------------------------------------------------------------------------
(* Finalization removes temps and backups, then the older record first.     *)

\* Mutant of Finals: the backup is not looked at.
FinalsBackup(i) ==
    LET f == file[i] IN
    IF f.target # New(i) THEN "refuse" ELSE IF f.temp # Absent THEN "temp" ELSE "done"

Finals(i) ==
    LET f == file[i] IN
    IF f.target # New(i) THEN "refuse"
    ELSE IF f.temp = New(i) THEN "temp"
    ELSE IF f.temp # Absent THEN "refuse"
    ELSE IF f.backup = old[i] THEN "backup"
    ELSE IF f.backup # Absent THEN "refuse"
    ELSE "done"

Finalize ==
    /\ pc = "finalize" /\ todo # {}
    /\ LET i == First IN
       CASE Finals(i) \in {"temp", "backup"} ->
                 /\ file' = Without(i, Finals(i)) /\ linked' = linked \ {i} /\ UNCHANGED <<pc, todo>>
         [] Finals(i) = "done" -> UNCHANGED <<file, linked, pc>> /\ todo' = todo \ {i}
         [] OTHER -> UNCHANGED <<file, linked>> /\ Goto("idle", {})
    /\ UNCHANGED <<control, quarantine, plan, old, recovering, latest, edited, torn, bounds>>

\* The journal goes only while every target is what its phase says.
Promised(i) == IF pc = "finalize" THEN New(i) ELSE old[i]
Removing == pc \in {"finalize", "rollback"} /\ todo = {}

\* Mutant of NextControl: the committed record goes before the prepared one.
NextControlNewest == IF control.stage # "none" THEN "stage" ELSE "journal"

NextControl == IF control.journal # "none" THEN "journal" ELSE "stage"

RemoveJournal ==
    /\ Removing
    /\ IF (\A c \in Controls : control[c] = "none") \/ (\E i \in plan : file[i].target # Promised(i))
       THEN UNCHANGED control /\ Goto("idle", {})
       ELSE control' = [control EXCEPT ![NextControl] = "none"] /\ UNCHANGED <<pc, todo>>
    /\ UNCHANGED <<file, linked, quarantine, plan, old, recovering, latest, edited, torn, bounds>>

----------------------------------------------------------------------------
(* Faults, kills and people.                                                *)

\* A system call fails.  Only before the committed record is a failure
\* followed by a rollback.

\* Mutant of AfterFault: a failure to commit is rolled back as well.
AfterFaultRollsBack ==
    IF pc \in {"forward", "finalize"} /\ ~recovering THEN Goto("rollback", plan) ELSE Goto("idle", {})

AfterFault ==
    IF pc = "forward" /\ todo # {} /\ ~recovering THEN Goto("rollback", plan) ELSE Goto("idle", {})

Fault == /\ pc # "idle" /\ faults < MaxFaults /\ faults' = faults + 1
         /\ AfterFault
         /\ UNCHANGED <<disk, plan, old, recovering, latest, edited, torn, kills, edits>>

Kill == /\ pc # "idle" /\ kills < MaxKills /\ kills' = kills + 1
        /\ Goto("idle", {})
        /\ UNCHANGED <<disk, plan, old, recovering, latest, edited, torn, faults, edits>>

\* A kill inside a write leaves a part of the file.
Writing == \/ pc = "prepare" /\ control.stage = "none"
           \/ pc = "forward" /\ todo = {}
WritingTemp == pc = "forward" /\ todo # {} /\ Forwards(First) = "write"

KilledWriting ==
    /\ kills < MaxKills /\ kills' = kills + 1 /\ torn' = TRUE
    /\ \/ Writing /\ WriteStage("torn") /\ UNCHANGED file
       \/ WritingTemp /\ file' = [file EXCEPT ![First].temp = Torn] /\ UNCHANGED control
    /\ Goto("idle", {})
    /\ UNCHANGED <<linked, quarantine, plan, old, recovering, latest, edited, faults, edits>>

\* The removal the process is at, if any.
Removal ==
    IF Removing THEN [doc |-> 0, slot |-> NextControl]
    ELSE IF todo = {} THEN [doc |-> 0, slot |-> "none"]
    ELSE CASE pc = "forward" /\ Forwards(First) = "unlink" -> [doc |-> First, slot |-> "target"]
           [] pc = "forward" /\ Forwards(First) \in {"drop", "install"} -> [doc |-> First, slot |-> "temp"]
           [] pc = "rollback" /\ Rolls(Last) = "unlink" -> [doc |-> Last, slot |-> "backup"]
           [] pc = "rollback" /\ Rolls(Last) = "remove" -> [doc |-> Last, slot |-> "target"]
           [] pc = "rollback" /\ Rolls(Last) = "drop" -> [doc |-> Last, slot |-> "temp"]
           [] pc = "finalize" /\ Finals(First) \in {"temp", "backup"} -> [doc |-> First, slot |-> Finals(First)]
           [] OTHER -> [doc |-> 0, slot |-> "none"]

\* A kill inside a removal leaves its quarantine: still empty, holding the
\* object, or empty again.  An installed file is linked before its temp goes.
KilledRemoving ==
    /\ kills < MaxKills /\ kills' = kills + 1
    /\ LET r == Removal
           before == IF pc = "forward" /\ r.slot = "temp"
                     THEN [file EXCEPT ![r.doc].target = file[r.doc].temp] ELSE file IN
       \/ /\ r.slot \in Slots
          /\ \E stage \in {"before", "inside", "after"} :
               /\ file' = IF stage = "before" THEN before ELSE [before EXCEPT ![r.doc][r.slot] = Absent]
               /\ linked' = IF stage = "before" THEN linked ELSE linked \ {r.doc}
               /\ quarantine' = [doc |-> r.doc, slot |-> r.slot,
                                 holds |-> IF stage = "inside" THEN "full" ELSE "empty",
                                 content |-> IF stage = "inside" THEN before[r.doc][r.slot] ELSE Absent]
          /\ UNCHANGED control
       \/ /\ r.slot \in Controls /\ control[r.slot] # "none"
          /\ \A i \in plan : file[i].target = Promised(i)
          /\ \E stage \in {"before", "inside", "after"} :
               /\ control' = IF stage = "before" THEN control ELSE [control EXCEPT ![r.slot] = "none"]
               /\ quarantine' = [doc |-> 0, slot |-> r.slot,
                                 holds |-> IF stage = "inside" THEN "full" ELSE "empty",
                                 content |-> IF stage # "inside" THEN Absent
                                             ELSE IF control[r.slot] = "prepared" THEN 1 ELSE 2]
          /\ UNCHANGED <<file, linked>>
    /\ Goto("idle", {})
    /\ UNCHANGED <<plan, old, recovering, latest, edited, torn, faults, edits>>

\* A person saves a document (or writes it anew while it is parked).
Edit(i) == /\ edits < MaxEdits /\ edits' = edits + 1
           /\ latest' = [latest EXCEPT ![i] = 2 * edits + 4]
           /\ file' = [file EXCEPT ![i].target = 2 * edits + 4]
           /\ linked' = linked \ {i}
           /\ edited' = edited \cup {i}
           /\ UNCHANGED <<control, quarantine, plan, old, pc, todo, recovering, torn, kills, faults>>

Work == \/ Plan \/ Preflight \/ Prepare \/ Recover \/ Forward \/ Commit
        \/ Rollback \/ Finalize \/ RemoveJournal
Next == \/ Start \/ Work \/ Fault \/ Kill \/ KilledWriting \/ KilledRemoving
        \/ \E i \in Docs : Edit(i)

\* The command is rerun, and a process that runs goes on.
Spec == Init /\ [][Next]_vars /\ WF_vars(Start) /\ WF_vars(Work)

----------------------------------------------------------------------------
(* Properties.                                                              *)

Settled == pc = "idle" /\ quarantine = NoQuarantine /\ \A c \in Controls : control[c] = "none"

\* The variables have their types, and two records on disk are a prepared
\* journal and its committed stage (reconcileJournalStage).
TypeOK ==
    /\ \A i \in Docs : \A s \in Slots : file[i][s] \in {Torn} \cup 0..(2 * edits + 3)
    /\ linked \subseteq {i \in Docs : file[i].target = file[i].backup}
    /\ plan \subseteq Docs /\ todo \subseteq plan
    /\ control.journal # "none" /\ control.stage \notin {"none", "torn"}
          => control.journal = "prepared" /\ control.stage = "committed"

\* A settled plan was applied to every document or to none, those a person
\* edited meanwhile left aside (commit, recover, rollback).
AllOrNothing ==
    Settled => \/ \A i \in plan \ edited : file[i].target = old[i]
               \/ \A i \in plan \ edited : file[i].target = New(i)

\* A settled plan leaves no temp and no backup (finalize, rollback): the next
\* refresh would refuse them as scratch without a journal.
NothingLeft == Settled => \A i \in Docs : file[i].temp = Absent /\ file[i].backup = Absent

\* The last text a person wrote is always somewhere: at its name, refreshed at
\* its name, parked, or in quarantine (forwardItem, rollback, removeExact).
EditKept ==
    \A i \in Docs :
        \/ file[i].target \in {latest[i], Refreshed(latest[i])}
        \/ file[i].backup = latest[i]
        \/ quarantine.doc = i /\ quarantine.content \in {latest[i], Refreshed(latest[i])}

\* Once the committed record is complete no document goes back to its old text
\* (commit: rolling back "could contradict the higher durable phase").
NoRegress ==
    PhaseFound = "committed" =>
         \A i \in plan \ edited' : file'[i].target # old[i]

\* Rerunning ends every interrupted plan, except after a write was cut short
\* or when a person edited one of its documents (recover).
RerunReached == torn \/ edited # {} \/ (Settled /\ \A i \in Docs : ~Drifted(file[i].target))

\* A cut-short write is recovered from as well (the recovery text of the
\* publication sentinel: rerun the command).
TornEnds == torn ~> Settled
=============================================================================
