----------------------------- MODULE DesignLock -----------------------------
(* The design lock and its publication sentinel (internal/designlock).      *)
(* A writer of generated outputs holds the lock, installs a sentinel that   *)
(* records the fingerprint of its inputs and the outputs it expects, lets a *)
(* callback write the outputs, and removes the sentinel only after it has   *)
(* compared outputs and inputs again.  A reader refuses a design with any   *)
(* sentinel, stage, quarantine or inner journal in it.  People edit files   *)
(* without the lock, and a process may be killed anywhere.                  *)
EXTENDS Integers, FiniteSets, Functions

CONSTANTS Procs, Ops,
          Source,          \* the one source file
          Made,            \* [Ops -> SUBSET file]: outputs the operation writes
          Stale,           \* [Ops -> SUBSET file]: outputs it removes if present
          Editable,        \* files that people edit without the lock
          MaxEdits, MaxKills

None == "none"
Outputs(op) == Made[op] \cup Stale[op]
Files == {Source} \cup UNION {Outputs(op) : op \in Ops}
Absent == 0
Hand == MaxEdits + 2       \* the content of an output that a person edited


VARIABLES design,     \* content of every file, a version of the source or Hand
          sentinel,   \* the publication record installed, or NoRecord
          stage,      \* the staged record: none, torn or whole
          quarantine, \* what is being removed, and whether it was moved inside
          residue,    \* the journal of an inner transaction is on disk
          holder,     \* the process that holds the lock
          proc,       \* what each process has captured
          touched,    \* outputs edited where no publication could see it
          wedged,     \* a removal was killed before it moved its object
          edits, kills

vars == <<design, sentinel, stage, quarantine, residue, holder, proc,
          touched, wedged, edits, kills>>

NoRecord == [op |-> None, input |-> <<>>, expected |-> <<>>]
NoQuarantine == [source |-> None, record |-> NoRecord]
Idle == [pc |-> "idle", op |-> None, resume |-> FALSE, recover |-> FALSE,
         snap |-> <<>>, plan |-> <<>>, after |-> <<>>, todo |-> {}]

Init == /\ design = [f \in Files |-> IF f = Source \/ f \in UNION {Stale[op] : op \in Ops} THEN 1 ELSE Absent]
        /\ sentinel = NoRecord /\ stage = None /\ quarantine = NoQuarantine
        /\ residue = FALSE /\ holder = None
        /\ proc = [w \in Procs |-> Idle]
        /\ touched = {} /\ wedged = FALSE /\ edits = 0 /\ kills = 0

disk == <<sentinel, stage, quarantine>>
ghosts == <<touched, wedged, edits, kills>>

----------------------------------------------------------------------------
(* What is on disk.                                                         *)

\* Mutant of Interrupted: only the journals of inner transactions are looked for.
InterruptedJournal == residue

\* The names that stop a reader.
Interrupted == \/ sentinel # NoRecord
               \/ stage # None
               \/ quarantine # NoQuarantine
               \/ residue

\* A reader gets its snapshot.
Readable == holder = None /\ ~Interrupted

\* The generated outputs an operation plans for a design: every made file has
\* the content that follows from the source, every stale one goes.
Plan(op, d) == [f \in Made[op] \cup {g \in Stale[op] : d[g] # Absent} |->
                   IF f \in Made[op] THEN d[Source] ELSE Absent]

\* Everything outside the declared outputs is an input.
Input(d, plan) == Restrict(d, Files \ DOMAIN plan)

\* The outputs are exactly the expected ones.
Match(d, plan) == \A f \in DOMAIN plan : d[f] = plan[f]

\* Mutant of Extended: a rerun declares only what it finds.
ExtendedAnew(op, plan) == plan

\* A record for the plan; a rerun also keeps the removals that the first run
\* declared, which its own plan no longer finds.
Extended(op, plan) ==
    LET kept == IF sentinel.op = op
                THEN {f \in DOMAIN sentinel.expected :
                         f \notin DOMAIN plan /\ sentinel.expected[f] = Absent}
                ELSE {}
    IN  [f \in DOMAIN plan \cup kept |-> IF f \in kept THEN Absent ELSE plan[f]]

Record(op, d, plan) == [op |-> op, input |-> Input(d, plan), expected |-> plan]

\* A quarantine whose source name is occupied is evidence that nobody resolves.
Ambiguous == \/ quarantine.source = "sentinel" /\ sentinel # NoRecord
             \/ quarantine.source = "stage" /\ stage # None

----------------------------------------------------------------------------
(* Processes.                                                               *)

At(w, pc) == proc[w].pc = pc
Go(w, pc) == proc' = [proc EXCEPT ![w].pc = pc]

\* Mutant of Ends: an error path keeps the lock.
EndsHeld(w) == proc' = [proc EXCEPT ![w] = Idle] /\ UNCHANGED holder

Ends(w) == proc' = [proc EXCEPT ![w] = Idle] /\ holder' = None

\* The lock is taken, what a killed removal left is finished, a lone stage is
\* discarded, and the design is fingerprinted.

\* Mutant of Reconciled: a quarantine is left for later.
ReconciledStage == stage' = None /\ UNCHANGED quarantine

Reconciled == quarantine' = NoQuarantine /\ stage' = None

Acquire(w, op) ==
    /\ At(w, "idle") /\ holder = None /\ ~Ambiguous
    /\ holder' = w
    /\ Reconciled
    /\ proc' = [proc EXCEPT ![w] = [Idle EXCEPT !.pc = "open", !.op = op, !.snap = design]]
    /\ UNCHANGED <<design, sentinel, residue, ghosts>>

\* What `machinery recover --apply` may finish: the recorded outputs are there
\* and the inputs are the recorded ones.
Finalizable == /\ sentinel # NoRecord
               /\ stage = None /\ quarantine = NoQuarantine /\ ~residue
               /\ Match(design, sentinel.expected)
               /\ Input(design, sentinel.expected) = sentinel.input

RecoverInterrupted(w) ==
    /\ At(w, "idle") /\ holder = None
    /\ Finalizable
    /\ holder' = w
    /\ proc' = [proc EXCEPT ![w] = [Idle EXCEPT !.pc = "begin", !.op = sentinel.op, !.snap = design,
                                        !.plan = sentinel.expected, !.resume = TRUE, !.recover = TRUE]]
    /\ UNCHANGED <<design, disk, residue, ghosts>>

\* A writer first completes a publication of its own that has its outputs.
ResumeExpected(w) ==
    /\ At(w, "open")
    /\ \/ /\ sentinel.op \notin {None, proc[w].op}
          /\ Ends(w)
       \/ /\ sentinel.op = proc[w].op
          /\ ~residue /\ Match(design, sentinel.expected)
          /\ proc' = [proc EXCEPT ![w].pc = "begin", ![w].plan = sentinel.expected, ![w].resume = TRUE]
          /\ UNCHANGED holder
       \/ /\ \/ sentinel = NoRecord
             \/ sentinel.op = proc[w].op /\ (residue \/ ~Match(design, sentinel.expected))
          /\ proc' = [proc EXCEPT ![w].pc = "begin", ![w].plan = Plan(proc[w].op, proc[w].snap)]
          /\ UNCHANGED holder
    /\ UNCHANGED <<design, disk, residue, ghosts>>

\* The design is still the one that was fingerprinted.
CheckUnchanged(w) == design = proc[w].snap

\* The sentinel is installed, or the one found is the same publication.
BeginPublish(w) ==
    LET p == proc[w]
        plan == IF p.resume THEN p.plan ELSE Extended(p.op, p.plan)
        record == Record(p.op, p.snap, plan)
    IN  /\ At(w, "begin") /\ CheckUnchanged(w)
        /\ sentinel \in {NoRecord, record}
        /\ sentinel' = record
        /\ proc' = [proc EXCEPT ![w].pc = IF p.resume THEN "called" ELSE "callback",
                                ![w].plan = plan, ![w].todo = DOMAIN plan]
        /\ UNCHANGED <<design, stage, quarantine, residue, holder, ghosts>>

\* The design changed, or the sentinel is another publication's.
BeginRefused(w) ==
    LET p == proc[w]
        plan == IF p.resume THEN p.plan ELSE Extended(p.op, p.plan)
    IN  /\ At(w, "begin")
        /\ \/ ~CheckUnchanged(w)
           \/ sentinel \notin {NoRecord, Record(p.op, p.snap, plan)}
        /\ Ends(w)
        /\ UNCHANGED <<design, disk, residue, ghosts>>

\* The callback writes one output after another through inner transactions.
StartOutput(w) ==
    /\ At(w, "callback") /\ proc[w].todo # {}
    /\ residue' = TRUE /\ Go(w, "inner")
    /\ UNCHANGED <<design, disk, holder, ghosts>>

WriteOutput(w, f) ==
    /\ At(w, "inner") /\ f \in proc[w].todo
    /\ design' = [design EXCEPT ![f] = proc[w].plan[f]]
    /\ touched' = touched \ {f}
    /\ residue' = FALSE
    /\ proc' = [proc EXCEPT ![w].pc = "callback", ![w].todo = @ \ {f}]
    /\ UNCHANGED <<disk, holder, wedged, edits, kills>>

Called(w) == /\ At(w, "callback") /\ proc[w].todo = {}
             /\ Go(w, "called")
             /\ UNCHANGED <<design, disk, residue, holder, ghosts>>

\* The callback reports an error; its inner transaction may stay behind.
CallbackFails(w) == /\ proc[w].pc \in {"callback", "inner"}
                    /\ kills < MaxKills /\ kills' = kills + 1
                    /\ Ends(w)
                    /\ UNCHANGED <<design, disk, residue, touched, wedged, edits>>

\* The outputs after the callback.
ValidateOutputs(w) ==
    /\ At(w, "called")
    /\ \/ Match(design, proc[w].plan) /\ Go(w, "outputs") /\ UNCHANGED holder
       \/ ~Match(design, proc[w].plan) /\ Ends(w)
    /\ UNCHANGED <<design, disk, residue, ghosts>>

\* Mutant of InputsKept: the sources are not compared after the callback.
InputsKeptNever(w) == TRUE

InputsKept(w) == Input(design, proc[w].plan) = Input(proc[w].snap, proc[w].plan)

\* The whole design: no residue of a transaction, and every input as it was.
CheckInputs(w) ==
    /\ At(w, "outputs")
    /\ \/ /\ ~residue /\ InputsKept(w)
          /\ proc' = [proc EXCEPT ![w].pc = "inputs", ![w].after = design]
          /\ UNCHANGED holder
       \/ (residue \/ ~InputsKept(w)) /\ Ends(w)
    /\ UNCHANGED <<design, disk, residue, ghosts>>

\* The outputs once more, immediately before the sentinel goes.
FinalValidation(w) ==
    /\ At(w, "inputs")
    /\ \/ Match(design, proc[w].plan) /\ Go(w, "validated") /\ UNCHANGED holder
       \/ ~Match(design, proc[w].plan) /\ Ends(w)
    /\ UNCHANGED <<design, disk, residue, ghosts>>

\* Mutant of Clear: a failing publication also removes its sentinel.
ClearAnyway(w) ==
    /\ proc[w].pc \in {"inner", "validated"}
    /\ sentinel' = NoRecord
    /\ Ends(w)
    /\ UNCHANGED <<design, stage, quarantine, residue, ghosts>>

\* The sentinel goes, and a writer that resumed now does its own publication.
Clear(w) ==
    /\ At(w, "validated")
    /\ sentinel' = NoRecord
    /\ IF proc[w].resume /\ ~proc[w].recover
       THEN /\ proc' = [proc EXCEPT ![w].pc = "open", ![w].resume = FALSE, ![w].snap = proc[w].after]
            /\ UNCHANGED holder
       ELSE Ends(w)
    /\ UNCHANGED <<design, stage, quarantine, residue, ghosts>>

----------------------------------------------------------------------------
(* Kills.  A removal creates the quarantine directory, moves the object into *)
(* it, removes the object and then the directory.                           *)

KilledRemoval(name, rec, quarantined) ==
    \/ /\ quarantine' = [source |-> name, record |-> NoRecord]     \* directory made
       /\ wedged' = TRUE
       /\ UNCHANGED <<sentinel, stage>>
    \/ /\ quarantine' \in {[source |-> name, record |-> r] : r \in {rec, NoRecord}}
       /\ quarantined
       /\ UNCHANGED wedged

\* While the sentinel is staged: the stage is torn or whole.
KilledStaging(w) ==
    /\ At(w, "begin") /\ sentinel = NoRecord /\ CheckUnchanged(w)
    /\ stage' \in {"torn", "whole"}
    /\ UNCHANGED <<sentinel, quarantine, wedged>>

\* While the sentinel is removed.
KilledClear(w) ==
    /\ At(w, "validated")
    /\ KilledRemoval("sentinel", sentinel, sentinel' = NoRecord /\ UNCHANGED stage)

\* Between the steps that change the disk.
KilledBetween(w) == ~At(w, "idle") /\ UNCHANGED <<disk, wedged>>

Kill(w) ==
    /\ kills < MaxKills /\ kills' = kills + 1
    /\ ~At(w, "idle")
    /\ KilledStaging(w) \/ KilledClear(w) \/ KilledBetween(w)
    /\ Ends(w)
    /\ UNCHANGED <<design, residue, touched, edits>>

\* A writer is killed while it discards the stage that another one left.
KillReconcile ==
    /\ kills < MaxKills /\ kills' = kills + 1
    /\ holder = None /\ stage # None /\ quarantine = NoQuarantine
    /\ KilledRemoval("stage", NoRecord, stage' = None /\ UNCHANGED sentinel)
    /\ UNCHANGED <<design, residue, holder, proc, touched, edits>>

\* A person edits a file.  An output edited while a publication still has to
\* compare its outputs is the publication's to detect.
Detectable(f) == \E w \in Procs : /\ f \in DOMAIN proc[w].plan
                                  /\ proc[w].pc \in {"callback", "inner", "called", "outputs", "inputs"}

Edit(f) ==
    /\ f \in Editable /\ edits < MaxEdits
    /\ edits' = edits + 1
    /\ design' = [design EXCEPT ![f] = IF f = Source THEN @ + 1 ELSE Hand]
    /\ touched' = IF f = Source \/ Detectable(f) THEN touched ELSE touched \cup {f}
    /\ UNCHANGED <<disk, residue, holder, proc, wedged, kills>>

Step(w) == \/ ResumeExpected(w) \/ BeginPublish(w) \/ BeginRefused(w)
           \/ StartOutput(w) \/ (\E f \in Files : WriteOutput(w, f)) \/ Called(w)
           \/ ValidateOutputs(w) \/ CheckInputs(w) \/ FinalValidation(w) \/ Clear(w)

Next == \/ \E w \in Procs : Step(w) \/ RecoverInterrupted(w) \/ CallbackFails(w) \/ Kill(w)
        \/ \E w \in Procs, op \in Ops : Acquire(w, op)
        \/ KillReconcile
        \/ \E f \in Files : Edit(f)

Spec == Init /\ [][Next]_vars

\* A process that holds the lock goes on, and the writer that the sentinel
\* names is run again until it succeeds.
Rerun == \E w \in Procs : sentinel.op \in Ops /\ Acquire(w, sentinel.op)
Fairness == /\ \A w \in Procs : WF_vars(Step(w))
            /\ SF_vars(Rerun)
FairSpec == Spec /\ Fairness

----------------------------------------------------------------------------
Versions == 0 .. Hand
Partial == UNION {[S -> Versions] : S \in SUBSET Files}

\* Types of the files, records and processes of the protocol.
TypeOK ==
    /\ design \in [Files -> Versions]
    /\ sentinel.op \in Ops \cup {None} /\ DOMAIN sentinel.expected \cap DOMAIN sentinel.input = {}
    /\ stage \in {None, "torn", "whole"}
    /\ quarantine.source \in {None, "sentinel", "stage"}
    /\ residue \in BOOLEAN /\ wedged \in BOOLEAN
    /\ holder \in Procs \cup {None}
    /\ \A w \in Procs : proc[w].pc # "idle" => holder = w
    /\ holder # None => proc[holder].pc # "idle"
    /\ touched \subseteq Files
    /\ edits \in 0 .. MaxEdits /\ kills \in 0 .. MaxKills

\* A reader never sees one operation's outputs in part: the made files that
\* nobody edited behind the protocol's back follow from one source, and when
\* they are there the stale ones are gone (acquire and Publish).
ReadableWhole ==
    Readable => \A op \in Ops :
        /\ \A f, g \in Made[op] \ touched : design[f] = design[g]
        /\ \A f \in Made[op] \ touched, g \in Stale[op] \ touched : design[f] # Absent => design[g] = Absent

\* When the outputs have been compared for the last time, they follow from the
\* source the design had when every input was compared, whoever planned them
\* and however often the source was edited since (publish, ResumeExpected).
FreshPublication ==
    \A w \in Procs : At(w, "validated") =>
        \A f \in Made[proc[w].op] : proc[w].plan[f] = proc[w].after[Source]

\* The removal of a sentinel, by its writer, by a later writer that finishes a
\* quarantine or by recover, happens only over the outputs the record expects
\* (removePublishFileExact, resumePublishQuarantine).
Recorded == IF sentinel # NoRecord THEN sentinel ELSE quarantine.record
ClearedComplete ==
    (Recorded # NoRecord /\ Recorded' = NoRecord /\ kills' = kills) =>
          \A f \in DOMAIN Recorded.expected \ touched : design[f] = Recorded.expected[f]

\* Kills leave nothing that the next writer refuses to resolve, except the
\* empty quarantine of a removal that had not moved its object.
ResolvedOrWedged == Ambiguous => wedged

\* What the comment on FinishEmpty promises: a quarantine that crashed before
\* its object was moved into it is retired.
EmptyRetired == ~Ambiguous

\* Rerunning the writer that the sentinel names removes the sentinel, unless
\* an input was edited since or a removal is wedged (ResumeExpected,
\* beginPublish).
Changed == sentinel # NoRecord /\ Input(design, sentinel.expected) # sentinel.input
Marked == sentinel # NoRecord
RerunCleared == ~Marked \/ Changed \/ wedged

\* What the comment on Publish promises: a crash or a detected edit keeps
\* readers out until the same writer is rerun.
RerunReadable == (sentinel # NoRecord) ~> (sentinel = NoRecord \/ wedged)
=============================================================================
