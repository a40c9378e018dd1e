----------------------------- MODULE AdapterRun -----------------------------
(* The four native test adapters (internal/tdd/adapters): Prepare freezes a *)
(* suite, the native runner executes it, Run reconciles what the runner and *)
(* the assertion helper reported with the frozen inventory.  The runner and *)
(* the tests are the environment: tests interleave where the framework lets *)
(* them, assertions fail, tests catch what the helper raises, panic, skip,  *)
(* exit early, rewrite the prepared sources, and the process may be killed. *)
EXTENDS Integers, FiniteSets

CONSTANTS Langs,     \* adapters under consideration, of "go", "ts", "py", "ex"
          Tests, Parent,   \* Parent[t]: enclosing test, or "none"
          Asserts,         \* Asserts[t]: registered assertions
          Faults           \* faults that may happen

Languages == {"go", "ts", "py", "ex"}
Evidence == {"pass", "assertion-fail", "fail"}

VARIABLES lang, pc,
          src,       \* what the prepared sources hold: 0 as captured, 1 rewritten
          pinned,    \* what the digests of Prepare were taken of
          st,        \* st[t]: "new", "run", "pass", "fail" or "skip"
          ev,        \* ev[t][a]: "no", "true" or "false"
          why,       \* why[t]: what made the test fail
          caught,    \* tests that caught what the helper raised
          crossed,   \* a witness was printed into the output of another test
          ended,     \* how the process ended
          reaped,    \* its job was retired
          result, custody
vars == <<lang, pc, src, pinned, st, ev, why, caught, crossed, ended, reaped, result, custody>>


Children(t) == {u \in Tests : Parent[u] = t}
Running == {t \in Tests : st[t] = "run"}
Failed == {t \in Tests : st[t] = "fail"}
False(t) == {a \in Asserts[t] : ev[t][a] = "false"}

----------------------------------------------------------------------------
(* Prepare.  The Go and Python adapters hash what they find after building  *)
(* or discovering, the others what they wrote.                              *)

Materialize == /\ pc = "new" /\ pc' = "built" /\ src' = 0 /\ pinned' = 0
               /\ UNCHANGED <<lang, st, ev, why, caught, crossed, ended, reaped, result, custody>>

\* The discovery of unittest imports the test modules.
pythonReconcileDiscovery ==
    /\ pc = "built" /\ lang = "py" /\ "rewrite" \in Faults /\ src = 0
    /\ src' = 1 /\ UNCHANGED <<lang, pc, pinned, st, ev, why, caught, crossed, ended, reaped, result, custody>>

PrepareGo == lang = "go" /\ pinned' = src
PreparePython == lang = "py" /\ pinned' = src
PrepareTypeScript == lang = "ts" /\ pinned' = pinned
PrepareElixir == lang = "ex" /\ pinned' = pinned
Prepare == /\ pc = "built" /\ pc' = "prepared"
           /\ PrepareGo \/ PreparePython \/ PrepareTypeScript \/ PrepareElixir
           /\ UNCHANGED <<lang, src, st, ev, why, caught, crossed, ended, reaped, result, custody>>

goVerifyUnchanged == src = pinned
pythonVerifyUnchanged == src = pinned
tsReverifyPrepared == src = pinned

\* Mutant of elixirVerifyUnchanged: the sources are not read again.
elixirVerifyUnchangedNever == TRUE

elixirVerifyUnchanged == src = pinned

VerifiedBefore == CASE lang = "go" -> TRUE [] lang = "py" -> pythonVerifyUnchanged
                    [] lang = "ts" -> tsReverifyPrepared [] lang = "ex" -> elixirVerifyUnchanged
VerifiedAfter == CASE lang = "go" -> goVerifyUnchanged [] lang = "py" -> pythonVerifyUnchanged
                   [] lang = "ts" -> TRUE [] lang = "ex" -> elixirVerifyUnchanged

Launch == /\ pc = "prepared" /\ VerifiedBefore /\ pc' = "running"
          /\ UNCHANGED <<lang, src, pinned, st, ev, why, caught, crossed, ended, reaped, result, custody>>

----------------------------------------------------------------------------
(* The native runner.                                                       *)

Sequential == lang \in {"ts", "py"}
Quiet == UNCHANGED <<lang, pc, src, pinned, ended, reaped, result, custody>>
Raises == lang # "go"

Start(t) == /\ pc = "running" /\ st[t] = "new"
            /\ Parent[t] # "none" => st[Parent[t]] = "run"
            /\ (Sequential \/ Parent[t] # "none") => Running \subseteq {Parent[t]}
            /\ Parent[t] = "none" => \A u \in Running : Parent[u] = "none" /\ Children(u) = {}
            /\ st' = [st EXCEPT ![t] = "run"] /\ Quiet /\ UNCHANGED <<ev, why, caught, crossed>>

\* The helper of Go reports and goes on; the others raise, and the test may catch.
Check(t, a, v) ==
    /\ pc = "running" /\ st[t] = "run" /\ ev[t][a] = "no" /\ Running \cap Children(t) = {}
    /\ ev' = [ev EXCEPT ![t][a] = IF v THEN "true" ELSE "false"]
    /\ \/ v /\ UNCHANGED <<st, why, caught>>
       \/ ~v /\ ~Raises /\ why' = [why EXCEPT ![t] = @ \cup {"assert"}] /\ UNCHANGED <<st, caught>>
       \/ ~v /\ Raises /\ why' = [why EXCEPT ![t] = @ \cup {"assert"}]
             /\ st' = [st EXCEPT ![t] = "fail"] /\ UNCHANGED caught
       \/ ~v /\ Raises /\ "catch" \in Faults /\ caught' = caught \cup {t} /\ UNCHANGED <<st, why>>
    /\ \/ UNCHANGED crossed
       \/ lang = "go" /\ Running # {t} /\ Parent[t] = "none" /\ crossed' = TRUE
    /\ Quiet

\* An error that no registered assertion reported: T.Errorf, assert, raise.
Misfire(t, how) ==
    /\ pc = "running" /\ st[t] = "run" /\ how \in Faults \cap {"plain", "other"} /\ Running \cap Children(t) = {}
    /\ lang = "go" => how = "plain"
    /\ why' = [why EXCEPT ![t] = @ \cup {how}]
    /\ st' = IF Raises THEN [st EXCEPT ![t] = "fail"] ELSE st
    /\ Quiet /\ UNCHANGED <<ev, caught, crossed>>

\* A panic ends the test binary of Go.
Panic(t) == /\ pc = "running" /\ lang = "go" /\ st[t] = "run" /\ "panic" \in Faults
            /\ why' = [why EXCEPT ![t] = @ \cup {"panic"}] /\ st' = [st EXCEPT ![t] = "fail"]
            /\ pc' = "exited" /\ ended' = "exit"
            /\ UNCHANGED <<lang, src, pinned, ev, caught, crossed, reaped, result, custody>>

ChildFailed(t) == Children(t) \cap Failed # {}
Finish(t) == /\ pc = "running" /\ st[t] = "run" /\ \A u \in Children(t) : st[u] \in {"pass", "fail", "skip"}
             /\ st' = [st EXCEPT ![t] = IF why[t] # {} \/ ChildFailed(t) THEN "fail" ELSE "pass"]
             /\ why' = [why EXCEPT ![t] = IF ChildFailed(t) THEN @ \cup {"child"} ELSE @]
             /\ Quiet /\ UNCHANGED <<ev, caught, crossed>>

Skip(t) == /\ pc = "running" /\ st[t] = "run" /\ "skip" \in Faults /\ st' = [st EXCEPT ![t] = "skip"]
           /\ Quiet /\ UNCHANGED <<ev, why, caught, crossed>>

Rewrite == /\ pc = "running" /\ "rewrite" \in Faults /\ src = 0 /\ src' = 1
           /\ UNCHANGED <<lang, pc, pinned, st, ev, why, caught, crossed, ended, reaped, result, custody>>

\* All tests ended; or the process is killed, leaves early with status 0, or
\* fails on its way out.
AllEnded == \A t \in Tests : st[t] \in {"pass", "fail", "skip"}
Exit(how) == /\ pc = "running" /\ pc' = "exited"
             /\ \/ how = "exit" /\ AllEnded
                \/ how = "killed" /\ how \in Faults
                \/ how = "early" /\ how \in Faults /\ ~AllEnded
                \/ how = "abort" /\ how \in Faults /\ lang # "go" /\ AllEnded
             /\ ended' = how
             /\ UNCHANGED <<lang, src, pinned, st, ev, why, caught, crossed, reaped, result, custody>>

Retire(ok) == /\ pc = "exited" /\ pc' = "retired" /\ (ok \/ "unreaped" \in Faults) /\ reaped' = ok
              /\ UNCHANGED <<lang, src, pinned, st, ev, why, caught, crossed, ended, result, custody>>

----------------------------------------------------------------------------
(* Run: reconciliation.                                                     *)

\* Each reconciler replays its stream against the frozen inventory: every
\* test started and ended, every registered assertion was witnessed once.
Complete == \A t \in Tests : st[t] \in {"pass", "fail"} /\ \A a \in Asserts[t] : ev[t][a] # "no"

\* Mutant of goReplay: a witness counts wherever it was printed.
goReplayAnywhere == Complete /\ \A t \in Tests : "plain" \notin why[t]

\* A witness must arrive in the output of the test that owns its assertion.
goReplay == Complete /\ ~crossed /\ \A t \in Tests : "plain" \notin why[t]
pythonReplay == Complete
tsReplay == Complete
elixirReplay == Complete

\* Mutant of OwnAssertion: every assertion of a failing test fails.
OwnAssertionAll(t) == "other" \notin why[t] /\ False(t) = Asserts[t]

\* A failure is one of a registered assertion, and no other exception.
OwnAssertion(t) == "other" \notin why[t] /\ False(t) # {}

reconcileGoStream == goReplay /\ \A t \in Failed : False(t) # {}

\* Mutant of reconcilePythonReport: a test that passed passed.
reconcilePythonReportNative == pythonReplay /\ \A t \in Failed : OwnAssertion(t)

reconcilePythonReport == /\ pythonReplay /\ \A t \in Tests \ Failed : False(t) = {}
                         /\ \A t \in Failed : OwnAssertion(t)

reconcileTypeScriptStream == tsReplay /\ \A t \in Failed : False(t) # {}

\* Mutant of reconcileElixirStream: the class of the failure is not looked at.
reconcileElixirStreamState == elixirReplay /\ \A t \in Tests \ Failed : False(t) = {}

reconcileElixirStream == /\ elixirReplay /\ \A t \in Tests \ Failed : False(t) = {}
                         /\ \A t \in Failed : OwnAssertion(t)

Reconciled == CASE lang = "go" -> reconcileGoStream
                [] lang = "py" -> reconcilePythonReport
                [] lang = "ts" -> reconcileTypeScriptStream
                [] lang = "ex" -> reconcileElixirStream

ExitCode == CASE ended = "abort" -> IF lang = "ex" THEN 1 ELSE 9
              [] ended = "early" -> 0
              [] ended = "exit"  -> IF Failed = {} THEN 0 ELSE IF lang = "ex" THEN 2 ELSE 1
              [] OTHER -> -1

\* Mutant of Concord: any nonzero status stands for a failure.
ConcordNonzero == (Failed = {}) = (ExitCode = 0)

Concord == CASE lang = "ts" -> (Failed = {}) = (ExitCode = 0)
             [] lang = "ex" -> ExitCode = IF Failed = {} THEN 0 ELSE 2
             [] OTHER -> ExitCode = IF Failed = {} THEN 0 ELSE 1

\* Mutant of Outcome: there is one name for every failure.
OutcomeShort == IF Failed = {} THEN "pass" ELSE "fail"

Outcome == IF Failed = {} THEN "pass" ELSE IF lang = "ts" THEN "fail" ELSE "assertion-fail"

\* Go and Python close the child scope first; the others close it in a deferred
\* call, whose findings do not reach the record that was already returned.
RunGo == lang = "go" /\ reaped
RunPython == lang = "py" /\ reaped
RunTypeScript == lang = "ts"
RunElixir == lang = "ex"
Accepted == /\ ended # "killed" /\ VerifiedAfter /\ Reconciled /\ Concord
            /\ RunGo \/ RunPython \/ RunTypeScript \/ RunElixir
Run == /\ pc = "retired" /\ pc' = "done"
       /\ result' = IF Accepted THEN Outcome ELSE "error"
       /\ custody' = IF Accepted THEN "cleaned" ELSE "none"
       /\ UNCHANGED <<lang, src, pinned, st, ev, why, caught, crossed, ended, reaped>>

Init == /\ lang \in Langs /\ pc = "new" /\ src = 0 /\ pinned = 0
        /\ st = [t \in Tests |-> "new"] /\ ev = [t \in Tests |-> [a \in Asserts[t] |-> "no"]]
        /\ why = [t \in Tests |-> {}] /\ caught = {} /\ crossed = FALSE
        /\ ended = "none" /\ reaped = FALSE /\ result = "none" /\ custody = "none"
Next == \/ Materialize \/ pythonReconcileDiscovery \/ Prepare \/ Launch \/ Rewrite \/ Run
        \/ \E t \in Tests : Start(t) \/ Panic(t) \/ Finish(t) \/ Skip(t)
        \/ \E t \in Tests : \E a \in Asserts[t], v \in BOOLEAN : Check(t, a, v)
        \/ \E t \in Tests, how \in {"plain", "other"} : Misfire(t, how)
        \/ \E how \in {"exit", "killed", "early", "abort"} : Exit(how)
        \/ \E ok \in BOOLEAN : Retire(ok)
Spec == Init /\ [][Next]_vars

----------------------------------------------------------------------------
(* Properties.                                                              *)

TypeOK == /\ lang \in Langs /\ st \in [Tests -> {"new", "run", "pass", "fail", "skip"}]
          /\ result \in {"none", "pass", "assertion-fail", "error"} \cup (IF lang = "ts" THEN {"fail"} ELSE {})
          /\ custody \in {"none", "cleaned"}

\* A TypeScript test that caught what the helper threw is judged by its end alone.
Swallowed == lang = "ts" /\ caught # {}
Reports == result \in Evidence

\* The adapter says pass only of a run in which every test passed and every
\* registered assertion was evaluated and held.  (Excepted: a TypeScript test that
\* caught what the helper threw, typescript.go:1204.)
PassMeansPassed == result = "pass" /\ ~Swallowed =>
    \A t \in Tests : st[t] = "pass" /\ \A a \in Asserts[t] : ev[t][a] = "true"

\* A failure it reports as RED evidence is a failure of registered assertions,
\* all of which were evaluated: no test failed for a reason of another kind.
\* (Excepted: a panic after the assertion in Go, go.go:902, which the contract
\* calls an ERROR, docs/test-assurance-contract.md:268 and 282; and a run in which
\* a test caught a helper failure.)
FailMeansAsserted == Reports /\ result # "pass" /\ caught = {} =>
    /\ \E t \in Tests : False(t) # {}
    /\ \A t \in Tests : why[t] \subseteq {"assert"} \cup (IF lang = "go" THEN {"panic", "child"} ELSE {"child"})
    /\ \A t \in Tests : \A a \in Asserts[t] : ev[t][a] # "no"

\* What was executed is what was captured (excepted: TypeScript does not look again
\* after the run, typescript.go:498, and Python hashes what discovery left behind,
\* python.go:284).
FrozenRan == Reports /\ lang \in {"go", "ex"} => src = 0

\* Evidence comes from a process that ran to its end (excepted: a TypeScript
\* failure accepts every nonzero status, typescript.go:587).
EndedWell == Reports /\ ~(lang = "ts" /\ result = "fail") => ended = "exit"

\* No evidence rests on a witness that was printed into the output of another
\* test, as tests of Go that run side by side can (go.go:898).
WitnessesOwn == Reports => ~crossed

\* Nothing that is in order is refused: a run without faults, whose failures are
\* registered ones of tests without children and whose assertions were all
\* reached, yields evidence.
Calm == /\ pc = "done" /\ ended = "exit" /\ reaped /\ src = 0 /\ caught = {} /\ ~crossed
        /\ \A t \in Tests : st[t] \in {"pass", "fail"} /\ \A a \in Asserts[t] : ev[t][a] # "no"
Undisturbed == (Calm /\ \A t \in Tests : why[t] \subseteq {"assert"}) => Reports

\* What the documentation and the comments say without those exceptions.
CaughtSeen == result = "pass" => \A t \in Tests : False(t) = {}
PanicRefused == Reports => \A t \in Tests : "panic" \notin why[t]
LateMutationSeen == Reports => src = 0
CustodyTrue == custody = "cleaned" => reaped
ExitAccounted == Reports => ended = "exit"
OutcomeClosed == result \in {"none", "pass", "assertion-fail", "error"}
ParentsAccounted == (Calm /\ \A t \in Tests : why[t] \subseteq {"assert", "child"}) => Reports
----------------------------------------------------------------------------
(* The inductive invariant of these promises (proofs in Evidence).          *)

Causes == {"assert", "plain", "other", "panic", "child"}
After == {"exited", "retired", "done"}

Shapes == /\ lang \in Languages /\ pc \in {"new", "built", "prepared", "running"} \cup After
          /\ src \in {0, 1} /\ pinned \in {0, 1} /\ ended \in {"none", "exit", "killed", "early", "abort"}
          /\ st \in [Tests -> {"new", "run", "pass", "fail", "skip"}]
          /\ why \in [Tests -> SUBSET Causes]
          /\ ev = [t \in Tests |-> ev[t]] /\ \A t \in Tests : ev[t] \in [Asserts[t] -> {"no", "true", "false"}]

\* What was pinned: only the discovery of Python runs code before it.  And only
\* tests of Go print side by side.
Pinning == /\ pinned = 1 => src = 1
           /\ lang # "py" => pinned = 0 /\ (pc \in {"new", "built", "prepared"} => src = 0)
           /\ crossed => lang = "go"

\* What a test's end says about its failures.
BlameOf(t) ==
    /\ st[t] = "fail" => why[t] # {}
    /\ st[t] = "pass" => why[t] = {}
    /\ "assert" \in why[t] => False(t) # {}
    /\ st[t] = "new" => why[t] = {} /\ False(t) = {}
    /\ False(t) # {} => "assert" \in why[t] \/ t \in caught
    /\ lang = "go" => "other" \notin why[t] /\ caught = {}
    /\ lang # "go" => /\ "panic" \notin why[t]
                      /\ st[t] = "run" => why[t] = {}
                      /\ False(t) # {} /\ t \notin caught => why[t] = {"assert"} /\ st[t] = "fail"
Blame == \A t \in Tests : BlameOf(t)

\* How the process ended, and what was made of it.
Ending == /\ pc \in After <=> ended # "none"
          /\ ended = "early" => ~AllEnded
          /\ ended = "abort" => lang # "go"
          /\ result = IF pc # "done" THEN "none" ELSE IF Accepted THEN Outcome ELSE "error"

Inv == Shapes /\ Pinning /\ Blame /\ Ending
=============================================================================
