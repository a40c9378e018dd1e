----------------------------- MODULE GateSelect -----------------------------
(* Which gates run.  `machinery check` and the stop hook each derive the    *)
(* gates of a design from its artifacts (internal/gates/suite.go,           *)
(* internal/hook selectGates): the command selects all and skips what does  *)
(* not apply, the hook selects what it finds.  Authors add and remove       *)
(* artifacts, operators stage a list of gates or set the implementation.    *)
EXTENDS Integers, FiniteSets

CONSTANTS Base,                \* artifacts the design starts with
          MaxChanges           \* changes to the design and to the configuration

Artifacts == {"migration", "legacySurface", "targetSurfaces", "humanActions",
              "policy", "integrity", "isolation", "modelith", "dsl", "contract",
              "reads", "machines", "authorization", "build", "closed", "slices",
              "embeds", "acceptance", "adjudications", "attestations", "owed",
              "checkers", "decomposition", "pack", "oracles"}

Gates == {"gm", "gs", "gu", "gp", "gi", "gn", "gc", "gz", "g2", "g3", "gd", "gl", "gx",
          "gy", "gr", "gk", "gb", "gw", "ge", "ga", "gj", "gv", "g4", "gt", "g5"}

CheckpointOnlyGates == {"gv", "ga"}

VARIABLES artifacts, impl, staged, changes
vars == <<artifacts, impl, staged, changes>>

\* Some artifacts are parts of others.
Consistent(a) == /\ "humanActions" \in a => "modelith" \in a
                 /\ "reads" \in a => "contract" \in a
                 /\ "closed" \in a => "build" \in a

Init == artifacts = Base /\ impl = FALSE /\ staged = {} /\ changes = 0

Change == changes < MaxChanges /\ changes' = changes + 1

\* Mutant of Author: a part outlives what it is a part of.
AuthorLoose(x) == /\ Change
                  /\ artifacts' = IF x \in artifacts THEN artifacts \ {x} ELSE artifacts \cup {x}
                  /\ UNCHANGED <<impl, staged>>

Author(x) == /\ Change
             /\ artifacts' = IF x \in artifacts THEN artifacts \ {x} ELSE artifacts \cup {x}
             /\ Consistent(artifacts')
             /\ UNCHANGED <<impl, staged>>

SetImpl == Change /\ impl' = ~impl /\ UNCHANGED <<artifacts, staged>>

Stage(g) == Change /\ staged' = staged \cup {g} /\ UNCHANGED <<artifacts, impl>>

Next == SetImpl \/ (\E x \in Artifacts : Author(x)) \/ (\E g \in Gates : Stage(g))
Spec == Init /\ [][Next]_vars

----------------------------------------------------------------------------
(* The artifact that activates a gate, the same for both selections.        *)

Has(x) == x \in artifacts
RulesActive == Has("machines") \/ Has("authorization")
AcceptanceActive == Has("acceptance") \/ Has("closed")

\* Gates that run when their source exists.
Applies(g) ==
    CASE g = "gm" -> Has("migration")
      [] g = "gs" -> Has("legacySurface")
      [] g = "gu" -> Has("targetSurfaces") \/ Has("humanActions")
      [] g = "gp" -> Has("policy")
      [] g = "gi" -> Has("integrity")
      [] g = "gn" -> Has("isolation")
      [] g \in {"gc", "gz"} -> Has("modelith")
      [] g \in {"g2", "g3", "gl", "gx"} -> TRUE
      [] g = "gd" -> Has("machines")
      [] g = "gy" -> RulesActive
      [] g = "gr" -> Has("reads")
      [] g = "gk" -> Has("checkers")
      [] g = "gb" -> Has("build")
      [] g = "gw" -> Has("slices")
      [] g = "ge" -> Has("embeds")
      [] g = "ga" -> AcceptanceActive
      [] g = "gj" -> Has("adjudications")
      [] g = "gv" -> Has("attestations") \/ Has("owed")
      [] g \in {"g4", "gt"} -> impl
      [] g = "g5" -> Has("decomposition") \/ Has("pack")

----------------------------------------------------------------------------
(* machinery check.                                                         *)

\* A decomposed parent without machines leaves the machine gates to its
\* children, and keeps the test gate only for its own relational oracles.
Narrowed == Has("decomposition") /\ ~Has("machines")
ParentOracles == impl /\ (Has("policy") \/ Has("isolation") \/ Has("oracles"))

\* Mutant of Narrowing: the import gate is left to the children as well.
NarrowingImports ==
    {g \in Gates : Applies(g)} \ ({"g3", "gd", "gx", "g4"} \cup (IF ParentOracles THEN {} ELSE {"gt"}))

Narrowing ==
    {g \in Gates : Applies(g)} \ ({"g3", "gd", "gx"} \cup (IF ParentOracles THEN {} ELSE {"gt"}))

DefaultSelection == IF Narrowed THEN Narrowing ELSE Gates

\* An explicit list runs as given, but for the gates without an implementation.
CheckRuns == IF staged # {} THEN {g \in staged : g \in {"g4", "gt"} => impl}
             ELSE {g \in DefaultSelection : Applies(g)}

LandingRuns == CheckRuns \ CheckpointOnlyGates

\* The final handoff also runs the gates of missing phase artifacts.
CompleteRuns == CheckRuns \cup {g \in {"gb", "ga", "gv"} : staged = {} /\ g \in DefaultSelection}

\* The closing gate of the handoff finds every phase artifact.

\* Mutant of Handoff: decomposition is taken for the missing machines.
HandoffUnbuilt ==
    /\ {"modelith", "dsl", "contract", "attestations"} \subseteq artifacts
    /\ Has("machines") \/ Has("decomposition")

Handoff ==
    /\ {"modelith", "dsl", "contract", "build", "attestations", "closed"} \subseteq artifacts
    /\ Has("machines") \/ Has("decomposition")
    /\ Has("humanActions") => Has("targetSurfaces")

----------------------------------------------------------------------------
(* The stop hook.                                                           *)

\* What the hook looks for, gate by gate.

\* Mutant of HookSelects: the tests are run without an implementation.
HookSelectsTests(g) ==
    CASE g = "g2" -> Has("dsl") \/ Has("contract")
      [] g = "g3" -> Has("machines")
      [] g = "gx" -> Has("machines") /\ Has("modelith")
      [] g = "gu" -> Has("targetSurfaces")
      [] g = "gv" -> Has("attestations")
      [] g = "gr" -> FALSE
      [] g = "gt" -> TRUE
      [] OTHER -> Applies(g)

\* Mutant of HookSelects: external checkers are not looked for.
HookSelectsUnchecked(g) ==
    CASE g \in {"g2"} -> Has("dsl") \/ Has("contract")
      [] g = "g3" -> Has("machines")
      [] g = "gx" -> Has("machines") /\ Has("modelith")
      [] g = "gu" -> Has("targetSurfaces")
      [] g = "gv" -> Has("attestations")
      [] g \in {"gr", "gk"} -> FALSE
      [] OTHER -> Applies(g)

HookSelects(g) ==
    CASE g = "g2" -> Has("dsl") \/ Has("contract")
      [] g = "g3" -> Has("machines")
      [] g = "gx" -> Has("machines") /\ Has("modelith")
      [] g = "gu" -> Has("targetSurfaces")
      [] g = "gv" -> Has("attestations")
      [] g = "gr" -> FALSE
      [] OTHER -> Applies(g)

HookSelection == IF staged # {} THEN {g \in staged : g \in {"g4", "gt"} => impl}
                 ELSE {g \in Gates : HookSelects(g)}

HookRuns == HookSelection \ CheckpointOnlyGates

----------------------------------------------------------------------------
(* Properties.                                                              *)

TypeOK == /\ artifacts \subseteq Artifacts /\ Consistent(artifacts)
          /\ staged \subseteq Gates /\ impl \in BOOLEAN
          /\ CheckRuns \cup HookRuns \subseteq Gates

\* Progressive selection: the command runs these on an empty design already.
Progressive == {"g2", "g3", "gx"}

\* Where the hook is known to select otherwise: declared reads, human actions
\* without a surface ledger, tests of a decomposed parent without machines.
Apart == (IF Has("reads") THEN {"gr"} ELSE {})
         \cup (IF Has("humanActions") /\ ~Has("targetSurfaces") THEN {"gu"} ELSE {})
         \cup (IF Narrowed THEN {"gt"} ELSE {})

\* The hook and a landing run of the command agree on every gate but the
\* progressive ones and the three known differences; a staged list means the
\* same to both (suite.go: both run the exact same suite).
Agreement ==
    IF staged # {} THEN HookRuns = LandingRuns
    ELSE \A g \in Gates \ (Progressive \cup Apart) : g \in HookRuns <=> g \in LandingRuns

\* The hook blocks no turn with a gate the command leaves out, the tests of a
\* decomposed parent apart (selectGatesCheckedInSnapshot, runSelectedGates).
NothingExtra == HookRuns \ LandingRuns \subseteq (IF Narrowed THEN {"gt"} ELSE {})

\* Narrowing leaves out only what needs machines: every other gate whose source
\* exists still runs on a decomposed parent (selectInSnapshot).
NarrowingKeeps ==
    staged = {} => \A g \in Gates \ {"g3", "gd", "gx", "gt"} : Applies(g) => g \in CheckRuns

\* A design that the closing gate accepts had its plan, its acceptance records,
\* its attestations and its surfaces checked in the same run
\* (CheckFinalHandoff, runSelectedGates).
HandoffChecked ==
    staged = {} /\ Handoff =>
        /\ {"gc", "gz", "g2", "gl", "gb", "ga", "gv"} \subseteq CompleteRuns
        /\ Has("machines") => {"g3", "gd", "gx", "gy"} \subseteq CompleteRuns
        /\ Has("decomposition") => "g5" \in CompleteRuns
        /\ Has("humanActions") => "gu" \in CompleteRuns

\* The stop hook runs the suite of the command (docs/claude-plugin.md), gates
\* of later phases apart.
SameSuite == staged = {} =>
    \A g \in Gates \ Progressive : g \in HookRuns <=> g \in LandingRuns
=============================================================================
