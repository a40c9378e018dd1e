------------------------------ MODULE Evidence ------------------------------
(* The evidence of test-first assurance side by side: what a plan and its    *)
(* manifests declare, what a calibration expects, what the native adapters   *)
(* report, and which runtime they are bound to; the milestones of a build    *)
(* plan with their reviews; and the readers of trees that nobody locks.  A   *)
(* behaviour of the suite moves one component, `which'.                      *)
EXTENDS Integers, FiniteSets, Sequences, FiniteSetTheorems, SequenceTheorems, NaturalsInduction, WellFoundedInduction, TLAPS

CONSTANTS Active,        \* the components that this run exercises
          AdapterLangs, SuiteTests, SuiteParent, SuiteAsserts, SuiteFaults,   \* AdapterRun
          LauncherLangs, LauncherWrites, LauncherClocks,                      \* RuntimeClosure
          DeclManifests, DeclDesigns, DeclMilestones, DeclRoot,               \* Declarations
          DeclKeys, DeclCategories, DeclTests, DeclEdits,
          CalTests, CalAsserts, CalNegative, CalVariants, CalKinds, CalPairs, \* Calibration
          CalSources, CalBaseline, CalNames, CalEdits,
          CalBase, CalExpected, CalPair, CalTarget, CalSource, CalControls,
          PlanFiles, PlanPrefix, PlanRows, PlanDesks, PlanEdits,              \* Milestones
          PlanElements, PlanHistory, PlanNames

VARIABLE which       \* the component that moves in this behaviour
VARIABLES adp_lang, adp_pc, adp_src, adp_pinned, adp_st, adp_ev, adp_why, adp_caught, adp_crossed,
  adp_ended, adp_reaped, adp_result, adp_custody
VARIABLES clo_lang, clo_clock, clo_body, clo_ctime, clo_now, clo_writes, clo_pc, clo_prog, clo_snap,
  clo_got, clo_rec, clo_info, clo_sentinel, clo_moved, clo_seen, clo_calm, clo_held
VARIABLES dcl_there, dcl_obls, dcl_planned, dcl_answers, dcl_current, dcl_owed, dcl_payload,
  dcl_review, dcl_seen, dcl_edits, dcl_accepted
VARIABLES cal_red, cal_expected, cal_pair, cal_target, cal_source, cal_controls, cal_edits,
  cal_accepted
VARIABLES mil_desk, mil_plan, mil_edits, mil_cut, mil_elements, mil_accept, mil_git, mil_run
VARIABLES cen_tree, cen_todo, cen_inv, cen_hand, cen_watched, cen_mutated, cen_found, cen_tries,
  cen_copy, cen_out, cen_stretch, cen_moved, cen_blind, cen_was, cen_edits
VARIABLES tre_tree, tre_shadow, tre_todo, tre_walk, tre_kept, tre_wit, tre_priv, tre_pending,
  tre_err, tre_out, tre_seen, tre_touched, tre_blind, tre_edits

\* The variables of the components, and a component that does not move.
adp == <<adp_lang, adp_pc, adp_src, adp_pinned, adp_st, adp_ev, adp_why, adp_caught, adp_crossed,
  adp_ended, adp_reaped, adp_result, adp_custody>>
clo == <<clo_lang, clo_clock, clo_body, clo_ctime, clo_now, clo_writes, clo_pc, clo_prog, clo_snap,
  clo_got, clo_rec, clo_info, clo_sentinel, clo_moved, clo_seen, clo_calm, clo_held>>
dcl == <<dcl_there, dcl_obls, dcl_planned, dcl_answers, dcl_current, dcl_owed, dcl_payload,
  dcl_review, dcl_seen, dcl_edits, dcl_accepted>>
cal == <<cal_red, cal_expected, cal_pair, cal_target, cal_source, cal_controls, cal_edits,
  cal_accepted>>
mil == <<mil_desk, mil_plan, mil_edits, mil_cut, mil_elements, mil_accept, mil_git, mil_run>>
cen == <<cen_tree, cen_todo, cen_inv, cen_hand, cen_watched, cen_mutated, cen_found, cen_tries,
  cen_copy, cen_out, cen_stretch, cen_moved, cen_blind, cen_was, cen_edits>>
tre == <<tre_tree, tre_shadow, tre_todo, tre_walk, tre_kept, tre_wit, tre_priv, tre_pending,
  tre_err, tre_out, tre_seen, tre_touched, tre_blind, tre_edits>>
Idle == 0
adpIdle == adp_lang = Idle /\ adp_pc = Idle /\ adp_src = Idle /\ adp_pinned = Idle /\ adp_st = Idle
  /\ adp_ev = Idle /\ adp_why = Idle /\ adp_caught = Idle /\ adp_crossed = Idle /\ adp_ended = Idle
  /\ adp_reaped = Idle /\ adp_result = Idle /\ adp_custody = Idle
cloIdle == clo_lang = Idle /\ clo_clock = Idle /\ clo_body = Idle /\ clo_ctime = Idle /\ clo_now =
  Idle /\ clo_writes = Idle /\ clo_pc = Idle /\ clo_prog = Idle /\ clo_snap = Idle /\ clo_got = Idle
  /\ clo_rec = Idle /\ clo_info = Idle /\ clo_sentinel = Idle /\ clo_moved = Idle /\ clo_seen = Idle
  /\ clo_calm = Idle /\ clo_held = Idle
dclIdle == dcl_there = Idle /\ dcl_obls = Idle /\ dcl_planned = Idle /\ dcl_answers = Idle /\
  dcl_current = Idle /\ dcl_owed = Idle /\ dcl_payload = Idle /\ dcl_review = Idle /\ dcl_seen =
  Idle /\ dcl_edits = Idle /\ dcl_accepted = Idle
calIdle == cal_red = Idle /\ cal_expected = Idle /\ cal_pair = Idle /\ cal_target = Idle /\
  cal_source = Idle /\ cal_controls = Idle /\ cal_edits = Idle /\ cal_accepted = Idle
milIdle == mil_desk = Idle /\ mil_plan = Idle /\ mil_edits = Idle /\ mil_cut = Idle /\ mil_elements
  = Idle /\ mil_accept = Idle /\ mil_git = Idle /\ mil_run = Idle
cenIdle == cen_tree = Idle /\ cen_todo = Idle /\ cen_inv = Idle /\ cen_hand = Idle /\ cen_watched =
  Idle /\ cen_mutated = Idle /\ cen_found = Idle /\ cen_tries = Idle /\ cen_copy = Idle /\ cen_out =
  Idle /\ cen_stretch = Idle /\ cen_moved = Idle /\ cen_blind = Idle /\ cen_was = Idle /\ cen_edits
  = Idle
treIdle == tre_tree = Idle /\ tre_shadow = Idle /\ tre_todo = Idle /\ tre_walk = Idle /\ tre_kept =
  Idle /\ tre_wit = Idle /\ tre_priv = Idle /\ tre_pending = Idle /\ tre_err = Idle /\ tre_out =
  Idle /\ tre_seen = Idle /\ tre_touched = Idle /\ tre_blind = Idle /\ tre_edits = Idle
vars == <<which, adp, clo, dcl, cal, mil, cen, tre>>

\* What stays as it is while a component moves.
adpRest == <<which, clo, dcl, cal, mil, cen, tre>>
cloRest == <<which, adp, dcl, cal, mil, cen, tre>>
dclRest == <<which, adp, clo, cal, mil, cen, tre>>
calRest == <<which, adp, clo, dcl, mil, cen, tre>>
milRest == <<which, adp, clo, dcl, cal, cen, tre>>
cenRest == <<which, adp, clo, dcl, cal, mil, tre>>
treRest == <<which, adp, clo, dcl, cal, mil, cen>>

\* A suite of two tests without nesting, and all that may befall it.
TwoTests == [t \in {"t", "u"} |-> "none"]
TwoAsserts == [t \in {"t", "u"} |-> IF t = "t" THEN {"a", "b"} ELSE {"c"}]

\* A plan of two milestones and one of a child design.
DesignOf == [m \in {"M1", "M2", "C1"} |-> IF m = "C1" THEN "c" ELSE "d"]
MilestoneOf == [m \in {"M1", "M2", "C1"} |-> IF m = "C1" THEN "M1" ELSE m]
Key(d, k, i) == [design |-> d, kind |-> k, id |-> i]
Keys == {Key("d", "guard-clause", "g"), Key("c", "guard-clause", "g"), Key("d", "runtime", "r")}
OwnTests == [m \in {"M1", "M2", "C1"} |-> CASE m = "M1" -> {"t1"} [] m = "M2" -> {"t2"} [] OTHER -> {"u1"}]

\* A milestone with a positive and a negative test, a pair and a control.
Registered == [t \in {"p", "n"} |-> IF t = "p" THEN {"a", "b"} ELSE {"a", "c"}]
Kinds == [v \in {"s", "u", "c"} |-> IF v = "u" THEN "unsafe-challenge" ELSE "safe-control"]
Pass(t) == [outcome |-> "pass", names |-> <<"a", IF t = "p" THEN "b" ELSE "c">>]
FailA == [outcome |-> "assertion-fail", names |-> <<"a">>]
Base == [t \in {"p", "n"} |-> IF t = "p" THEN FailA ELSE Pass(t)]
Expected == [v \in {"s", "u", "c"} |-> [t \in {"p", "n"} |-> IF v = "u" /\ t = "n" THEN FailA ELSE Pass(t)]]
PairOf == [v \in {"s", "u", "c"} |-> IF v = "c" THEN "none" ELSE "P"]
TargetOf == [v \in {"s", "u", "c"} |-> IF v = "c" THEN {} ELSE {"n"}]
SourceOf == [v \in {"s", "u", "c"} |-> IF v = "u" THEN "worse" ELSE "good"]
Controls == {[test |-> "p", assertion |-> "a", variant |-> "c"]}

\* A plan of a skeleton and a second milestone, and what its authors write.
Prefix == [f \in {"p", "q"} |-> IF f = "p" THEN 0 ELSE 1]
Row(s, t, i) == [set |-> s, test |-> t, stable |-> i]
OracleRows == {Row("A", "TA1", "SA1"), Row("A", "TA2", "SA2"), Row("formal", "TF", "SF"),
               Row("A", "TA3", "SA1"), Row("B", "TB", "-")}
Committed == {Row("A", "TA1", "SA1"), Row("A", "TA2", "SA2"), Row("formal", "TF", "SF")}
Answer(a, n, r) == [adversary |-> a, subject |-> "-", negative |-> n, risk |-> r]
Secure == [names |-> {"Session"}, criteria |-> <<"accept", "refuse">>, wrongly |-> <<"answer">>,
           tables |-> {{Answer("replay", "N1", ""), Answer("insider", "", "owner")}}]
Plain == [names |-> {}, criteria |-> <<>>, tables |-> {}, wrongly |-> <<>>]
Texts == {Plain, [Secure EXCEPT !.criteria = <<"accept", "accept", "refuse">>], [Secure EXCEPT !.criteria = <<"refuse">>],
          [Secure EXCEPT !.names = {"inv"}, !.tables = {{Answer("replay", "N1", "")}}],
          [Secure EXCEPT !.tables = {}], [Secure EXCEPT !.tables = {{Answer("replay", "documented", ""), Answer("insider", "owner", "")}}],
          [Secure EXCEPT !.tables = {{Answer("replay", "N2", ""), Answer("insider", "", "owner")}}],
          [Secure EXCEPT !.wrongly = <<"">>]}
Threat(a, k, b, i) == [subject |-> "Session", adversary |-> a, kind |-> k, by |-> b, invariant |-> i]
Ledger == [state |-> "ledger", enforce |-> TRUE, since |-> 1, detected |-> {"Session"},
           rows |-> {Threat("replay", "test", "N1", "-"), Threat("insider", "risk", "owner", "inv"), Threat("flood", "n/a", "", "-")}]
Block(n, first, dod, links, text) ==
  [num |-> n, skeleton |-> first, dod |-> dod, status |-> "", demos |-> <<"shown">>, links |-> links,
   nfr |-> "named", text |-> text]
Doc == [headings |-> {"glossary", "tests", "disclaimer"}, dictionary |-> "none"]
Packet(n, text) == [headings |-> {}, dictionary |-> "none", plan |-> FALSE, titles |-> <<n>>, sections |-> "exact",
                    size |-> "fits", declares |-> <<<<n>>>>, items |-> {n}, text |-> text]
FullPlan0 == [mode |-> "full", linkage |-> <<>>, decomposed |-> FALSE, root |-> Doc, sections |-> 1, opening |-> "plan",
              waived |-> FALSE, rows |-> Committed, threats |-> Ledger, file |-> [f \in {"p", "q"} |-> [gone |-> TRUE]],
              blocks |-> <<Block(0, TRUE, {"SA1"}, <<"p">>, Secure), Block(1, FALSE, {"SA2", "formal"}, <<"q">>, Plain)>>]
PacketPlan0 == [FullPlan0 EXCEPT !.mode = "manifest",
                                 !.file = [f \in {"p", "q"} |-> IF f = "p" THEN Packet(0, Secure) ELSE Packet(1, Plain)]]
ShardPlan0 == [PacketPlan0 EXCEPT !.linkage = <<"matrix">>, !.blocks[2].links = <<"p", "q">>,
                                  !.file["p"].declares = <<<<0, 1>>>>]
Structure == {<<"dod", {"none"}>>, <<"dod", {"TA1"}>>, <<"dod", {"A"}>>, <<"dod", {"SA1", "SA2"}>>, <<"dod", {"SA1", "B"}>>,
              <<"dod", {"SA1", "ORACLESET"}>>, <<"status", "closed">>, <<"status", "done">>, <<"num", 1>>}
Links == {<<"links", <<>>>>, <<"links", <<"q">>>>, <<"links", <<"p", "q">>>>, <<"links", <<"p", "p">>>>,
          <<"links", <<"elsewhere">>>>, <<"demos", <<>>>>, <<"demos", <<"shown", "shown">>>>}
Rest == {<<"threats", [Ledger EXCEPT !.enforce = FALSE]>>, <<"threats", [Ledger EXCEPT !.state = "none"]>>,
         <<"threats", [Ledger EXCEPT !.state = "broken"]>>, <<"sections", 0>>, <<"sections", 2>>, <<"opening", "waived">>,
         <<"opening", "n/a">>, <<"waived", TRUE>>, <<"root", [Doc EXCEPT !.headings = {"glossary"}]>>}
PlanChoices == [block |-> Structure \cup {<<"skeleton", FALSE>>, <<"nfr", "empty">>} \cup {<<"text", t>> : t \in Texts},
                file |-> {}, fresh |-> Packet(0, Plain), rest |-> Rest]
Shape == {<<"plan", TRUE>>, <<"titles", <<1>>>>, <<"titles", <<>>>>, <<"sections", "missing">>, <<"size", "over">>,
          <<"dictionary", "own">>, <<"declares", <<>>>>, <<"declares", <<<<1>>>>>>, <<"declares", <<<<1, 0>>>>>>,
          <<"items", {}>>}
Owned == {<<"dod", {"SA1", "SA2"}>>, <<"dod", {"SA1", "ORACLESET"}>>, <<"status", "closed">>, <<"num", 1>>}
FileChoices == [block |-> Owned \cup Links, fresh |-> Packet(1, Plain),
                file |-> Shape \cup {<<"text", t>> : t \in {Plain, [Secure EXCEPT !.tables = {}]}},
                rest |-> {<<"linkage", <<>>>>, <<"linkage", <<"matrix">>>>, <<"linkage", <<"pairwise", "matrix">>>>,
                          <<"mode", "full">>, <<"decomposed", TRUE>>, <<"waived", TRUE>>, <<"root", [Doc EXCEPT !.dictionary = "own"]>>}]
ShardChoices == [FileChoices EXCEPT !.block = Links \cup {<<"status", "closed">>, <<"num", 1>>},
                                    !.file = Shape \cup {<<"text", Plain>>}]
NoChoices == [block |-> {<<"status", "closed">>}, file |-> {}, fresh |-> Packet(0, Plain), rest |-> {}]
Cite(k, r, i) == [kind |-> k, rel |-> r, key |-> i]
Cited == [c \in {Cite("section", "p", "3"), Cite("row", "ARCHITECTURE.md", "db"), Cite("boundary", "ARCHITECTURE.md", "core")} |-> 1]
Slice(n, k, shard, cites) == [id |-> <<n, k>>, shard |-> shard, budget |-> 6, fixtures |-> <<"seed">>, cites |-> cites]
SliceMap(shard) ==
  <<[num |-> 0, waivers |-> <<>>, slices |-> <<Slice(0, 1, shard, <<Cite("id", "", "TA1"), Cite("boundary", "ARCHITECTURE.md", "core")>>)>>],
    [num |-> 1, waivers |-> <<>>,
     slices |-> <<Slice(1, 1, shard, <<Cite("id", "", "SA2")>>), Slice(1, 2, shard, <<Cite("oracleset", "formal", "")>>)>>]>>
SliceChoices == {<<"cites", <<Cite("oracleset", "A", "")>>>>, <<"cites", <<Cite("id", "", "SA1"), Cite("section", "p", "3")>>>>,
                 <<"cites", <<Cite("file", "q", ""), Cite("row", "ARCHITECTURE.md", "db")>>>>,
                 <<"cites", <<Cite("milestone", "q", ""), Cite("id", "", "SA2")>>>>,
                 <<"cites", <<Cite("milestone", "BUILD.md", ""), Cite("id", "", "SA2")>>>>, <<"cites", <<>>>>,
                 <<"shard", "q">>, <<"budget", 2>>, <<"budget", 0>>, <<"fixtures", <<>>>>, <<"fixtures", <<"seed", "seed">>>>,
                 <<"id", <<1, 1>>>>}
CiteChoices == {<<"shard", "q">>, <<"cites", <<Cite("oracleset", "A", "")>>>>, <<"cites", <<Cite("file", "q", ""), Cite("row", "ARCHITECTURE.md", "db")>>>>,
                <<"cites", <<Cite("milestone", "q", ""), Cite("id", "", "SA2")>>>>}
Probe(a, e, o) == [subject |-> "Session", adversary |-> a, expected |-> e, observed |-> o]
Review == [num |-> 0, verdict |-> "ACCEPTED", commit |-> "b", dod |-> <<"SA1">>, attested |-> TRUE, date |-> 1,
           review |-> <<Probe("replay", "stale", "stale"), Probe("insider", "denied", "denied")>>]
AcceptChoices == {<<"num", 1>>, <<"verdict", "REJECTED">>, <<"verdict", "accepted">>, <<"dod", <<"TA1">>>>, <<"dod", <<"SA1", "SA1">>>>,
                  <<"dod", <<"SA1", "SA2">>>>, <<"dod", <<>>>>, <<"dod", <<"gone">>>>, <<"attested", FALSE>>, <<"date", 0>>, <<"review", <<>>>>,
                  <<"review", <<Probe("replay", "exit", "exit"), Probe("insider", "denied", "denied")>>>>,
                  <<"review", <<Probe("replay", "stale", "other"), Probe("insider", "denied", "denied")>>>>,
                  <<"review", <<Probe("nobody", "stale", "stale"), Probe("insider", "denied", "denied")>>>>}
FewAccepts == {<<"dod", <<"SA1", "SA2">>>>, <<"review", <<>>>>}
ReviewChoices == {<<"commit", c>> : c \in {"b7", "s", "HEAD"}}
History == [c \in {"a", "b", "s"} |-> IF c = "a" THEN {"a"} ELSE {"a", c}]
CommitNames == [c \in {"a", "b", "s", "b7"} |-> IF c = "b7" THEN "b" ELSE c]

\* A whole plan, one with packets and one with shards, each beside a quiet
\* history, and reviews of a plan whose history moves.
Desk(plan, choices, cut, slice, entry) ==
  [plan |-> plan, block |-> choices.block, file |-> choices.file, fresh |-> choices.fresh, rest |-> choices.rest,
   map |-> cut, record |-> Review, slice |-> slice, entry |-> entry,
   anchors |-> {""}, heads |-> {"b"}, gits |-> {"repository"}, moves |-> 0]
FourDesks == {Desk(FullPlan0, PlanChoices, SliceMap("BUILD.md"), SliceChoices, AcceptChoices),
              Desk(PacketPlan0, FileChoices, SliceMap("p"), CiteChoices, FewAccepts),
              Desk(ShardPlan0, ShardChoices, SliceMap("p"), CiteChoices, FewAccepts),
              [Desk(FullPlan0, NoChoices, <<>>, SliceChoices, ReviewChoices) EXCEPT
                 !.anchors = {"", "b7"}, !.heads = {"b", "s"}, !.gits = {"repository", "unborn", "outside"}, !.moves = 1]}

\* The components, with the bounds of this suite.
Adapters == INSTANCE AdapterRun WITH Langs <- AdapterLangs, Tests <- SuiteTests, Parent <-
  SuiteParent, Asserts <- SuiteAsserts, Faults <- SuiteFaults, lang <- adp_lang, pc <- adp_pc, src
  <- adp_src, pinned <- adp_pinned, st <- adp_st, ev <- adp_ev, why <- adp_why, caught <-
  adp_caught, crossed <- adp_crossed, ended <- adp_ended, reaped <- adp_reaped, result <-
  adp_result, custody <- adp_custody

(* The adapters.  A record is made once and then nothing moves, so each      *)
(* promise is a fact about the states in which Run is taken.                 *)

ASSUME AdapterAssumption == AdapterLangs \subseteq Adapters!Languages

LEMMA AdaptersInit == ASSUME AdapterLangs \subseteq Adapters!Languages PROVE Adapters!Init => Adapters!Inv
<1> SUFFICES ASSUME Adapters!Init PROVE Adapters!Inv
  OBVIOUS
<1>1. Adapters!Shapes
  BY DEF Adapters!Init, Adapters!Shapes, Adapters!After, Adapters!Causes
<1>2. Adapters!Pinning
  BY DEF Adapters!Init, Adapters!Pinning
<1>3. Adapters!Blame
  BY DEF Adapters!Init, Adapters!Blame, Adapters!BlameOf, Adapters!False
<1>4. Adapters!Ending
  BY DEF Adapters!Init, Adapters!Ending, Adapters!After
<1> QED BY <1>1, <1>2, <1>3, <1>4 DEF Adapters!Inv

\* Before the run: nothing but the sources and their digests.
LEMMA PrepareStep ==
  ASSUME Adapters!Inv, Adapters!Materialize \/ Adapters!pythonReconcileDiscovery \/ Adapters!Prepare \/ Adapters!Launch \/ Adapters!Rewrite
  PROVE  Adapters!Inv'
<1>0. /\ UNCHANGED <<adp_lang, adp_st, adp_ev, adp_why, adp_caught, adp_ended, adp_result>>
      /\ adp_pc \notin Adapters!After /\ adp_pc' \in {"built", "prepared", "running"}
      /\ Adapters!Shapes /\ Adapters!Pinning /\ Adapters!Blame /\ Adapters!Ending
  BY DEF Adapters!Inv, Adapters!Materialize, Adapters!pythonReconcileDiscovery, Adapters!Prepare,
       Adapters!Launch, Adapters!Rewrite, Adapters!After
<1>1. Adapters!Shapes'
  <2>1. adp_src' \in {0, 1} /\ adp_pinned' \in {0, 1}
    BY <1>0 DEF Adapters!Shapes, Adapters!Materialize, Adapters!pythonReconcileDiscovery, Adapters!Prepare,
         Adapters!PrepareGo, Adapters!PreparePython, Adapters!PrepareTypeScript, Adapters!PrepareElixir,
         Adapters!Launch, Adapters!Rewrite
  <2> QED BY <1>0, <2>1 DEF Adapters!Shapes, Adapters!After
<1>2. Adapters!Pinning'
  BY <1>0 DEF Adapters!Shapes, Adapters!Pinning, Adapters!Languages, Adapters!Materialize,
       Adapters!pythonReconcileDiscovery, Adapters!Prepare, Adapters!PrepareGo, Adapters!PreparePython,
       Adapters!PrepareTypeScript, Adapters!PrepareElixir, Adapters!Launch, Adapters!Rewrite
<1>3. Adapters!Blame'
  BY <1>0 DEF Adapters!Blame, Adapters!BlameOf, Adapters!False
<1>4. Adapters!Ending'
  BY <1>0 DEF Adapters!Ending, Adapters!After, Adapters!AllEnded
<1> QED BY <1>1, <1>2, <1>3, <1>4 DEF Adapters!Inv

\* While the suite runs: one test moves.
LEMMA TestStep ==
  ASSUME Adapters!Inv, NEW t \in SuiteTests,
         \/ Adapters!Start(t) \/ Adapters!Finish(t) \/ Adapters!Skip(t)
         \/ \E a \in SuiteAsserts[t], v \in BOOLEAN : Adapters!Check(t, a, v)
         \/ \E how \in {"plain", "other"} : Adapters!Misfire(t, how)
  PROVE  Adapters!Inv'
<1>0. /\ UNCHANGED <<adp_lang, adp_pc, adp_src, adp_pinned, adp_ended, adp_reaped, adp_result>>
          /\ adp_pc = "running" /\ (adp_crossed' => adp_crossed \/ adp_lang = "go")
      /\ Adapters!Shapes /\ Adapters!Pinning /\ Adapters!Blame /\ Adapters!Ending
  BY DEF Adapters!Inv, Adapters!Start, Adapters!Finish, Adapters!Skip, Adapters!Check, Adapters!Misfire,
       Adapters!Quiet
<1>2. Adapters!Pinning'
  BY <1>0 DEF Adapters!Pinning
<1>4. Adapters!Ending'
  BY <1>0 DEF Adapters!Ending, Adapters!After
<1>x. ASSUME Adapters!Shapes', \A u \in SuiteTests \ {t} : adp_ev'[u] = adp_ev[u] /\ adp_st'[u] = adp_st[u]
                 /\ adp_why'[u] = adp_why[u],
             adp_caught \subseteq adp_caught', adp_caught' \subseteq adp_caught \cup {t}, adp_lang = "go"
                 => adp_caught' = adp_caught,
             Adapters!BlameOf(t)'
      PROVE  Adapters!Inv'
  <2>1. ASSUME NEW u \in SuiteTests \ {t} PROVE Adapters!BlameOf(u)'
    <3>1. Adapters!False(u)' = Adapters!False(u) /\ adp_st'[u] = adp_st[u] /\ adp_why'[u] = adp_why[u]
              /\ (u \in adp_caught' <=> u \in adp_caught)
      BY <1>x DEF Adapters!False
    <3> QED BY <1>0, <1>x, <3>1 DEF Adapters!Blame, Adapters!BlameOf
  <2> QED BY <1>2, <1>4, <1>x, <2>1 DEF Adapters!Inv, Adapters!Blame
<1>5. CASE Adapters!Start(t)
  <2>1. Adapters!Shapes'
    BY <1>0, <1>5 DEF Adapters!Start, Adapters!Shapes
  <2>2. adp_ev' = adp_ev /\ adp_why' = adp_why /\ adp_caught' = adp_caught
            /\ adp_st' = [adp_st EXCEPT ![t] = "run"] /\ adp_st[t] = "new"
    BY <1>5 DEF Adapters!Start
  <2>3. adp_why[t] = {} /\ Adapters!False(t) = {}
    BY <1>0, <2>2 DEF Adapters!Blame, Adapters!BlameOf
  <2>4. Adapters!BlameOf(t)'
    BY <1>0, <2>2, <2>3 DEF Adapters!Shapes, Adapters!Blame, Adapters!BlameOf, Adapters!False
  <2> QED BY <1>0, <1>x, <2>1, <2>2, <2>4 DEF Adapters!Shapes
<1>6. CASE Adapters!Finish(t)
  <2>1. Adapters!Shapes'
    BY <1>0, <1>6 DEF Adapters!Finish, Adapters!Shapes, Adapters!Causes
  <2>2. Adapters!BlameOf(t)'
    <3>1. /\ adp_ev' = adp_ev /\ adp_caught' = adp_caught /\ adp_lang' = adp_lang /\ adp_st[t] = "run"
          /\ \/ adp_st'[t] = "pass" /\ adp_why'[t] = {} /\ adp_why[t] = {}
             \/ adp_st'[t] = "fail" /\ adp_why'[t] # {} /\ adp_why'[t] \in {adp_why[t], adp_why[t] \cup {"child"}}
      BY <1>0, <1>6 DEF Adapters!Finish, Adapters!Shapes
    <3>2. Adapters!False(t)' = Adapters!False(t) /\ Adapters!BlameOf(t)
      BY <1>0, <3>1 DEF Adapters!False, Adapters!Blame
    <3> QED BY <3>1, <3>2 DEF Adapters!BlameOf
  <2> QED BY <1>0, <1>6, <1>x, <2>1, <2>2 DEF Adapters!Finish, Adapters!Shapes
<1>7. CASE Adapters!Skip(t)
  <2>1. Adapters!Shapes'
    BY <1>0, <1>7 DEF Adapters!Skip, Adapters!Shapes
  <2>2. Adapters!BlameOf(t)'
    BY <1>0, <1>7 DEF Adapters!Skip, Adapters!Shapes, Adapters!Blame, Adapters!BlameOf, Adapters!False
  <2> QED BY <1>0, <1>7, <1>x, <2>1, <2>2 DEF Adapters!Skip, Adapters!Shapes
<1>8. ASSUME NEW a \in SuiteAsserts[t], NEW v \in BOOLEAN, Adapters!Check(t, a, v)
      PROVE  Adapters!Inv'
  <2>0. PICK e \in {"true", "false"} : e = IF v THEN "true" ELSE "false"
    OBVIOUS
  <2>1. /\ adp_ev' = [adp_ev EXCEPT ![t] = [adp_ev[t] EXCEPT ![a] = e]]
        /\ adp_ev[t][a] = "no" /\ adp_st[t] = "run"
    BY <1>8, <2>0 DEF Adapters!Check
  <2>2. Adapters!Shapes'
    <3>1. /\ adp_ev' = [u \in SuiteTests |-> adp_ev'[u]]
          /\ \A u \in SuiteTests : adp_ev'[u] \in [SuiteAsserts[u] -> {"no", "true", "false"}]
      BY <1>0, <2>1 DEF Adapters!Shapes
    <3>2. adp_st' \in [SuiteTests -> {"new", "run", "pass", "fail", "skip"}]
              /\ adp_why' \in [SuiteTests -> SUBSET Adapters!Causes]
      BY <1>0, <1>8 DEF Adapters!Check, Adapters!Shapes, Adapters!Causes
    <3> QED BY <1>0, <3>1, <3>2 DEF Adapters!Shapes
  <2>3. Adapters!False(t)' = IF v THEN Adapters!False(t) ELSE Adapters!False(t) \cup {a}
    BY <1>0, <2>0, <2>1 DEF Adapters!Shapes, Adapters!False
  <2>4. Adapters!BlameOf(t)'
    <3>0. Adapters!BlameOf(t) /\ UNCHANGED adp_lang
              /\ adp_st \in [SuiteTests -> {"new", "run", "pass", "fail", "skip"}]
                  /\ adp_why \in [SuiteTests -> SUBSET Adapters!Causes]
      BY <1>0 DEF Adapters!Blame, Adapters!Shapes
    <3>1. CASE v /\ UNCHANGED <<adp_st, adp_why, adp_caught>>
      BY <2>1, <2>3, <3>0, <3>1 DEF Adapters!BlameOf
    <3>2. CASE ~v /\ ~Adapters!Raises /\ adp_why' = [adp_why EXCEPT ![t] = @ \cup {"assert"}]
                   /\ UNCHANGED <<adp_st, adp_caught>>
      BY <2>1, <2>3, <3>0, <3>2 DEF Adapters!BlameOf, Adapters!Raises
    <3>3. CASE ~v /\ Adapters!Raises /\ adp_why' = [adp_why EXCEPT ![t] = @ \cup {"assert"}]
               /\ adp_st' = [adp_st EXCEPT ![t] = "fail"] /\ UNCHANGED adp_caught
      BY <2>1, <2>3, <3>0, <3>3 DEF Adapters!BlameOf, Adapters!Raises
    <3>4. CASE ~v /\ Adapters!Raises /\ adp_caught' = adp_caught \cup {t} /\ UNCHANGED <<adp_st, adp_why>>
      BY <2>1, <2>3, <3>0, <3>4 DEF Adapters!BlameOf, Adapters!Raises
    <3> QED BY <1>8, <3>1, <3>2, <3>3, <3>4 DEF Adapters!Check
  <2> QED BY <1>0, <1>8, <1>x, <2>1, <2>2, <2>4 DEF Adapters!Check, Adapters!Shapes, Adapters!Raises
<1>9. ASSUME NEW how \in {"plain", "other"}, Adapters!Misfire(t, how)
      PROVE  Adapters!Inv'
  <2>1. Adapters!Shapes'
    BY <1>0, <1>9 DEF Adapters!Misfire, Adapters!Shapes, Adapters!Causes
  <2>2. Adapters!False(t)' = Adapters!False(t)
    BY <1>9 DEF Adapters!Misfire, Adapters!False
  <2>3. Adapters!BlameOf(t)'
    BY <1>0, <1>9, <2>2 DEF Adapters!Misfire, Adapters!Shapes, Adapters!Causes, Adapters!Blame,
         Adapters!BlameOf, Adapters!Raises
  <2> QED BY <1>0, <1>9, <1>x, <2>1, <2>3 DEF Adapters!Misfire, Adapters!Shapes
<1> QED BY <1>5, <1>6, <1>7, <1>8, <1>9

\* The end of the process, and the record made of it.
LEMMA EndStep ==
  ASSUME Adapters!Inv, \/ \E t \in SuiteTests : Adapters!Panic(t)
              \/ \E how \in {"exit", "killed", "early", "abort"} : Adapters!Exit(how)
              \/ \E ok \in BOOLEAN : Adapters!Retire(ok)
              \/ Adapters!Run
  PROVE  Adapters!Inv'
<1>0. /\ UNCHANGED <<adp_lang, adp_src, adp_pinned, adp_ev, adp_caught, adp_crossed>>
      /\ Adapters!Shapes /\ Adapters!Pinning /\ Adapters!Blame /\ Adapters!Ending
  BY DEF Adapters!Inv, Adapters!Panic, Adapters!Exit, Adapters!Retire, Adapters!Run
<1>1. ASSUME NEW t \in SuiteTests, Adapters!Panic(t)
      PROVE  Adapters!Inv'
  <2>1. Adapters!Shapes'
    BY <1>0, <1>1 DEF Adapters!Panic, Adapters!Shapes, Adapters!Causes, Adapters!After
  <2>2. Adapters!Blame'
    BY <1>0, <1>1 DEF Adapters!Panic, Adapters!Shapes, Adapters!Causes, Adapters!Blame, Adapters!BlameOf,
         Adapters!False
  <2>3. Adapters!Pinning' /\ Adapters!Ending'
    BY <1>0, <1>1 DEF Adapters!Panic, Adapters!Pinning, Adapters!Ending, Adapters!After
  <2> QED BY <2>1, <2>2, <2>3 DEF Adapters!Inv
<1>2. CASE \E how \in {"exit", "killed", "early", "abort"} : Adapters!Exit(how)
  <2>1. Adapters!Shapes' /\ Adapters!Blame'
    BY <1>0, <1>2 DEF Adapters!Exit, Adapters!Shapes, Adapters!Blame, Adapters!BlameOf, Adapters!False,
         Adapters!After
  <2>2. Adapters!Pinning' /\ Adapters!Ending'
    BY <1>0, <1>2 DEF Adapters!Exit, Adapters!Pinning, Adapters!Ending, Adapters!After, Adapters!AllEnded
  <2> QED BY <2>1, <2>2 DEF Adapters!Inv
<1>3. CASE \E ok \in BOOLEAN : Adapters!Retire(ok)
  <2>1. Adapters!Shapes' /\ Adapters!Blame'
    BY <1>0, <1>3 DEF Adapters!Retire, Adapters!Shapes, Adapters!Blame, Adapters!BlameOf, Adapters!False,
         Adapters!After
  <2>2. Adapters!Pinning' /\ Adapters!Ending'
    BY <1>0, <1>3 DEF Adapters!Retire, Adapters!Pinning, Adapters!Ending, Adapters!After, Adapters!AllEnded
  <2> QED BY <2>1, <2>2 DEF Adapters!Inv
<1>4. CASE Adapters!Run
  <2>1. Adapters!Shapes' /\ Adapters!Blame'
    BY <1>0, <1>4 DEF Adapters!Run, Adapters!Shapes, Adapters!Blame, Adapters!BlameOf, Adapters!False,
         Adapters!After
  <2>2. Adapters!Accepted' = Adapters!Accepted /\ Adapters!Outcome' = Adapters!Outcome
    BY <1>4 DEF Adapters!Run, Adapters!Accepted, Adapters!VerifiedAfter, Adapters!goVerifyUnchanged,
         Adapters!pythonVerifyUnchanged, Adapters!elixirVerifyUnchanged, Adapters!Reconciled,
         Adapters!reconcileGoStream, Adapters!reconcilePythonReport, Adapters!reconcileTypeScriptStream,
         Adapters!reconcileElixirStream, Adapters!goReplay, Adapters!pythonReplay, Adapters!tsReplay,
         Adapters!elixirReplay, Adapters!Complete, Adapters!OwnAssertion, Adapters!Failed, Adapters!False,
         Adapters!Concord, Adapters!ExitCode, Adapters!RunGo, Adapters!RunPython, Adapters!RunTypeScript,
         Adapters!RunElixir, Adapters!Outcome
  <2>3. Adapters!Pinning' /\ Adapters!Ending'
    BY <1>0, <1>4, <2>2 DEF Adapters!Run, Adapters!Pinning, Adapters!Ending, Adapters!After,
         Adapters!AllEnded
  <2> QED BY <2>1, <2>3 DEF Adapters!Inv
<1> QED BY <1>1, <1>2, <1>3, <1>4

LEMMA AdaptersStep == ASSUME Adapters!Inv, [Adapters!Next]_(Adapters!vars) PROVE Adapters!Inv'
<1>1. CASE UNCHANGED Adapters!vars
  BY <1>1 DEF Adapters!vars, Adapters!Inv, Adapters!Shapes, Adapters!Pinning, Adapters!Blame,
       Adapters!BlameOf, Adapters!False, Adapters!Ending, Adapters!AllEnded, Adapters!Accepted,
       Adapters!VerifiedAfter, Adapters!goVerifyUnchanged, Adapters!pythonVerifyUnchanged,
       Adapters!elixirVerifyUnchanged, Adapters!Reconciled, Adapters!reconcileGoStream,
       Adapters!reconcilePythonReport, Adapters!reconcileTypeScriptStream, Adapters!reconcileElixirStream,
       Adapters!goReplay, Adapters!pythonReplay, Adapters!tsReplay, Adapters!elixirReplay,
       Adapters!Complete, Adapters!OwnAssertion, Adapters!Failed, Adapters!Concord, Adapters!ExitCode,
       Adapters!RunGo, Adapters!RunPython, Adapters!RunTypeScript, Adapters!RunElixir, Adapters!Outcome
<1>2. CASE Adapters!Next
  BY <1>2, PrepareStep, TestStep, EndStep DEF Adapters!Next
<1> QED BY <1>1, <1>2

\* What the invariant says of a record.
LEMMA RecordsTrue ==
  ASSUME Adapters!Inv
  PROVE  Adapters!PassMeansPassed /\ Adapters!FailMeansAsserted /\ Adapters!FrozenRan /\ Adapters!EndedWell
             /\ Adapters!WitnessesOwn /\ Adapters!Undisturbed
<1>0. Adapters!Shapes /\ Adapters!Pinning /\ Adapters!Blame /\ Adapters!Ending
  BY DEF Adapters!Inv
<1>1. ASSUME Adapters!Reports
      PROVE  /\ Adapters!Accepted /\ adp_result = Adapters!Outcome /\ Adapters!VerifiedAfter
                 /\ Adapters!Concord /\ adp_ended \in {"exit", "early", "abort"}
             /\ Adapters!Reconciled
  BY <1>0, <1>1 DEF Adapters!Ending, Adapters!Reports, Adapters!Evidence, Adapters!Accepted,
       Adapters!Shapes, Adapters!After
<1>2. ASSUME Adapters!Reports
      PROVE  /\ Adapters!Complete
             /\ adp_lang = "go" => Adapters!goReplay
             /\ adp_lang \in {"py", "ex"} => \A t \in SuiteTests \ Adapters!Failed : Adapters!False(t) = {}
             /\ \A t \in Adapters!Failed : Adapters!False(t) # {} /\ (adp_lang \in {"py", "ex"}
                 => "other" \notin adp_why[t])
  BY <1>0, <1>1, <1>2 DEF Adapters!Reconciled, Adapters!reconcileGoStream, Adapters!reconcilePythonReport,
       Adapters!reconcileTypeScriptStream, Adapters!reconcileElixirStream, Adapters!goReplay,
       Adapters!pythonReplay, Adapters!tsReplay, Adapters!elixirReplay, Adapters!OwnAssertion,
       Adapters!Shapes, Adapters!Languages
<1>3. adp_result = "pass" => Adapters!Reports
  BY DEF Adapters!Reports, Adapters!Evidence
<1>4. Adapters!PassMeansPassed
  <2> SUFFICES ASSUME adp_result = "pass", ~Adapters!Swallowed, NEW t \in SuiteTests
               PROVE  adp_st[t] = "pass" /\ \A a \in SuiteAsserts[t] : adp_ev[t][a] = "true"
    BY DEF Adapters!PassMeansPassed
  <2>1. Adapters!Failed = {}
    BY <1>1, <1>3 DEF Adapters!Outcome
  <2>2. adp_st[t] = "pass" /\ \A a \in SuiteAsserts[t] : adp_ev[t][a] # "no"
    BY <1>2, <1>3, <2>1 DEF Adapters!Complete, Adapters!Failed
  <2>3. Adapters!False(t) = {}
    BY <1>0, <1>2, <1>3, <2>1, <2>2 DEF Adapters!Blame, Adapters!BlameOf, Adapters!Swallowed,
         Adapters!Shapes, Adapters!Languages
  <2> QED BY <1>0, <2>2, <2>3 DEF Adapters!False, Adapters!Shapes
<1>5. Adapters!FailMeansAsserted
  <2> SUFFICES ASSUME Adapters!Reports, adp_result # "pass", adp_caught = {}
               PROVE  /\ \E t \in SuiteTests : Adapters!False(t) # {}
                      /\ \A t \in SuiteTests : adp_why[t] \subseteq {"assert"} \cup (IF adp_lang = "go" THEN {"panic", "child"} ELSE {"child"})
                      /\ \A t \in SuiteTests : \A a \in SuiteAsserts[t] : adp_ev[t][a] # "no"
    BY DEF Adapters!FailMeansAsserted
  <2>1. Adapters!Failed # {}
    BY <1>1 DEF Adapters!Outcome
  <2>2. ASSUME NEW t \in SuiteTests
        PROVE  adp_why[t] \subseteq {"assert"} \cup (IF adp_lang = "go" THEN {"panic", "child"} ELSE {"child"})
    <3>1. adp_st[t] = "pass" \/ t \in Adapters!Failed
      BY <1>2 DEF Adapters!Complete, Adapters!Failed
    <3>2. adp_why[t] \subseteq Adapters!Causes
      BY <1>0 DEF Adapters!Shapes
    <3>3. CASE adp_lang = "go"
      BY <1>0, <1>2, <3>2, <3>3 DEF Adapters!goReplay, Adapters!Blame, Adapters!BlameOf, Adapters!Causes
    <3>4. CASE adp_lang # "go"
      BY <1>0, <1>2, <3>1, <3>4 DEF Adapters!Blame, Adapters!BlameOf
    <3> QED BY <3>3, <3>4
  <2> QED BY <1>2, <2>1, <2>2 DEF Adapters!Complete, Adapters!Failed
<1>6. Adapters!FrozenRan
  BY <1>0, <1>1 DEF Adapters!FrozenRan, Adapters!Pinning, Adapters!VerifiedAfter,
       Adapters!goVerifyUnchanged, Adapters!elixirVerifyUnchanged, Adapters!Shapes, Adapters!Languages
<1>7. Adapters!EndedWell
  <2> SUFFICES ASSUME Adapters!Reports, ~(adp_lang = "ts" /\ adp_result = "fail")
               PROVE  adp_ended = "exit"
    BY DEF Adapters!EndedWell
  <2>1. adp_ended # "early"
    BY <1>0, <1>2 DEF Adapters!Ending, Adapters!AllEnded, Adapters!Complete
  <2>2. adp_ended # "abort"
    BY <1>0, <1>1 DEF Adapters!Concord, Adapters!ExitCode, Adapters!Outcome, Adapters!Ending,
         Adapters!Shapes, Adapters!Languages
  <2> QED BY <1>1, <2>1, <2>2
<1>8. Adapters!Undisturbed
  <2> SUFFICES ASSUME Adapters!Calm, \A t \in SuiteTests : adp_why[t] \subseteq {"assert"}
               PROVE  Adapters!Reports
    BY DEF Adapters!Undisturbed
  <2>1. ASSUME NEW t \in SuiteTests
        PROVE  /\ t \in Adapters!Failed => Adapters!False(t) # {} /\ "other" \notin adp_why[t]
               /\ t \notin Adapters!Failed => Adapters!False(t) = {}
               /\ "plain" \notin adp_why[t]
    BY <1>0 DEF Adapters!Calm, Adapters!Failed, Adapters!Blame, Adapters!BlameOf
  <2>2. Adapters!Complete /\ ~adp_crossed /\ adp_reaped /\ adp_ended = "exit" /\ adp_src = 0 /\ adp_pc = "done"
    BY DEF Adapters!Calm, Adapters!Complete
  <2>3. Adapters!Reconciled
    BY <1>0, <2>1, <2>2 DEF Adapters!Reconciled, Adapters!reconcileGoStream, Adapters!reconcilePythonReport,
         Adapters!reconcileTypeScriptStream, Adapters!reconcileElixirStream, Adapters!goReplay,
         Adapters!pythonReplay, Adapters!tsReplay, Adapters!elixirReplay, Adapters!OwnAssertion,
         Adapters!Shapes, Adapters!Languages, Adapters!Failed
  <2>4. Adapters!VerifiedAfter
    BY <1>0, <2>2 DEF Adapters!VerifiedAfter, Adapters!goVerifyUnchanged, Adapters!pythonVerifyUnchanged,
         Adapters!elixirVerifyUnchanged, Adapters!Shapes, Adapters!Languages, Adapters!Pinning
  <2>5. Adapters!Concord
    BY <1>0, <2>2 DEF Adapters!Concord, Adapters!ExitCode, Adapters!Shapes, Adapters!Languages
  <2>6. Adapters!Accepted
    BY <1>0, <2>2, <2>3, <2>4, <2>5 DEF Adapters!Accepted, Adapters!RunGo, Adapters!RunPython,
         Adapters!RunTypeScript, Adapters!RunElixir, Adapters!Shapes, Adapters!Languages
  <2> QED BY <1>0, <2>2, <2>6 DEF Adapters!Ending, Adapters!Outcome, Adapters!Reports, Adapters!Evidence
<1>9. Adapters!WitnessesOwn
  BY <1>0, <1>2 DEF Adapters!WitnessesOwn, Adapters!Pinning, Adapters!goReplay
<1> QED BY <1>4, <1>5, <1>6, <1>7, <1>8, <1>9

----------------------------------------------------------------------------
Runtime == INSTANCE RuntimeClosure WITH Langs <- LauncherLangs, MaxWrites <- LauncherWrites, Clocks
  <- LauncherClocks, lang <- clo_lang, clock <- clo_clock, body <- clo_body, ctime <- clo_ctime, now
  <- clo_now, writes <- clo_writes, pc <- clo_pc, prog <- clo_prog, snap <- clo_snap, got <-
  clo_got, rec <- clo_rec, info <- clo_info, sentinel <- clo_sentinel, moved <- clo_moved, seen <-
  clo_seen, calm <- clo_calm, held <- clo_held

(* A launcher settles: a sentinel is armed before its bytes are read and     *)
(* asked after they were read, on either clock, and on a fine clock a write   *)
(* changes the metadata that is compared after they were read.               *)

ASSUME LauncherAssumption == LauncherLangs \subseteq Runtime!Languages

LEMMA Joined ==
  /\ \A s, t \in Runtime!Eventless : s \o t \in Runtime!Eventless
  /\ \A o \in {"stat", "open", "read", "watch", "same", "sameInfo"}, f \in Runtime!Files : Runtime!Op(o, f) \in Runtime!Eventless
  /\ \A f \in Runtime!TreeFiles : Runtime!Op("after", f) \in Runtime!Eventless
<1>1. ASSUME NEW s \in Runtime!Eventless, NEW t \in Runtime!Eventless PROVE s \o t \in Runtime!Eventless
  <2>1. s \in Seq(Runtime!Ops) /\ t \in Seq(Runtime!Ops)
    BY DEF Runtime!Eventless
  <2>2. /\ s \o t \in Seq(Runtime!Ops) /\ DOMAIN (s \o t) = 1..(Len(s) + Len(t))
        /\ \A i \in 1..(Len(s) + Len(t)) : (s \o t)[i] = IF i <= Len(s) THEN s[i] ELSE t[i - Len(s)]
    BY <2>1, ConcatProperties
  <2>3. ASSUME NEW i \in 1..(Len(s) + Len(t)) PROVE ~Runtime!Asks((s \o t)[i]) /\ ~Runtime!Compares((s \o t)[i])
    <3>1. Len(s) \in Nat /\ Len(t) \in Nat /\ DOMAIN s = 1..Len(s) /\ DOMAIN t = 1..Len(t)
      BY <2>1
    <3>2. CASE i <= Len(s)
      BY <2>2, <3>1, <3>2 DEF Runtime!Eventless
    <3>3. CASE i > Len(s)
      <4>1. i - Len(s) \in DOMAIN t /\ (s \o t)[i] = t[i - Len(s)]
        BY <2>2, <3>1, <3>3
      <4> QED BY <4>1 DEF Runtime!Eventless
    <3> QED BY <3>1, <3>2, <3>3
  <2> QED BY <2>2, <2>3 DEF Runtime!Eventless
<1>2. ASSUME NEW o \in {"stat", "open", "read", "after", "watch", "same", "sameInfo"}, NEW f \in Runtime!Files,
             o # "after" \/ f \in Runtime!TreeFiles
      PROVE  Runtime!Op(o, f) \in Runtime!Eventless
  <2>1. [op |-> o, file |-> f] \in Runtime!Ops
    BY DEF Runtime!Ops
  <2>2. Runtime!Op(o, f) \in Seq(Runtime!Ops) /\ DOMAIN Runtime!Op(o, f) = 1..1 /\ Runtime!Op(o, f)[1] = [op |-> o, file |-> f]
    BY <2>1 DEF Runtime!Op
  <2>3. o # "events" /\ [op |-> o, file |-> f] # [op |-> "after", file |-> Runtime!Launcher]
    BY <1>2 DEF Runtime!TreeFiles, Runtime!Launcher
  <2> QED BY <2>2, <2>3 DEF Runtime!Eventless, Runtime!Asks, Runtime!Compares
<1>3. Runtime!TreeFiles \subseteq Runtime!Files
  BY DEF Runtime!Files
<1> QED BY <1>1, <1>2, <1>3

\* A launcher's program, and then nothing that asks or compares.
LEMMA Extended ==
  ASSUME NEW p \in Seq(Runtime!Ops), NEW s \in Runtime!Eventless, Runtime!Sentinel(p),
         \A i \in DOMAIN p : Runtime!Asks(p[i]) => i > 2
  PROVE  /\ p \o s \in Seq(Runtime!Ops) /\ Runtime!Sentinel(p \o s)
         /\ \A i \in DOMAIN (p \o s) : Runtime!Asks((p \o s)[i]) => i > 2
<1>1. s \in Seq(Runtime!Ops)
  BY DEF Runtime!Eventless
<1>2. /\ p \o s \in Seq(Runtime!Ops) /\ Len(p \o s) = Len(p) + Len(s)
      /\ \A i \in 1..(Len(p) + Len(s)) : (p \o s)[i] = IF i <= Len(p) THEN p[i] ELSE s[i - Len(p)]
  BY <1>1, ConcatProperties
<1>3. /\ Len(p) \in Nat /\ Len(s) \in Nat /\ DOMAIN p = 1..Len(p) /\ DOMAIN s = 1..Len(s)
      /\ DOMAIN (p \o s) = 1..(Len(p) + Len(s))
  BY <1>1, <1>2
<1>4. ASSUME NEW i \in DOMAIN (p \o s), Runtime!Asks((p \o s)[i]) \/ Runtime!Compares((p \o s)[i])
      PROVE  i \in DOMAIN p /\ (p \o s)[i] = p[i]
  <2>1. CASE i > Len(p)
    <3>1. i - Len(p) \in DOMAIN s /\ (p \o s)[i] = s[i - Len(p)]
      BY <1>2, <1>3, <2>1
    <3> QED BY <1>4, <3>1 DEF Runtime!Eventless
  <2> QED BY <1>2, <1>3, <2>1
<1>5. \A i \in DOMAIN p : (i > 1 => (p \o s)[i - 1] = p[i - 1]) /\ (i > 2 => (p \o s)[i - 2] = p[i - 2])
  BY <1>2, <1>3
<1> QED BY <1>2, <1>4, <1>5 DEF Runtime!Sentinel

\* What the calls are made of.
LEMMA Programs ==
  /\ Runtime!Open \in Seq(Runtime!Ops) \/ clo_lang \notin Runtime!Languages
  /\ Runtime!Revalidate \in Seq(Runtime!Ops) \/ clo_lang \notin Runtime!Languages
  /\ Runtime!Sentinel(Runtime!Open) \/ clo_lang \notin Runtime!Languages
  /\ \A i \in DOMAIN Runtime!Open : Runtime!Asks(Runtime!Open[i]) => i > 2 \/ clo_lang \notin Runtime!Languages
<1>0. /\ Runtime!Tree[1] \in Runtime!Files /\ Runtime!Tree[2] \in Runtime!Files /\ Runtime!Launcher \in Runtime!Files
      /\ Runtime!Tree[1] \in Runtime!TreeFiles /\ Runtime!Tree[2] \in Runtime!TreeFiles
  BY DEF Runtime!Tree, Runtime!Files, Runtime!TreeFiles
<1>1. Runtime!fingerprintJavaRoot \in Runtime!Eventless
  BY <1>0, Joined DEF Runtime!fingerprintJavaRoot, Runtime!inventoryJavaRoot, Runtime!hashJavaClosureFile, Runtime!Each
<1>2. Runtime!fingerprintGoRoot \in Runtime!Eventless
  BY <1>0, Joined DEF Runtime!fingerprintGoRoot, Runtime!Each
<1>3. /\ Runtime!openTypeScriptBinary \in Seq(Runtime!Ops) /\ Runtime!Sentinel(Runtime!openTypeScriptBinary)
      /\ \A i \in DOMAIN Runtime!openTypeScriptBinary : Runtime!Asks(Runtime!openTypeScriptBinary[i]) => i > 2
  BY <1>0 DEF Runtime!openTypeScriptBinary, Runtime!Ops, Runtime!Sentinel, Runtime!Asks, Runtime!Compares
<1>4. Runtime!fingerprintTypeScriptPackage \in Runtime!Eventless
  BY <1>0, Joined DEF Runtime!fingerprintTypeScriptPackage, Runtime!inventoryTypeScriptRoot,
       Runtime!hashTypeScriptFile, Runtime!Each
<1>5. Runtime!fingerprintPythonStdlib \in Runtime!Eventless
  BY <1>0, Joined DEF Runtime!fingerprintPythonStdlib, Runtime!hashTypeScriptFile, Runtime!Each
<1>6. Runtime!fingerprintElixirTree \in Runtime!Eventless
  BY <1>0, Joined DEF Runtime!fingerprintElixirTree, Runtime!hashElixirFile, Runtime!Each
<1>7. Runtime!OpenGo \in Runtime!Eventless /\ Runtime!OpenElixir \in Runtime!Eventless
  BY <1>0, <1>2, <1>6, Joined DEF Runtime!OpenGo, Runtime!OpenElixir
<1>8. /\ Runtime!revalidateGo \in Runtime!Eventless /\ Runtime!revalidateTypeScript \in Runtime!Eventless
          /\ Runtime!revalidatePython \in Runtime!Eventless
      /\ Runtime!revalidateElixir \in Runtime!Eventless /\ Runtime!ValidateJava \in Runtime!Eventless
  BY <1>0, <1>1, <1>2, <1>4, <1>5, <1>6, Joined DEF Runtime!revalidateGo, Runtime!revalidateTypeScript,
       Runtime!revalidatePython, Runtime!revalidateElixir, Runtime!ValidateJava
<1>9. /\ Runtime!openJavaLauncher \in Seq(Runtime!Ops) /\ Runtime!Sentinel(Runtime!openJavaLauncher)
      /\ \A i \in DOMAIN Runtime!openJavaLauncher : Runtime!Asks(Runtime!openJavaLauncher[i]) => i > 2
  BY <1>0 DEF Runtime!openJavaLauncher, Runtime!Ops, Runtime!Sentinel, Runtime!Asks, Runtime!Compares
<1>10. ASSUME NEW s, s \in {Runtime!OpenJava, Runtime!OpenTypeScript, Runtime!OpenPython}
       PROVE  s \in Seq(Runtime!Ops) /\ Runtime!Sentinel(s) /\ \A i \in DOMAIN s : Runtime!Asks(s[i]) => i > 2
  <2>1. CASE s = Runtime!OpenJava
    BY <1>1, <1>9, <2>1, Extended DEF Runtime!OpenJava
  <2>2. CASE s = Runtime!OpenTypeScript
    BY <1>3, <1>4, <2>2, Extended DEF Runtime!OpenTypeScript
  <2>3. CASE s = Runtime!OpenPython
    BY <1>3, <1>5, <2>3, Extended DEF Runtime!OpenPython
  <2> QED BY <1>10, <2>1, <2>2, <2>3
<1>11. ASSUME NEW s \in Runtime!Eventless PROVE s \in Seq(Runtime!Ops) /\ Runtime!Sentinel(s)
                  /\ \A i \in DOMAIN s : ~Runtime!Asks(s[i])
  BY DEF Runtime!Eventless, Runtime!Sentinel
<1>12. clo_lang \in Runtime!Languages => Runtime!Revalidate \in Seq(Runtime!Ops)
  BY <1>8, <1>11 DEF Runtime!Revalidate, Runtime!Languages
<1>13. clo_lang \in Runtime!Languages => Runtime!Open \in Seq(Runtime!Ops) /\ Runtime!Sentinel(Runtime!Open)
           /\ \A i \in DOMAIN Runtime!Open : Runtime!Asks(Runtime!Open[i]) => i > 2
  <2>1. CASE clo_lang \in {"java", "ts", "py"}
    <3>1. Runtime!Open \in {Runtime!OpenJava, Runtime!OpenTypeScript, Runtime!OpenPython}
      BY <2>1 DEF Runtime!Open
    <3> QED BY <1>10, <3>1
  <2>2. CASE clo_lang \in {"go", "ex"}
    <3>1. Runtime!Open \in Runtime!Eventless
      BY <1>7, <2>2 DEF Runtime!Open
    <3> QED BY <1>11, <3>1
  <2> QED BY <2>1, <2>2 DEF Runtime!Languages
<1> QED BY <1>12, <1>13

LEMMA SettledInit == ASSUME LauncherLangs \subseteq Runtime!Languages PROVE Runtime!Init => Runtime!SettledInv
<1> SUFFICES ASSUME Runtime!Init PROVE Runtime!SettledInv
  OBVIOUS
<1>1. clo_prog = Runtime!Open /\ clo_lang \in Runtime!Languages
  BY DEF Runtime!Init
<1>2. clo_prog \in Seq(Runtime!Ops) /\ Runtime!Sentinel(clo_prog)
          /\ \A i \in DOMAIN clo_prog : Runtime!Asks(clo_prog[i]) => i > 2
  BY <1>1, Programs
<1>3. \A i \in DOMAIN clo_prog : i > 2 => ~(i <= 2)
  BY <1>2
<1>4. Runtime!Timed /\ clo_snap[Runtime!Launcher] # clo_ctime[Runtime!Launcher]
  BY DEF Runtime!Init, Runtime!Timed, Runtime!Files
<1> QED BY <1>1, <1>2, <1>3, <1>4 DEF Runtime!Init, Runtime!SettledInv

\* One operation of the call under way.
LEMMA SettledStep ==
  ASSUME Runtime!SettledInv, Runtime!Step
  PROVE  Runtime!SettledInv' /\ (clo_pc = "open" /\ Runtime!LastLook /\ clo_pc' = "open"
             => clo_got[Runtime!Launcher] = clo_body[Runtime!Launcher])
<1>0. /\ clo_prog \in Seq(Runtime!Ops) /\ clo_prog # <<>> /\ clo_prog' = Tail(clo_prog)
          /\ Head(clo_prog) = clo_prog[1] /\ Head(clo_prog) \in Runtime!Ops
      /\ Len(clo_prog) \in Nat \ {0} /\ DOMAIN clo_prog = 1..Len(clo_prog) /\ Runtime!Launcher \in Runtime!Files
      /\ clo_prog' \in Seq(Runtime!Ops) /\ DOMAIN clo_prog' = 1..(Len(clo_prog) - 1)
          /\ \A i \in 1..(Len(clo_prog) - 1) : clo_prog'[i] = clo_prog[i + 1]
  BY DEF Runtime!SettledInv, Runtime!Step, Runtime!Files
<1>s. /\ clo_got' = IF Head(clo_prog).op = "read" THEN [clo_got EXCEPT ![Head(clo_prog).file] = clo_body[Head(clo_prog).file]] ELSE clo_got
      /\ clo_moved' = IF Head(clo_prog).op = "watch" THEN FALSE ELSE clo_moved
      /\ UNCHANGED <<clo_lang, clo_clock, clo_body, clo_ctime, clo_now>>
  BY DEF Runtime!Step
<1>1. clo_got' = [f \in Runtime!Files |-> clo_got'[f]] /\ clo_body' = [f \in Runtime!Files |-> clo_body'[f]]
  BY DEF Runtime!SettledInv, Runtime!Step
<1>2. ASSUME clo_pc' = "open" PROVE clo_pc = "open" /\ Runtime!Passes(Head(clo_prog))
  BY <1>2 DEF Runtime!Step
<1>7. ASSUME clo_pc = "open", NEW i \in DOMAIN clo_prog', Runtime!Compares(clo_prog'[i])
      PROVE  i > 1 => clo_prog'[i - 1] = [op |-> "read", file |-> Runtime!Launcher]
  <2>1. i \in 1..(Len(clo_prog) - 1) /\ i + 1 \in DOMAIN clo_prog /\ Runtime!Compares(clo_prog[i + 1])
    BY <1>0, <1>7
  <2>2. clo_prog[i] = [op |-> "read", file |-> Runtime!Launcher]
    BY <1>0, <1>7, <2>1 DEF Runtime!SettledInv, Runtime!Sentinel
  <2>3. i > 1 => i - 1 \in 1..(Len(clo_prog) - 1) /\ (i - 1) + 1 = i
    BY <1>0, <2>1
  <2> QED BY <1>0, <2>2, <2>3
<1>8. ASSUME clo_pc = "open", clo_prog' # <<>>, Runtime!Compares(Head(clo_prog'))
      PROVE  clo_got'[Runtime!Launcher] = clo_body'[Runtime!Launcher]
  <2>1. Len(clo_prog) > 1 /\ Head(clo_prog') = clo_prog[2] /\ 2 \in DOMAIN clo_prog
    BY <1>0, <1>8
  <2>2. clo_prog[1] = [op |-> "read", file |-> Runtime!Launcher]
    BY <1>8, <2>1 DEF Runtime!SettledInv, Runtime!Sentinel
  <2>3. clo_got' = [clo_got EXCEPT ![Runtime!Launcher] = clo_body[Runtime!Launcher]] /\ clo_body' = clo_body
    <3>1. Head(clo_prog).op = "read" /\ Head(clo_prog).file = Runtime!Launcher
      BY <1>0, <2>2
    <3> QED BY <1>s, <3>1
  <2> QED BY <1>0, <2>3 DEF Runtime!SettledInv
<1>9. Runtime!Timed'
  <2>1. clo_snap' = IF Head(clo_prog).op = "stat" THEN [clo_snap EXCEPT ![Head(clo_prog).file] = clo_ctime[Head(clo_prog).file]] ELSE clo_snap
    BY DEF Runtime!Step
  <2> QED BY <1>0, <1>s, <2>1 DEF Runtime!SettledInv, Runtime!Timed, Runtime!Ops
<1>3. ASSUME clo_pc = "open", NEW i \in DOMAIN clo_prog', Runtime!Asks(clo_prog'[i])
      PROVE  /\ i > 1 => clo_prog'[i - 1] = [op |-> "after", file |-> Runtime!Launcher]
             /\ i > 2 => clo_prog'[i - 2] = [op |-> "read", file |-> Runtime!Launcher]
  <2>1. i \in 1..(Len(clo_prog) - 1) /\ i + 1 \in DOMAIN clo_prog /\ Runtime!Asks(clo_prog[i + 1])
    BY <1>0, <1>3
  <2>2. clo_prog[i] = [op |-> "after", file |-> Runtime!Launcher]
    BY <1>0, <1>3, <2>1 DEF Runtime!SettledInv, Runtime!Sentinel
  <2>3. i > 1 => clo_prog[(i + 1) - 2] = [op |-> "read", file |-> Runtime!Launcher]
    BY <1>0, <1>3, <2>1 DEF Runtime!SettledInv, Runtime!Sentinel
  <2>4. (i + 1) - 2 = i - 1 /\ (i > 1 => i - 1 \in 1..(Len(clo_prog) - 1) /\ (i - 1) + 1 = i)
        /\ (i > 2 => i - 2 \in 1..(Len(clo_prog) - 1) /\ (i - 2) + 1 = i - 1)
    BY <1>0, <2>1
  <2>5. i > 1 => clo_prog'[i - 1] = clo_prog[i]
    BY <1>0, <2>4
  <2>6. i > 2 => clo_prog'[i - 2] = clo_prog[(i + 1) - 2]
    BY <1>0, <2>4
  <2> QED BY <2>1, <2>2, <2>3, <2>5, <2>6
<1>4. ASSUME clo_pc = "open", NEW i \in DOMAIN clo_prog', Runtime!Asks(clo_prog'[i]), i <= 2, ~clo_moved'
      PROVE  clo_got'[Runtime!Launcher] = clo_body'[Runtime!Launcher]
  <2>1. i \in 1..(Len(clo_prog) - 1) /\ i + 1 \in DOMAIN clo_prog /\ Runtime!Asks(clo_prog[i + 1])
            /\ clo_prog'[i] = clo_prog[i + 1]
    BY <1>0, <1>4
  <2>2. CASE i = 1
    <3>1. Head(clo_prog).op = "after" /\ Head(clo_prog).file = Runtime!Launcher
      BY <1>0, <1>4, <2>1, <2>2 DEF Runtime!SettledInv, Runtime!Sentinel
    <3>2. clo_got' = clo_got /\ clo_moved' = clo_moved /\ clo_body' = clo_body
      BY <1>s, <3>1
    <3> QED BY <1>4, <2>1, <2>2, <3>2 DEF Runtime!SettledInv
  <2>3. CASE i = 2
    <3>1. Head(clo_prog).op = "read" /\ Head(clo_prog).file = Runtime!Launcher
      BY <1>0, <1>4, <2>1, <2>3 DEF Runtime!SettledInv, Runtime!Sentinel
    <3>2. clo_got' = [clo_got EXCEPT ![Runtime!Launcher] = clo_body[Runtime!Launcher]] /\ clo_body' = clo_body
      BY <1>s, <3>1
    <3> QED BY <1>0, <3>2 DEF Runtime!SettledInv
  <2> QED BY <1>4, <2>1, <2>2, <2>3
<1>5. ASSUME clo_pc = "open", Runtime!LastLook, clo_pc' = "open"
      PROVE  clo_got[Runtime!Launcher] = clo_body[Runtime!Launcher]
  <2>1. CASE Head(clo_prog).op = "events" /\ clo_sentinel
    <3>1. ~clo_moved
      BY <1>2, <1>5, <2>1 DEF Runtime!Passes
    <3> QED BY <1>0, <1>5, <2>1, <3>1 DEF Runtime!SettledInv, Runtime!Asks
  <2>2. CASE Head(clo_prog) = [op |-> "after", file |-> Runtime!Launcher] /\ ~Runtime!Coarse
    <3>1. clo_snap[Runtime!Launcher] = clo_ctime[Runtime!Launcher]
      <4>1. Head(clo_prog).op = "after" /\ Head(clo_prog).file = Runtime!Launcher /\ Runtime!Passes(Head(clo_prog))
        BY <1>2, <1>5, <2>2
      <4> QED BY <4>1 DEF Runtime!Passes, Runtime!sameJavaFileSnapshot
    <3> QED BY <1>0, <1>5, <2>2, <3>1 DEF Runtime!SettledInv, Runtime!Compares
  <2> QED BY <1>5, <2>1, <2>2 DEF Runtime!LastLook
<1>6. clo_pc' = "open" => Runtime!Sentinel(clo_prog')
  BY <1>2, <1>3, <1>7 DEF Runtime!Sentinel
<1> QED BY <1>0, <1>s, <1>1, <1>2, <1>4, <1>5, <1>6, <1>8, <1>9 DEF Runtime!SettledInv

LEMMA SettledNext ==
  ASSUME Runtime!SettledInv, [Runtime!Next]_(Runtime!vars)
  PROVE  Runtime!SettledInv' /\ Runtime!LauncherSettled
<1>1. CASE Runtime!Step
  BY <1>1, SettledStep DEF Runtime!LauncherSettled
<1>2. CASE \E f \in Runtime!Files, fresh \in BOOLEAN : Runtime!Write(f, fresh)
  <2>1. PICK f \in Runtime!Files, fresh \in BOOLEAN : Runtime!Write(f, fresh)
    BY <1>2
  <2>2. /\ clo_body' = [clo_body EXCEPT ![f] = 1 - @] /\ clo_moved' = (clo_moved \/ f = Runtime!Launcher)
        /\ clo_now' = (IF fresh THEN clo_now + 1 ELSE clo_now) /\ clo_ctime' = [clo_ctime EXCEPT ![f] = clo_now']
        /\ fresh \/ Runtime!Coarse
        /\ UNCHANGED <<clo_lang, clo_clock, clo_pc, clo_prog, clo_got, clo_snap>>
    BY <2>1 DEF Runtime!Write
  <2>3. Runtime!Launcher \in Runtime!Files
    BY DEF Runtime!Files
  <2>4. ~clo_moved' => ~clo_moved /\ clo_body'[Runtime!Launcher] = clo_body[Runtime!Launcher]
    BY <2>2, <2>3 DEF Runtime!SettledInv
  <2>5. Runtime!Timed' /\ clo_body' = [g \in Runtime!Files |-> clo_body'[g]]
    <3>1. clo_now' \in Nat /\ clo_now' >= clo_now
      BY <2>2 DEF Runtime!SettledInv, Runtime!Timed
    <3>2. clo_ctime' \in [Runtime!Files -> Int] /\ clo_ctime'[Runtime!Launcher] <= clo_now'
      <4>1. CASE f = Runtime!Launcher
        BY <2>2, <2>3, <3>1, <4>1 DEF Runtime!SettledInv, Runtime!Timed
      <4>2. CASE f # Runtime!Launcher
        BY <2>2, <2>3, <3>1, <4>2 DEF Runtime!SettledInv, Runtime!Timed
      <4> QED BY <4>1, <4>2
    <3>3. clo_snap' \in [Runtime!Files -> Int] /\ clo_snap'[Runtime!Launcher] <= clo_now'
      BY <2>2, <2>3, <3>1 DEF Runtime!SettledInv, Runtime!Timed
    <3>4. clo_body' = [g \in Runtime!Files |-> clo_body'[g]]
      BY <2>2 DEF Runtime!SettledInv
    <3> QED BY <3>1, <3>2, <3>3, <3>4 DEF Runtime!Timed
  <2>6. ~Runtime!Coarse' /\ clo_snap'[Runtime!Launcher] = clo_ctime'[Runtime!Launcher]
          => /\ ~Runtime!Coarse /\ clo_snap[Runtime!Launcher] = clo_ctime[Runtime!Launcher]
             /\ clo_body'[Runtime!Launcher] = clo_body[Runtime!Launcher]
    BY <2>2, <2>3 DEF Runtime!SettledInv, Runtime!Timed, Runtime!Coarse
  <2> QED BY <2>2, <2>4, <2>5, <2>6 DEF Runtime!SettledInv, Runtime!Sentinel, Runtime!LauncherSettled
<1>3. CASE Runtime!Finish
  BY <1>3 DEF Runtime!Finish, Runtime!SettledInv, Runtime!Sentinel, Runtime!LauncherSettled, Runtime!Timed, Runtime!Coarse
<1>4. CASE Runtime!Validate \/ Runtime!Close
  BY <1>4, Programs DEF Runtime!Validate, Runtime!Close, Runtime!Begin, Runtime!SettledInv,
       Runtime!LauncherSettled, Runtime!Timed, Runtime!Files
<1>5. CASE UNCHANGED Runtime!vars
  BY <1>5 DEF Runtime!vars, Runtime!SettledInv, Runtime!Sentinel, Runtime!LauncherSettled, Runtime!Timed, Runtime!Coarse
<1> QED BY <1>1, <1>2, <1>3, <1>4, <1>5 DEF Runtime!Next

----------------------------------------------------------------------------
Declared == INSTANCE Declarations WITH Manifests <- DeclManifests, DesignOf <- DeclDesigns,
  MilestoneOf <- DeclMilestones, Root <- DeclRoot, Keys <- DeclKeys, Categories <- DeclCategories,
  Tests <- DeclTests, MaxEdits <- DeclEdits, there <- dcl_there, obls <- dcl_obls, planned <-
  dcl_planned, answers <- dcl_answers, current <- dcl_current, owed <- dcl_owed, payload <-
  dcl_payload, review <- dcl_review, seen <- dcl_seen, edits <- dcl_edits, accepted <- dcl_accepted

(* Declarations.  Reviews bind what was seen, an acceptance is taken back by *)
(* every edit, and the visit of the designs gives them an order.             *)

ASSUME DeclaredAssumption == Declared!WellFormed

LEMMA DeclaredFinite == \A S : Declared!IsFiniteSet(S) <=> IsFiniteSet(S)
BY DEF Declared!IsFiniteSet, IsFiniteSet

LEMMA FiniteImage ==
  ASSUME NEW S, IsFiniteSet(S), NEW T, NEW f, DOMAIN f = S, T = {f[x] : x \in S}, f = [x \in S |-> f[x]]
  PROVE  IsFiniteSet(T)
<1>1. f \in [S -> T]
  OBVIOUS
<1>2. f \in Surjection(S, T)
  BY <1>1 DEF Surjection
<1> QED BY <1>2, FS_Surjection

LEMMA LeastNatural ==
  ASSUME NEW K, K \subseteq Nat, K # {}
  PROVE  \E k \in K : \A j \in K : k <= j
<1> DEFINE R == OpToRel(<, Nat)
<1>1. \E k \in K : \A j \in K : <<j, k>> \notin R
  <2>1. IsWellFoundedOn(R, Nat)
    BY NatLessThanWellFounded
  <2> HIDE DEF R
  <2> QED BY <2>1, WFMin
<1>2. PICK k \in K : \A j \in K : <<j, k>> \notin R
  BY <1>1
<1>3. \A j \in K : ~(j < k)
  BY <1>2 DEF OpToRel
<1> HIDE DEF R
<1> QED BY <1>3

LEMMA DeclaredInit == Declared!Init => Declared!Inv
<1> SUFFICES ASSUME Declared!Init PROVE Declared!Inv
  OBVIOUS
<1>1. \A m \in DeclManifests : m # "plan" /\ m \in Declared!Controls
  BY DeclaredAssumption, DeclaredFinite DEF Declared!WellFormed, Declared!Controls
<1>2. Declared!Bound
  <2>1. dcl_review = [c \in Declared!Controls |-> Declared!ReviewSubjectDigest(c)]
            /\ dcl_seen = [c \in Declared!Controls |-> Declared!Before(c)]
    BY DEF Declared!Init
  <2>2. \A c \in Declared!Controls : /\ Declared!ReviewSubjectDigest(c).payload = Declared!Before(c).payload
                            /\ Declared!Before(c) = [rows |-> Declared!Before(c).rows,
                                   payload |-> Declared!Before(c).payload]
    BY DEF Declared!Before, Declared!ReviewSubjectDigest
  <2>3. \A m \in DeclManifests : Declared!ReviewSubjectDigest(m).c = Declared!Before(m).rows
    BY <1>1 DEF Declared!Before, Declared!ReviewSubjectDigest, Declared!Projection,
         Declared!ReviewProjectionManifest
  <2>4. Declared!Before("plan").rows = {} /\ "plan" \in Declared!Controls
    BY DEF Declared!Before, Declared!Controls
  <2> QED BY <1>1, <2>1, <2>2, <2>3, <2>4 DEF Declared!Bound
<1>3. Declared!Shape
  BY DEF Declared!Init, Declared!Shape, Declared!Dispositions
<1> QED BY <1>2, <1>3 DEF Declared!Inv, Declared!Passed, Declared!Init

LEMMA DeclaredReview == ASSUME Declared!Bound, NEW c \in Declared!Controls, Declared!GiveReview(c)
    PROVE Declared!Bound'
<1>1. \A m \in DeclManifests : m # "plan" /\ m \in Declared!Controls
  BY DeclaredAssumption, DeclaredFinite DEF Declared!WellFormed, Declared!Controls
<1>2. /\ dcl_review' = [dcl_review EXCEPT ![c] = Declared!ReviewSubjectDigest(c)]
      /\ dcl_seen' = [dcl_seen EXCEPT ![c] = Declared!Before(c)]
  BY DEF Declared!GiveReview
<1>3. Declared!ReviewSubjectDigest(c).payload = Declared!Before(c).payload
  BY DEF Declared!ReviewSubjectDigest, Declared!Before
<1>4. c # "plan" => Declared!ReviewSubjectDigest(c).c = Declared!Before(c).rows
  BY DEF Declared!ReviewSubjectDigest, Declared!Before, Declared!Projection,
       Declared!ReviewProjectionManifest
<1>5. (c = "plan" => Declared!Before(c).rows = {})
          /\ Declared!Before(c) = [rows |-> Declared!Before(c).rows, payload |-> Declared!Before(c).payload]
  BY DEF Declared!Before
<1> HIDE DEF Declared!ReviewSubjectDigest, Declared!Before
<1>6. "plan" \in Declared!Controls
  BY DEF Declared!Controls
<1> QED BY <1>1, <1>2, <1>3, <1>4, <1>5, <1>6 DEF Declared!Bound

LEMMA DeclaredStep == ASSUME Declared!Inv, [Declared!Next]_(Declared!vars) PROVE Declared!Inv'
<1>0. ASSUME UNCHANGED <<dcl_there, dcl_obls, dcl_planned, dcl_answers, dcl_current, dcl_owed,
                 dcl_payload, dcl_review, dcl_seen>>, Declared!ValidationHolds,
             \A c \in dcl_there \cup {"plan"} : Declared!Loadable(c)
      PROVE  Declared!Inv'
  <2>2. Declared!ValidationHolds'
    BY <1>0 DEF Declared!ValidationHolds, Declared!RefsResolve, Declared!PlanMatches,
         Declared!MilestonesCurrent, Declared!ObligationsReconcile, Declared!RuntimeAnswered,
         Declared!Acyclic, Declared!Visited, Declared!edges, Declared!Mapped, Declared!Resolved,
         Declared!refs, Declared!declared
  <2>3. \A c \in dcl_there \cup {"plan"} : Declared!Loadable(c)'
    BY <1>0 DEF Declared!Loadable, Declared!ReviewSubjectDigest, Declared!Projection,
         Declared!ReviewProjectionPlan, Declared!ReviewProjectionManifest
  <2> QED BY <1>0, <2>2, <2>3 DEF Declared!Inv, Declared!Bound, Declared!Shape, Declared!Passed
<1>1. CASE UNCHANGED Declared!vars
  <2>1. CASE dcl_accepted
    BY <1>0, <1>1, <2>1 DEF Declared!vars, Declared!Inv, Declared!Passed
  <2>2. CASE ~dcl_accepted
    BY <1>1, <2>2 DEF Declared!vars, Declared!Inv, Declared!Bound, Declared!Shape, Declared!Passed
  <2> QED BY <2>1, <2>2
<1>2. ASSUME Declared!Edit, dcl_there' \subseteq DeclManifests,
                 dcl_answers' \in [DeclCategories -> [as : Declared!Dispositions, tests :
                 SUBSET Declared!Leaves]]
      PROVE Declared!Inv'
  BY <1>2 DEF Declared!Edit, Declared!Inv, Declared!Bound, Declared!Shape, Declared!Passed
<1>3. ASSUME NEW c \in Declared!Controls, Declared!GiveReview(c) PROVE Declared!Inv'
  <2>1. Declared!Bound'
    BY <1>3, DeclaredReview DEF Declared!Inv
  <2> QED BY <1>3, <2>1 DEF Declared!GiveReview, Declared!Inv, Declared!Shape, Declared!Passed
<1>4. CASE Declared!Validate
  BY <1>0, <1>4 DEF Declared!Validate
<1>5. ASSUME NEW m \in DeclManifests, Declared!WriteManifest(m) PROVE Declared!Inv'
  BY <1>2, <1>5 DEF Declared!WriteManifest, Declared!Flip, Declared!Inv, Declared!Shape
<1>6. ASSUME NEW m \in DeclManifests, NEW o \in Declared!Rows, Declared!MapKey(m, o) PROVE Declared!Inv'
  BY <1>2, <1>6 DEF Declared!MapKey, Declared!Inv, Declared!Shape
<1>7. ASSUME NEW id, Declared!Plan(id) PROVE Declared!Inv'
  BY <1>2, <1>7 DEF Declared!Plan, Declared!Inv, Declared!Shape
<1>8. ASSUME NEW c \in DeclCategories, NEW as \in Declared!Dispositions, NEW ts \in {{}}
                 \cup {{t} : t \in Declared!Leaves}, Declared!Answer(c, as, ts) PROVE Declared!Inv'
  <2>1. [as |-> as, tests |-> ts] \in [as : Declared!Dispositions, tests : SUBSET Declared!Leaves]
    OBVIOUS
  <2>2. dcl_answers' \in [DeclCategories -> [as : Declared!Dispositions, tests : SUBSET Declared!Leaves]]
    BY <1>8, <2>1 DEF Declared!Answer, Declared!Inv, Declared!Shape
  <2> QED BY <1>2, <1>8, <2>2 DEF Declared!Answer, Declared!Inv, Declared!Shape
<1>9. ASSUME NEW id, NEW k \in DeclKeys, Declared!Redesign(id, k) PROVE Declared!Inv'
  BY <1>2, <1>9 DEF Declared!Redesign, Declared!Inv, Declared!Shape
<1> QED BY <1>1, <1>3, <1>4, <1>5, <1>6, <1>7, <1>8, <1>9 DEF Declared!Next

LEMMA DeclaredReviewed == ASSUME Declared!Inv PROVE Declared!ReviewedAsIs
<1> SUFFICES ASSUME dcl_accepted, NEW c \in dcl_there \cup {"plan"} PROVE dcl_seen[c] = Declared!Before(c)
  BY DEF Declared!ReviewedAsIs
<1>0. c \in Declared!Controls
  BY DEF Declared!Inv, Declared!Shape, Declared!Controls
<1>1. dcl_review[c] = Declared!ReviewSubjectDigest(c)
  BY DEF Declared!Inv, Declared!Passed, Declared!Loadable
<1>2. dcl_seen[c].payload = Declared!Before(c).payload
  BY <1>0, <1>1 DEF Declared!Inv, Declared!Bound, Declared!ReviewSubjectDigest, Declared!Before
<1>3. dcl_seen[c].rows = Declared!Before(c).rows
  <2>1. CASE c = "plan"
    BY <2>1 DEF Declared!Inv, Declared!Bound, Declared!Before
  <2>2. CASE c # "plan"
    BY <1>0, <1>1, <2>2 DEF Declared!Inv, Declared!Bound, Declared!Before, Declared!ReviewSubjectDigest,
         Declared!Projection, Declared!ReviewProjectionManifest, Declared!Controls
  <2> QED BY <2>1, <2>2
<1>4. dcl_seen[c] = [rows |-> dcl_seen[c].rows, payload |-> dcl_seen[c].payload]
  BY <1>0 DEF Declared!Inv, Declared!Bound
<1>5. Declared!Before(c) = [rows |-> Declared!Before(c).rows, payload |-> Declared!Before(c).payload]
  BY DEF Declared!Before
<1> QED BY <1>2, <1>3, <1>4, <1>5

LEMMA DeclaredOwned == ASSUME Declared!Inv PROVE Declared!NothingUnowned /\ Declared!Answerable
<1> SUFFICES ASSUME dcl_accepted PROVE Declared!NothingUnowned /\ Declared!Answerable
  BY DEF Declared!NothingUnowned, Declared!Answerable
<1>1. Declared!ValidationHolds /\ dcl_there \subseteq DeclManifests
          /\ dcl_answers \in [DeclCategories -> [as : Declared!Dispositions, tests :
          SUBSET Declared!Leaves]]
  BY DEF Declared!Inv, Declared!Passed, Declared!Shape
<1>2. Declared!NothingUnowned
  <2> SUFFICES ASSUME NEW k \in dcl_owed, k.kind # "runtime"
               PROVE  \E m \in dcl_there : (\E o \in dcl_obls[m] : o.key = k) /\ DeclDesigns[m] = k.design
                          /\ (k.design = DeclRoot => DeclMilestones[m] \in dcl_current)
    BY DEF Declared!NothingUnowned
  <2>1. PICK m \in dcl_there : (\E o \in dcl_obls[m] : o.key = k) /\ k.design = DeclDesigns[m]
    BY <1>1 DEF Declared!ValidationHolds, Declared!ObligationsReconcile, Declared!Mapped
  <2>2. k.design = DeclRoot => DeclMilestones[m] \in dcl_current
    BY <1>1, <2>1 DEF Declared!ValidationHolds, Declared!MilestonesCurrent, Declared!declared, Declared!Own
  <2> QED BY <2>1, <2>2
<1>3. Declared!Answerable
  BY <1>1 DEF Declared!Answerable, Declared!ValidationHolds, Declared!RuntimeAnswered,
       Declared!RefsResolve, Declared!Resolved, Declared!Dispositions
<1> QED BY <1>2, <1>3

LEMMA DeclaredDescends == ASSUME NEW e \in Declared!edges PROVE Declared!Visited(e[2])
    \cup {e[2]} \subseteq Declared!Visited(e[1])
<1>0. e[2] \in Declared!Designs
  BY DEF Declared!edges
<1>1. e[2] \in Declared!Visited(e[1])
  BY <1>0 DEF Declared!Visited
<1>2. ASSUME NEW x \in Declared!Visited(e[2]) PROVE x \in Declared!Visited(e[1])
  BY <1>0, <1>2 DEF Declared!Visited
<1> QED BY <1>1, <1>2

LEMMA DeclaredOrder == ASSUME Declared!Inv PROVE Declared!Orderable
<1> SUFFICES ASSUME dcl_accepted, NEW D \in SUBSET Declared!Designs, D # {}
             PROVE  \E d \in D : \A m \in dcl_there, n \in DeclManifests :
                      DeclDesigns[m] = d /\ DeclDesigns[n] \in D \ {d}
                          => Declared!refs(m) \cap DeclTests[n] = {}
  BY DEF Declared!Orderable
<1> SUFFICES ASSUME \A d \in D : \E m \in dcl_there, n \in DeclManifests :
                       DeclDesigns[m] = d /\ DeclDesigns[n] \in D \ {d}
                           /\ Declared!refs(m) \cap DeclTests[n] # {}
             PROVE  FALSE
  OBVIOUS
<1>1. \A d \in Declared!Designs : d \notin Declared!Visited(d)
  BY DEF Declared!Inv, Declared!Passed, Declared!ValidationHolds, Declared!Acyclic
<1>2. \A d \in D : \E e \in Declared!edges : e[1] = d /\ e[2] \in D
  <2> TAKE d \in D
  <2>1. PICK m \in dcl_there, n \in DeclManifests : DeclDesigns[m] = d /\ DeclDesigns[n] \in D \ {d}
                 /\ Declared!refs(m) \cap DeclTests[n] # {}
    OBVIOUS
  <2>2. <<d, DeclDesigns[n]>> \in Declared!edges
    BY <2>1 DEF Declared!edges
  <2> QED BY <2>1, <2>2
<1>3. IsFiniteSet(Declared!Designs)
  <2> DEFINE f == [m \in DeclManifests |-> DeclDesigns[m]]
  <2>1. Declared!Designs = {f[m] : m \in DeclManifests}
    BY DEF Declared!Designs
  <2>2. DOMAIN f = DeclManifests /\ f = [m \in DeclManifests |-> f[m]] /\ IsFiniteSet(DeclManifests)
    BY DeclaredAssumption, DeclaredFinite DEF Declared!WellFormed
  <2> HIDE DEF f
  <2> QED BY <2>1, <2>2, FiniteImage
<1> DEFINE Sizes == {Cardinality(Declared!Visited(d)) : d \in D}
<1>4. \A d \in D : IsFiniteSet(Declared!Visited(d)) /\ Cardinality(Declared!Visited(d)) \in Nat
  BY <1>3, FS_Subset, FS_CardinalityType DEF Declared!Visited
<1>5. Sizes \subseteq Nat /\ Sizes # {}
  BY <1>4
<1>6. PICK k \in Sizes : \A j \in Sizes : k <= j
  BY <1>5, LeastNatural
<1>7. PICK d \in D : k = Cardinality(Declared!Visited(d))
  BY <1>6
<1>8. PICK e \in Declared!edges : e[1] = d /\ e[2] \in D
  BY <1>2
<1>9. Declared!Visited(e[2]) \cup {e[2]} \subseteq Declared!Visited(d)
  BY <1>8, DeclaredDescends
<1>10. Cardinality(Declared!Visited(e[2])) <= Cardinality(Declared!Visited(d))
       /\ (Cardinality(Declared!Visited(e[2])) = Cardinality(Declared!Visited(d))
              => Declared!Visited(e[2]) = Declared!Visited(d))
  BY <1>4, <1>7, <1>8, <1>9, FS_Subset
<1>11. ~(Cardinality(Declared!Visited(e[2])) < Cardinality(Declared!Visited(d)))
  <2>1. Cardinality(Declared!Visited(e[2])) \in Sizes
    BY <1>8
  <2>2. k <= Cardinality(Declared!Visited(e[2]))
    BY <2>1, <1>6
  <2>3. Cardinality(Declared!Visited(e[2])) \in Nat
    BY <1>4, <1>8
  <2> QED BY <1>4, <1>7, <2>2, <2>3
<1>12. Declared!Visited(e[2]) = Declared!Visited(d)
  BY <1>4, <1>7, <1>8, <1>10, <1>11
<1>13. e[2] \in Declared!Visited(e[2]) /\ e[2] \in Declared!Designs
  BY <1>8, <1>9, <1>12
<1> QED BY <1>1, <1>13

----------------------------------------------------------------------------
Calibrated == INSTANCE Calibration WITH Tests <- CalTests, Asserts <- CalAsserts, Negative <-
  CalNegative, Variants <- CalVariants, Kind <- CalKinds, Pairs <- CalPairs, Sources <- CalSources,
  Baseline <- CalBaseline, MaxNames <- CalNames, MaxEdits <- CalEdits, Base0 <- CalBase, Expected0
  <- CalExpected, Pair0 <- CalPair, Target0 <- CalTarget, Source0 <- CalSource, Controls0 <-
  CalControls, red <- cal_red, expected <- cal_expected, pair <- cal_pair, target <- cal_target,
  source <- cal_source, controls <- cal_controls, edits <- cal_edits, accepted <- cal_accepted

(* Calibrations: what is accepted has the form that Validate checks.         *)

ASSUME CalibrationAssumption == Calibrated!WellFormed

LEMMA CalibratedFinite == \A S : Calibrated!IsFiniteSet(S) <=> IsFiniteSet(S)
BY DEF Calibrated!IsFiniteSet, IsFiniteSet

LEMMA CalibratedCardinality == \A S : Calibrated!Cardinality(S) = Cardinality(S)
BY DEF Calibrated!Cardinality, Cardinality

LEMMA CalibratedInit == Calibrated!Init => Calibrated!Inv
BY CalibrationAssumption, CalibratedFinite DEF Calibrated!Init, Calibrated!Inv, Calibrated!Shape,
     Calibrated!WellFormed

LEMMA CalibratedStep == ASSUME Calibrated!Inv, [Calibrated!Next]_(Calibrated!vars) PROVE Calibrated!Inv'
<1>0. ASSUME UNCHANGED <<cal_red, cal_expected, cal_pair, cal_target, cal_source, cal_controls>>,
                 cal_accepted' => Calibrated!ManifestHolds PROVE Calibrated!Inv'
  <2>1. Calibrated!ManifestHolds' <=> Calibrated!ManifestHolds
    BY <1>0, CalibratedCardinality DEF Calibrated!ManifestHolds, Calibrated!BaselineComplete,
         Calibrated!VariantsComplete, Calibrated!ControlsBijective, Calibrated!fails, Calibrated!For,
         Calibrated!passOK, Calibrated!pairs, Calibrated!Members, Calibrated!PairHolds,
         Calibrated!Distinct, Calibrated!TargetsDiffer, Calibrated!OthersAgree,
         Calibrated!completePairTargets, Calibrated!Referenced
  <2> QED BY <1>0, <2>1 DEF Calibrated!Inv, Calibrated!Shape
<1>1. CASE UNCHANGED Calibrated!vars
  BY <1>0, <1>1 DEF Calibrated!vars, Calibrated!Inv
<1>2. ASSUME Calibrated!Edit, Calibrated!Shape' PROVE Calibrated!Inv'
  BY <1>2 DEF Calibrated!Edit, Calibrated!Inv
<1>3. CASE Calibrated!Validate
  BY <1>0, <1>3 DEF Calibrated!Validate
<1>4. ASSUME NEW t \in CalTests, NEW e \in Calibrated!Expectations, Calibrated!EditBaseline(t, e)
                 PROVE Calibrated!Inv'
  BY <1>2, <1>4 DEF Calibrated!EditBaseline, Calibrated!Inv, Calibrated!Shape
<1>5. ASSUME NEW v \in CalVariants, NEW t \in CalTests, NEW e \in Calibrated!Expectations,
                 Calibrated!EditVariant(v, t, e) PROVE Calibrated!Inv'
  <2>1. cal_expected' \in [CalVariants -> [CalTests -> Calibrated!Expectations]]
    BY <1>5 DEF Calibrated!EditVariant, Calibrated!Inv, Calibrated!Shape
  <2> QED BY <1>2, <1>5, <2>1 DEF Calibrated!EditVariant, Calibrated!Inv, Calibrated!Shape
<1>6. ASSUME NEW v \in CalVariants, NEW p \in CalPairs \cup {Calibrated!NoPair}, Calibrated!EditPair(v, p)
                 PROVE Calibrated!Inv'
  BY <1>2, <1>6 DEF Calibrated!EditPair, Calibrated!Inv, Calibrated!Shape
<1>7. ASSUME NEW v \in CalVariants, NEW t \in CalTests, Calibrated!EditTarget(v, t) PROVE Calibrated!Inv'
  <2>1. cal_target' \in [CalVariants -> SUBSET CalTests]
    BY <1>7 DEF Calibrated!EditTarget, Calibrated!Inv, Calibrated!Shape, Calibrated!Flip
  <2> QED BY <1>2, <1>7, <2>1 DEF Calibrated!EditTarget, Calibrated!Inv, Calibrated!Shape
<1>8. ASSUME NEW v \in CalVariants, NEW s \in CalSources, Calibrated!EditSource(v, s) PROVE Calibrated!Inv'
  BY <1>2, <1>8 DEF Calibrated!EditSource, Calibrated!Inv, Calibrated!Shape
<1>9. ASSUME NEW c, Calibrated!EditControl(c) PROVE Calibrated!Inv'
  BY <1>2, <1>9 DEF Calibrated!EditControl, Calibrated!Inv, Calibrated!Shape
<1> QED BY <1>1, <1>3, <1>4, <1>5, <1>6, <1>7, <1>8, <1>9 DEF Calibrated!Next

\* What an expectation lists.
LEMMA CalibratedNames ==
  ASSUME NEW e \in Calibrated!Expectations
  PROVE  /\ e.names \in Seq(Calibrated!Ids)
         /\ Calibrated!Named(e) = {e.names[i] : i \in 1 .. Len(e.names)} /\ Len(e.names) \in Nat
         /\ (e.names # <<>> => Calibrated!Named(e) # {}) /\ IsFiniteSet(Calibrated!Named(e))
                /\ Cardinality(Calibrated!Named(e)) \in Nat
<1>1. e.names \in Seq(Calibrated!Ids)
  <2>1. CASE e = Calibrated!None
    <3>1. e.names = <<>>
      BY <2>1 DEF Calibrated!None
    <3> QED BY <3>1
  <2>2. CASE e # Calibrated!None
    <3>1. e.names \in Calibrated!SeqOf(Calibrated!Ids, CalNames)
      BY <2>2 DEF Calibrated!Expectations
    <3>2. PICK n \in 0 .. CalNames : e.names \in [1 .. n -> Calibrated!Ids]
      BY <3>1 DEF Calibrated!SeqOf
    <3>3. n \in Nat
      BY <3>2, CalibrationAssumption, CalibratedFinite DEF Calibrated!WellFormed
    <3> QED BY <3>2, <3>3
  <2> QED BY <2>1, <2>2
<1>2. DOMAIN e.names = 1 .. Len(e.names) /\ Len(e.names) \in Nat
  BY <1>1
<1>3. Calibrated!Named(e) = {e.names[i] : i \in 1 .. Len(e.names)}
  BY <1>2 DEF Calibrated!Named, Calibrated!ToSet
<1>4. e.names # <<>> => Len(e.names) > 0
  BY <1>1
<1>5. e.names # <<>> => e.names[1] \in Calibrated!Named(e)
  BY <1>2, <1>3, <1>4
<1>6. IsFiniteSet(Calibrated!Named(e))
  <2> DEFINE f == [i \in 1 .. Len(e.names) |-> e.names[i]]
  <2>1. f \in Surjection(1 .. Len(e.names), Calibrated!Named(e))
    BY <1>3 DEF Surjection
  <2>2. IsFiniteSet(1 .. Len(e.names))
    BY <1>2, FS_Interval
  <2> QED BY <2>1, <2>2, FS_Surjection
<1> QED BY <1>1, <1>2, <1>3, <1>5, <1>6, FS_CardinalityType

LEMMA CalibratedPairs ==
  ASSUME Calibrated!Inv, cal_accepted, NEW p \in Calibrated!pairs
  PROVE  \E s, u \in CalVariants :
            /\ Calibrated!Members(p) = {s, u} /\ Calibrated!Safe(s) /\ ~Calibrated!Safe(u)
                   /\ cal_target[s] = cal_target[u] /\ cal_target[s] \subseteq CalTests
            /\ cal_source[s] # cal_source[u] /\ cal_source[u] # CalBaseline
            /\ \A t \in cal_target[s] : cal_expected[u][t].outcome = "assertion-fail"
                   /\ cal_expected[s][t].outcome = "pass"
            /\ Calibrated!OthersAgree(s, u)
<1>1. Calibrated!PairHolds(p)
  BY DEF Calibrated!Inv, Calibrated!ManifestHolds
<1>2. PICK s, u \in Calibrated!Members(p) : 
    /\ Calibrated!Safe(s) /\ ~Calibrated!Safe(u) /\ Calibrated!Members(p) = {s, u}
    /\ cal_target[s] = cal_target[u]
    /\ Calibrated!Distinct(s, u) /\ Calibrated!TargetsDiffer(s, u) /\ Calibrated!OthersAgree(s, u)
  BY <1>1 DEF Calibrated!PairHolds
<1>3. s \in CalVariants /\ u \in CalVariants
  BY DEF Calibrated!Members
<1>4. cal_target[s] \subseteq CalTests
  BY <1>3 DEF Calibrated!Inv, Calibrated!Shape
<1> QED BY <1>2, <1>3, <1>4 DEF Calibrated!Distinct, Calibrated!TargetsDiffer

LEMMA CalibratedExpect ==
  ASSUME Calibrated!Inv, cal_accepted, NEW v \in CalVariants, NEW t \in CalTests
  PROVE  /\ cal_expected[v][t] \in Calibrated!Expectations /\ Calibrated!checkExp(t, cal_expected[v][t])
         /\ cal_red[t] \in Calibrated!Expectations /\ Calibrated!checkExp(t, cal_red[t])
BY DEF Calibrated!Inv, Calibrated!Shape, Calibrated!ManifestHolds, Calibrated!BaselineComplete,
     Calibrated!VariantsComplete

LEMMA CalibratedSensitive == ASSUME Calibrated!Inv PROVE Calibrated!Sensitive
<1> SUFFICES ASSUME cal_accepted, NEW t \in CalNegative
             PROVE  \E s, u \in CalVariants :
                      /\ Calibrated!Safe(s) /\ ~Calibrated!Safe(u) /\ cal_source[s] # cal_source[u]
                             /\ cal_source[u] # CalBaseline
                      /\ Calibrated!Failing(cal_expected[s][t]) = {}
                             /\ Calibrated!Failing(cal_expected[u][t]) # {}
  BY DEF Calibrated!Sensitive
<1>1. t \in CalTests /\ t \in Calibrated!completePairTargets
  BY CalibrationAssumption, CalibratedFinite DEF Calibrated!WellFormed, Calibrated!Inv,
       Calibrated!ManifestHolds
<1>2. PICK p \in Calibrated!pairs : \E v \in Calibrated!Members(p) : t \in cal_target[v]
  BY <1>1 DEF Calibrated!completePairTargets
<1>3. PICK s, u \in CalVariants :
            /\ Calibrated!Members(p) = {s, u} /\ Calibrated!Safe(s) /\ ~Calibrated!Safe(u)
                   /\ cal_target[s] = cal_target[u] /\ cal_target[s] \subseteq CalTests
            /\ cal_source[s] # cal_source[u] /\ cal_source[u] # CalBaseline
            /\ \A x \in cal_target[s] : cal_expected[u][x].outcome = "assertion-fail"
                   /\ cal_expected[s][x].outcome = "pass"
  BY CalibratedPairs
<1>4. t \in cal_target[s]
  BY <1>2, <1>3
<1>5. cal_expected[u][t].outcome = "assertion-fail" /\ cal_expected[s][t].outcome = "pass"
  BY <1>3, <1>4
<1>6. Calibrated!Failing(cal_expected[s][t]) = {}
  BY <1>5 DEF Calibrated!Failing
<1>7. Calibrated!Failing(cal_expected[u][t]) # {}
  BY <1>1, <1>5, CalibratedExpect, CalibratedNames, CalibratedCardinality DEF Calibrated!Failing,
       Calibrated!checkExp
<1> QED BY <1>3, <1>6, <1>7

LEMMA CalibratedSame ==
  ASSUME NEW x \in Seq(Calibrated!Ids), NEW y \in Seq(Calibrated!Ids), Calibrated!sameStrings(x, y)
  PROVE  {x[i] : i \in 1 .. Len(x)} \subseteq {y[i] : i \in 1 .. Len(y)}
<1> SUFFICES ASSUME NEW i \in 1 .. Len(x) PROVE \E j \in 1 .. Len(y) : y[j] = x[i]
  OBVIOUS
<1>1. DOMAIN x = 1 .. Len(x) /\ DOMAIN y = 1 .. Len(y) /\ Len(x) \in Nat /\ Len(y) \in Nat
          /\ x[i] \in Calibrated!Ids
  OBVIOUS
<1> DEFINE X == {j \in DOMAIN x : x[j] = x[i]}
           Y == {j \in DOMAIN y : y[j] = x[i]}
<1>2. Cardinality(X) = Cardinality(Y)
  BY <1>1, CalibratedCardinality DEF Calibrated!sameStrings
<1>3. IsFiniteSet(X) /\ IsFiniteSet(Y) /\ X # {}
  <2>1. IsFiniteSet(DOMAIN x) /\ IsFiniteSet(DOMAIN y)
    BY <1>1, FS_Interval
  <2>2. X \subseteq DOMAIN x /\ Y \subseteq DOMAIN y /\ i \in X
    BY <1>1
  <2> QED BY <2>1, <2>2, FS_Subset
<1>4. Y # {}
  BY <1>2, <1>3, FS_EmptySet
<1> QED BY <1>1, <1>4

LEMMA CalibratedTargets == ASSUME Calibrated!Inv PROVE Calibrated!OnlyTargets
<1> SUFFICES ASSUME cal_accepted, NEW s \in CalVariants, NEW u \in CalVariants,
                        cal_pair[s] # Calibrated!NoPair, cal_pair[s] = cal_pair[u],
                    NEW t \in CalTests, t \notin cal_target[s]
             PROVE  Calibrated!Failing(cal_expected[s][t]) = Calibrated!Failing(cal_expected[u][t])
  BY DEF Calibrated!OnlyTargets
<1> DEFINE p == cal_pair[s]
<1>1. p \in Calibrated!pairs /\ s \in Calibrated!Members(p) /\ u \in Calibrated!Members(p)
  BY DEF Calibrated!Inv, Calibrated!Shape, Calibrated!pairs, Calibrated!Members
<1>2. PICK a, b \in CalVariants : Calibrated!Members(p) = {a, b} /\ cal_target[a] = cal_target[b]
               /\ Calibrated!OthersAgree(a, b)
  BY <1>1, CalibratedPairs
<1>3. t \in CalTests \ cal_target[a]
  BY <1>1, <1>2
<1>4. cal_expected[a][t].outcome = cal_expected[b][t].outcome
          /\ Calibrated!sameStrings(cal_expected[a][t].names, cal_expected[b][t].names)
  BY <1>2, <1>3 DEF Calibrated!OthersAgree
<1>5. Calibrated!sameStrings(cal_expected[b][t].names, cal_expected[a][t].names)
  BY <1>4, CalibratedCardinality DEF Calibrated!sameStrings
<1>6. cal_expected[a][t] \in Calibrated!Expectations /\ cal_expected[b][t] \in Calibrated!Expectations
  BY CalibratedExpect
<1>7. Calibrated!Named(cal_expected[a][t]) = Calibrated!Named(cal_expected[b][t])
  BY <1>4, <1>5, <1>6, CalibratedNames, CalibratedSame
<1>8. Calibrated!Failing(cal_expected[a][t]) = Calibrated!Failing(cal_expected[b][t])
  BY <1>4, <1>7 DEF Calibrated!Failing
<1> QED BY <1>1, <1>2, <1>8

LEMMA CalibratedFailures == ASSUME Calibrated!Inv PROVE Calibrated!Calibrated
<1> SUFFICES ASSUME cal_accepted, NEW t \in CalTests, NEW a \in Calibrated!Failing(cal_red[t])
             PROVE  \E c \in cal_controls :
                      /\ c.test = t /\ c.assertion = a /\ Calibrated!Safe(c.variant)
                      /\ cal_expected[c.variant][t].outcome = "pass"
                             /\ a \in Calibrated!Named(cal_expected[c.variant][t])
  BY DEF Calibrated!Calibrated
<1>1. cal_red[t].outcome = "assertion-fail" /\ a \in Calibrated!Named(cal_red[t])
  BY DEF Calibrated!Failing
<1>2. a \in Calibrated!Ids
  <2>1. cal_red[t] \in Calibrated!Expectations
    BY DEF Calibrated!Inv, Calibrated!Shape
  <2>2. PICK i \in 1 .. Len(cal_red[t].names) : a = cal_red[t].names[i]
    BY <1>1, <2>1, CalibratedNames
  <2> QED BY <2>1, <2>2, CalibratedNames
<1>3. <<t, a>> \in Calibrated!fails
  BY <1>1, <1>2 DEF Calibrated!fails
<1>4. Cardinality(Calibrated!For(<<t, a>>)) = 1
  BY <1>3, CalibratedCardinality DEF Calibrated!Inv, Calibrated!ManifestHolds, Calibrated!ControlsBijective
<1>5. PICK c \in Calibrated!For(<<t, a>>) : TRUE
  BY <1>4, FS_EmptySet
<1>6. c \in cal_controls /\ c.test = t /\ c.assertion = a
  BY <1>5 DEF Calibrated!For
<1>7. Calibrated!passOK(c)
  BY <1>6, CalibratedCardinality DEF Calibrated!Inv, Calibrated!ManifestHolds, Calibrated!ControlsBijective
<1> QED BY <1>6, <1>7 DEF Calibrated!passOK

LEMMA CalibratedWhole == ASSUME Calibrated!Inv PROVE Calibrated!PassesWhole
<1> SUFFICES ASSUME cal_accepted, NEW v \in CalVariants, NEW t \in CalTests,
                        cal_expected[v][t].outcome = "pass",
                    ~Calibrated!Repeats(cal_expected[v][t])
             PROVE  Calibrated!Named(cal_expected[v][t]) = CalAsserts[t]
  BY DEF Calibrated!PassesWhole
<1> DEFINE e == cal_expected[v][t]
<1>1. e \in Calibrated!Expectations /\ Calibrated!checkExp(t, e)
  BY CalibratedExpect
<1>2. Calibrated!Named(e) \subseteq CalAsserts[t] /\ Len(e.names) = Cardinality(CalAsserts[t])
  BY <1>1, CalibratedCardinality DEF Calibrated!checkExp
<1>3. IsFiniteSet(CalAsserts[t]) /\ Cardinality(CalAsserts[t]) \in Nat
          /\ Cardinality(Calibrated!Named(e)) \in Nat
  BY <1>1, CalibrationAssumption, CalibratedNames, FS_CardinalityType, CalibratedFinite DEF
       Calibrated!WellFormed
<1>4. ~(Cardinality(Calibrated!Named(e)) < Len(e.names))
  BY CalibratedCardinality DEF Calibrated!Repeats
<1>5. Cardinality(Calibrated!Named(e)) <= Cardinality(CalAsserts[t])
          /\ (Cardinality(Calibrated!Named(e)) = Cardinality(CalAsserts[t])
          => Calibrated!Named(e) = CalAsserts[t])
  BY <1>2, <1>3, FS_Subset
<1> HIDE DEF e
<1>6. Cardinality(Calibrated!Named(e)) = Cardinality(CalAsserts[t])
  BY <1>2, <1>3, <1>4, <1>5
<1> QED BY <1>5, <1>6 DEF e

----------------------------------------------------------------------------
Plans == INSTANCE Milestones WITH Files <- PlanFiles, Prefix <- PlanPrefix, Rows <- PlanRows, Desks
  <- PlanDesks, MaxEdits <- PlanEdits, Elements0 <- PlanElements, History <- PlanHistory, Names <-
  PlanNames, desk <- mil_desk, plan <- mil_plan, edits <- mil_edits, cut <- mil_cut, elements <-
  mil_elements, accept <- mil_accept, git <- mil_git, run <- mil_run

(* Plans, packets and reviews.  First what a gate that finds nothing says of *)
(* the documents, then why what it found is still true when it is read.      *)

ASSUME PlansAssumption == Plans!WellFormed

LEMMA PlansFinite == \A S : Plans!IsFiniteSet(S) <=> IsFiniteSet(S)
BY DEF Plans!IsFiniteSet, IsFiniteSet

LEMMA PlansCardinality == \A S : Plans!Cardinality(S) = Cardinality(S)
BY DEF Plans!Cardinality, Cardinality

LEMMA PlanSequence == ASSUME NEW S, NEW s \in Seq(S) PROVE Plans!Sequential(s)
BY DEF Plans!Sequential

LEMMA PlanIsSeq == ASSUME NEW s, Plans!Sequential(s) PROVE s \in Seq({s[i] : i \in 1 .. Len(s)})
    /\ DOMAIN s = 1 .. Len(s)
<1> DEFINE S == {s[i] : i \in 1 .. Len(s)}
<1>1. s \in [1 .. Len(s) -> S] /\ Len(s) \in Nat
  BY DEF Plans!Sequential
<1> QED BY <1>1

LEMMA PlanBlockEdited ==
  ASSUME NEW b, Plans!BlockShaped(b), NEW e, e[1] = "links" => Plans!Sequential(e[2])
  PROVE  Plans!BlockShaped(Plans!Put(b, e))
BY DEF Plans!BlockShaped, Plans!Put

LEMMA PlanBlocksEdited ==
  ASSUME NEW p, Plans!PlanShaped(p), NEW s, Plans!Sequential(s), Len(s) > 0, \A i \in 1 .. Len(s) :
             Plans!BlockShaped(s[i])
  PROVE  Plans!PlanShaped(Plans!Put(p, <<"blocks", s>>))
BY DEF Plans!PlanShaped, Plans!Put

LEMMA PlanRestEdited ==
  ASSUME NEW p, Plans!PlanShaped(p), NEW e, e[1] \notin {"blocks", "rows"}
  PROVE  Plans!PlanShaped(Plans!Put(p, e))
BY DEF Plans!PlanShaped, Plans!Put

LEMMA PlanAuthored ==
  ASSUME Plans!PlanShaped(mil_plan), Plans!DeskShaped(mil_desk), Plans!Author
  PROVE  Plans!PlanShaped(mil_plan')
<1>0. /\ Plans!Sequential(mil_plan.blocks) /\ Len(mil_plan.blocks) > 0
      /\ \A i \in 1 .. Len(mil_plan.blocks) : Plans!BlockShaped(mil_plan.blocks[i])
      /\ DOMAIN mil_plan.blocks = 1 .. Len(mil_plan.blocks)
  BY PlanIsSeq DEF Plans!PlanShaped
<1> DEFINE s == mil_plan.blocks
           S == {s[i] : i \in 1 .. Len(s)}
<1>1. s \in Seq(S) /\ Len(s) \in Nat \ {0}
  BY <1>0, PlanIsSeq
<1>2. ASSUME NEW n \in Plans!EditedBlocks PROVE Plans!PlanShaped(Plans!Put(mil_plan, <<"blocks", n>>))
  <2> SUFFICES Plans!Sequential(n) /\ Len(n) > 0 /\ \A j \in 1 .. Len(n) : Plans!BlockShaped(n[j])
    BY PlanBlocksEdited
  <2>1. ASSUME NEW i \in DOMAIN mil_plan.blocks, NEW e \in mil_desk.block,
                   n = [mil_plan.blocks EXCEPT ![i] = Plans!Put(@, e)]
        PROVE  Plans!Sequential(n) /\ Len(n) > 0 /\ \A j \in 1 .. Len(n) : Plans!BlockShaped(n[j])
    <3> DEFINE b == Plans!Put(s[i], e)
    <3>1. Plans!BlockShaped(b)
      BY <1>0, PlanBlockEdited DEF Plans!DeskShaped
    <3>2. n \in Seq(S \cup {b}) /\ Len(n) = Len(s) /\ \A j \in 1 .. Len(s) : n[j] = IF j = i THEN b
              ELSE s[j]
      BY <1>0, <1>1, <2>1
    <3> QED BY <1>0, <1>1, <3>1, <3>2, PlanSequence
  <2>2. ASSUME n = Append(s, s[1])
        PROVE  Plans!Sequential(n) /\ Len(n) > 0 /\ \A j \in 1 .. Len(n) : Plans!BlockShaped(n[j])
    <3>1. n \in Seq(S) /\ Len(n) = Len(s) + 1 /\ \A j \in 1 .. Len(n) : n[j] = IF j <= Len(s) THEN s[j]
              ELSE s[1]
      BY <1>1, <2>2
    <3> QED BY <1>0, <1>1, <3>1, PlanSequence
  <2>3. ASSUME n = IF Len(s) > 1 THEN Tail(s) ELSE s
        PROVE  Plans!Sequential(n) /\ Len(n) > 0 /\ \A j \in 1 .. Len(n) : Plans!BlockShaped(n[j])
    <3>1. CASE Len(s) > 1
      <4>1. n \in Seq(S) /\ Len(n) = Len(s) - 1 /\ \A j \in 1 .. Len(s) - 1 : n[j] = s[j + 1]
        BY <1>1, <2>3, <3>1
      <4>2. \A j \in 1 .. Len(s) - 1 : j + 1 \in 1 .. Len(s)
        BY <1>1
      <4> QED BY <1>0, <1>1, <3>1, <4>1, <4>2, PlanSequence
    <3>2. CASE ~(Len(s) > 1)
      BY <1>0, <2>3, <3>2
    <3> QED BY <3>1, <3>2
  <2> QED BY <2>1, <2>2, <2>3 DEF Plans!EditedBlocks
<1>3. ASSUME NEW n \in Plans!EditedRows PROVE Plans!PlanShaped(Plans!Put(mil_plan, <<"rows", n>>))
  BY DEF Plans!EditedRows, Plans!PlanShaped, Plans!Put
<1>4. ASSUME NEW n PROVE Plans!PlanShaped(Plans!Put(mil_plan, <<"file", n>>))
  BY PlanRestEdited
<1>5. ASSUME NEW e \in mil_desk.rest PROVE Plans!PlanShaped(Plans!Put(mil_plan, e))
  BY PlanRestEdited DEF Plans!DeskShaped
<1> QED BY <1>2, <1>3, <1>4, <1>5 DEF Plans!Author, Plans!Edited

LEMMA TwoOf == ASSUME NEW S, IsFiniteSet(S), NEW x \in S, NEW y \in S, x # y PROVE Cardinality(S) > 1
<1>1. IsFiniteSet({x}) /\ Cardinality({x}) = 1
  BY FS_Singleton
<1>2. IsFiniteSet({x} \cup {y}) /\ Cardinality({x} \cup {y}) = 2
  <2>1. y \notin {x}
    OBVIOUS
  <2>2. /\ IsFiniteSet({x} \cup {y})
        /\ Cardinality({x} \cup {y}) = IF y \in {x} THEN Cardinality({x}) ELSE Cardinality({x}) + 1
    BY <1>1, FS_AddElement, Zenon
  <2> QED BY <1>1, <2>1, <2>2
<1>3. {x} \cup {y} \subseteq S
  BY Zenon
<1>4. Cardinality({x} \cup {y}) <= Cardinality(S) /\ Cardinality(S) \in Nat
  BY <1>2, <1>3, FS_Subset, FS_CardinalityType
<1> QED BY <1>2, <1>4

LEMMA PlanDomains == ASSUME NEW s, Plans!Sequential(s) PROVE IsFiniteSet(DOMAIN s) /\ DOMAIN s \subseteq Nat
<1>1. DOMAIN s = 1 .. Len(s) /\ Len(s) \in Nat
  BY PlanIsSeq DEF Plans!Sequential
<1> QED BY <1>1, FS_Interval

LEMMA PlanOnce ==
  ASSUME NEW s, IsFiniteSet(DOMAIN s), Plans!Repeats(s) = {}, NEW i \in DOMAIN s, NEW j \in DOMAIN s,
             s[i] = s[j]
  PROVE  i = j
<1> SUFFICES ASSUME i # j PROVE FALSE
  OBVIOUS
<1> DEFINE P == Plans!Positions(s, s[i])
<1>1. P \subseteq DOMAIN s /\ i \in P /\ j \in P
  BY DEF Plans!Positions
<1>2. IsFiniteSet(P)
  BY <1>1, FS_Subset
<1>3. Cardinality(P) > 1
  BY <1>1, <1>2, TwoOf
<1> QED BY <1>3, PlansCardinality DEF Plans!Repeats, Plans!Elements

LEMMA PlanSection == ASSUME Plans!PlanShaped(mil_plan)
  PROVE  /\ Plans!planMilestonesOf = mil_plan.blocks \/ Plans!planMilestonesOf = <<>>
         /\ IsFiniteSet(DOMAIN Plans!planMilestonesOf) /\ DOMAIN Plans!planMilestonesOf \subseteq Nat
         /\ \A i \in DOMAIN Plans!planMilestonesOf : Plans!BlockShaped(Plans!planMilestonesOf[i])
         /\ Plans!planMilestonesOf # <<>> => mil_plan.sections > 0 /\ mil_plan.opening = "plan"
                /\ Plans!planMilestonesOf = mil_plan.blocks
<1>1. Plans!Sequential(mil_plan.blocks) /\ DOMAIN mil_plan.blocks = 1 .. Len(mil_plan.blocks)
  BY PlanIsSeq DEF Plans!PlanShaped
<1>2. \A i \in DOMAIN mil_plan.blocks : Plans!BlockShaped(mil_plan.blocks[i])
  BY <1>1 DEF Plans!PlanShaped
<1>3. DOMAIN <<>> = {} /\ IsFiniteSet({})
  BY FS_EmptySet
<1>4. Plans!planMilestonesOf = mil_plan.blocks \/ Plans!planMilestonesOf = <<>>
  BY DEF Plans!planMilestonesOf
<1>5. Plans!planMilestonesOf # <<>> => mil_plan.sections > 0 /\ mil_plan.opening = "plan"
          /\ Plans!planMilestonesOf = mil_plan.blocks
  BY DEF Plans!planMilestonesOf, Plans!buildPlanSection
<1>6. IsFiniteSet(DOMAIN Plans!planMilestonesOf) /\ DOMAIN Plans!planMilestonesOf \subseteq Nat
  BY <1>1, <1>3, <1>4, PlanDomains
<1> QED BY <1>2, <1>3, <1>4, <1>5, <1>6

LEMMA PlanFirst ==
  ASSUME NEW ms, DOMAIN ms \subseteq Nat, NEW i \in DOMAIN ms, \A j \in DOMAIN ms : ms[j].num = ms[i].num
             => j = i
  PROVE  Plans!First(ms, ms[i].num) = ms[i]
<1>1. {j \in DOMAIN ms : ms[j].num = ms[i].num} = {i} /\ i \in Nat
  OBVIOUS
<1>2. (CHOOSE k \in {i} : \A j \in {i} : k <= j) = i
  BY <1>1
<1> QED BY <1>1, <1>2 DEF Plans!First

LEMMA PlanStructured ==
  ASSUME Plans!PlanShaped(mil_plan), Plans!CheckBuildPlan = {}, ~Plans!parentManifest
  PROVE  LET ms == Plans!planMilestonesOf
         IN /\ \A i, j \in DOMAIN ms : ms[i].num = ms[j].num => i = j
            /\ \A i \in DOMAIN ms : ms[i].num \in Plans!Numbers /\ Plans!BlockOf(ms[i].num) = ms[i]
            /\ \A n \in Plans!Numbers : \E i \in DOMAIN ms : ms[i].num = n /\ Plans!BlockOf(n) = ms[i]
            /\ \A i \in DOMAIN ms : ms[i].status \in {"", "open", "closed"}
<1> DEFINE ms == Plans!planMilestonesOf
           nums == Plans!Map(ms, LAMBDA b : b.num)
<1>1. nums = [i \in DOMAIN ms |-> ms[i].num]
  BY DEF Plans!Map
<1>2. CASE ms = <<>>
  <2>1. DOMAIN ms = {} /\ DOMAIN nums = {}
    BY <1>1, <1>2
  <2>2. Plans!Numbers = {}
    BY <2>1 DEF Plans!Numbers, Plans!Elements
  <2> QED BY <2>1, <2>2
<1>3. CASE ms # <<>>
  <2>1. mil_plan.sections > 0 /\ mil_plan.opening = "plan"
    BY <1>3, PlanSection
  <2>2. Plans!checkPlanDoc = {}
    BY DEF Plans!CheckBuildPlan
  <2>3. mil_plan.sections = 1 /\ mil_plan.sections # 0
    <3>1. Plans!If(mil_plan.sections # 1, <<"plan sections", "BUILD.md">>) = {}
      BY <2>2, Zenon DEF Plans!checkPlanDoc
    <3>2. mil_plan.sections = 1
      BY <3>1, Zenon DEF Plans!If
    <3> HIDE DEF nums, ms
    <3> QED BY <3>2
  <2>4. Plans!Repeats(nums) = {} /\ \A b \in Plans!Elements(ms) : b.status \in {"", "open", "closed"}
    <3> DEFINE R == {<<"number", n>> : n \in Plans!Repeats(nums)}
               T == {<<"status", b.num>> :
                   b \in {x \in Plans!Elements(ms) : x.status \notin {"", "open", "closed"}}}
    <3>1. R \subseteq Plans!checkPlanDoc /\ T \subseteq Plans!checkPlanDoc
      BY <1>1, <2>1, <2>3, Zenon DEF Plans!checkPlanDoc
    <3>2. R = {} /\ T = {}
      BY <2>2, <3>1
    <3> HIDE DEF nums, ms
    <3> QED BY <3>2
  <2>5. IsFiniteSet(DOMAIN nums) /\ DOMAIN ms \subseteq Nat
    BY <1>1, PlanSection
  <2>6. \A i, j \in DOMAIN ms : ms[i].num = ms[j].num => i = j
    BY <1>1, <2>4, <2>5, PlanOnce
  <2>7. Plans!Numbers = {ms[i].num : i \in DOMAIN ms}
    BY <1>1 DEF Plans!Numbers, Plans!Elements
  <2>8. \A i \in DOMAIN ms : Plans!BlockOf(ms[i].num) = ms[i]
    BY <2>5, <2>6, PlanFirst DEF Plans!BlockOf
  <2> QED BY <2>4, <2>6, <2>7, <2>8 DEF Plans!Elements
<1> QED BY <1>2, <1>3

LEMMA PlanNotEmpty == ASSUME NEW s, Plans!Sequential(s), s # <<>> PROVE 1 \in DOMAIN s
<1>1. Len(s) # 0
  BY PlanIsSeq, EmptySeq
<1> QED BY <1>1, PlanIsSeq DEF Plans!Sequential

LEMMA PlanManifest ==
  ASSUME Plans!PlanShaped(mil_plan), Plans!CheckBuildPlan = {}, ~Plans!parentManifest,
             mil_plan.mode = "manifest"
  PROVE  /\ Plans!manifestLinkageMode = "matrix" => Plans!checkMatrixShards(Plans!planMilestonesOf) = {}
         /\ Plans!manifestLinkageMode # "matrix" => Plans!checkPairwisePackets(Plans!planMilestonesOf) = {}
<1>1. Plans!checkManifestFiles = {}
  BY Zenon DEF Plans!CheckBuildPlan
<1>2. Plans!If(mil_plan.sections = 0 \/ mil_plan.opening # "plan", <<"manifest plan", "BUILD.md">>) = {}
  BY <1>1, Zenon DEF Plans!checkManifestFiles
<1>3. ~(mil_plan.sections = 0 \/ mil_plan.opening # "plan")
  BY <1>2, Zenon DEF Plans!If
<1>4. Plans!checkPlanDoc = {}
  BY Zenon DEF Plans!CheckBuildPlan
<1>5. Plans!If(Plans!planMilestonesOf = <<>>, <<"no milestone", "BUILD.md">>) = {}
  BY <1>3, <1>4, Zenon DEF Plans!checkPlanDoc
<1>6. Plans!planMilestonesOf # <<>>
  BY <1>5, Zenon DEF Plans!If
<1> QED BY <1>1, <1>6, Zenon DEF Plans!checkManifestFiles

\* In a matrix the links of the blocks are the declarations of the shards.
LEMMA PlanMatrix ==
  ASSUME Plans!PlanShaped(mil_plan), Plans!checkMatrixShards(Plans!planMilestonesOf) = {}
  PROVE  LET ms == Plans!planMilestonesOf
         IN /\ \A i \in DOMAIN ms : ms[i].links # <<>>
             /\ Plans!Elements(ms[i].links) \subseteq Plans!Inventory
            /\ \A f \in Plans!Inventory :
                   LET linked == {ms[i].num : i \in {j \in DOMAIN ms : f \in Plans!Elements(ms[j].links)}}
                                    IN /\ linked # {} /\ Len(mil_plan.file[f].declares) = 1
                                       /\ linked = Plans!Elements(mil_plan.file[f].declares[1])
<1> DEFINE ms == Plans!planMilestonesOf
           links(b) == {p \in Plans!Elements(b.links) : Plans!portablePacketPath(p)}
           linked(f) == {b.num : b \in {x \in Plans!Elements(ms) : f \in links(x)}}
           A == {<<"shard links", b.num>> : b \in {x \in Plans!Elements(ms) : x.links = <<>>}}
           B == {<<"shard path", b.num>> :
               b \in {x \in Plans!Elements(ms) : Plans!Elements(x.links) \ PlanFiles # {}}}
           C == {<<"shard missing", f>> : f \in {g \in PlanFiles \ Plans!Inventory : linked(g) # {}}}
           D(f) == Plans!If(linked(f) = {}, <<"shard unlinked", f>>)
                   \cup Plans!ShardFindings(f, {b.num : b \in Plans!Elements(ms)})
                   \cup Plans!If(linked(f) # Plans!parseShardMilestones(f), <<"shard reciprocal", f>>)
           E == UNION {D(f) : f \in Plans!Inventory}
<1>1. A \subseteq Plans!checkMatrixShards(ms) /\ B \subseteq Plans!checkMatrixShards(ms)
          /\ C \subseteq Plans!checkMatrixShards(ms)
      /\ E \subseteq Plans!checkMatrixShards(ms)
  BY Zenon DEF Plans!checkMatrixShards
<1>2. A = {} /\ B = {} /\ C = {} /\ E = {}
  BY <1>1
<1>3. \A x \in Plans!Elements(ms) : x.links # <<>> /\ Plans!Elements(x.links) \subseteq PlanFiles
  <2>1. A = {} /\ B = {}
    BY <1>2
  <2> HIDE DEF ms
  <2>2. \A x \in Plans!Elements(ms) : x.links # <<>>
    BY <2>1
  <2>3. \A x \in Plans!Elements(ms) : Plans!Elements(x.links) \ PlanFiles = {}
    BY <2>1
  <2> QED BY <2>2, <2>3
<1>4. \A x \in Plans!Elements(ms) : links(x) = Plans!Elements(x.links)
  BY <1>3 DEF Plans!portablePacketPath
<1>5. \A f \in PlanFiles \ Plans!Inventory : linked(f) = {}
  <2>1. C = {}
    BY <1>2
  <2> HIDE DEF linked, Plans!Inventory
  <2> QED BY <2>1
<1>6. \A x \in Plans!Elements(ms) : Plans!Elements(x.links) \subseteq Plans!Inventory
  <2> SUFFICES ASSUME NEW x \in Plans!Elements(ms), NEW f \in Plans!Elements(x.links),
                          f \notin Plans!Inventory PROVE FALSE
    OBVIOUS
  <2>1. f \in PlanFiles \ Plans!Inventory
    BY <1>3
  <2>2. x.num \in linked(f)
    BY <1>4
  <2> QED BY <1>5, <2>1, <2>2
<1>7. ASSUME NEW f \in Plans!Inventory
      PROVE  linked(f) # {} /\ Len(mil_plan.file[f].declares) = 1
                 /\ linked(f) = Plans!Elements(mil_plan.file[f].declares[1])
  <2>1. D(f) = {}
    BY <1>2
  <2>2. Plans!If(linked(f) = {}, <<"shard unlinked", f>>) = {}
            /\ Plans!If(linked(f) # Plans!parseShardMilestones(f), <<"shard reciprocal", f>>) = {}
        /\ Plans!ShardFindings(f, {b.num : b \in Plans!Elements(ms)}) = {}
    BY <2>1, Zenon
  <2>3. linked(f) # {} /\ linked(f) = Plans!parseShardMilestones(f)
    BY <2>2, Zenon DEF Plans!If
  <2>4. Plans!Elements(<<>>) = {}
    BY DEF Plans!Elements
  <2> HIDE DEF linked
  <2>5. Len(mil_plan.file[f].declares) = 1
    BY <2>3, Zenon DEF Plans!parseShardMilestones
  <2> QED BY <2>3, <2>5, Zenon DEF Plans!parseShardMilestones
<1>8. ASSUME NEW f PROVE linked(f) = {ms[i].num :
                 i \in {j \in DOMAIN ms : f \in Plans!Elements(ms[j].links)}}
  BY <1>4 DEF Plans!Elements
<1> HIDE DEF linked, ms
<1> QED BY <1>3, <1>6, <1>7, <1>8 DEF Plans!Elements, ms

\* Pairwise, a block has one link and a file is linked by one block.
LEMMA PlanPairwise ==
  ASSUME Plans!PlanShaped(mil_plan), Plans!checkPairwisePackets(Plans!planMilestonesOf) = {},
         \A i, j \in DOMAIN Plans!planMilestonesOf :
             Plans!planMilestonesOf[i].num = Plans!planMilestonesOf[j].num => i = j
  PROVE  LET ms == Plans!planMilestonesOf
         IN /\ \A i \in DOMAIN ms : /\ Len(ms[i].links) = 1
             /\ Plans!Elements(ms[i].links) = {ms[i].links[1]}
                                    /\ ms[i].links[1] \in Plans!Inventory
                                           /\ PlanPrefix[ms[i].links[1]] = ms[i].num
            /\ \A f \in Plans!Inventory : \E i \in DOMAIN ms : ms[i].links[1] = f
                   /\ mil_plan.file[f].titles = <<ms[i].num>>
<1> DEFINE ms == Plans!planMilestonesOf
           one == {i \in DOMAIN ms : Len(ms[i].links) = 1}
           path(i) == ms[i].links[1]
           good == {i \in one : Plans!portablePacketPath(path(i))}
           refs(f) == {i \in good : path(i) = f}
           owner(f) == ms[CHOOSE i \in refs(f) : \A j \in refs(f) : j <= i].num
           A == {<<"packet links", ms[i].num>> : i \in DOMAIN ms \ one}
           B == {<<"packet path", ms[i].num>> : i \in one \ good}
           C == {<<"packet name", ms[i].num>> : i \in {j \in good : PlanPrefix[path(j)] # ms[j].num}}
           D == {<<"packet missing", f>> : f \in {g \in PlanFiles \ Plans!Inventory : refs(g) # {}}}
           E == {<<"packet unlinked", f>> : f \in {g \in Plans!Inventory : refs(g) = {}}}
           F(f) == Plans!If(mil_plan.file[f].size = "over", <<"packet size", f>>)
                   \cup Plans!If(mil_plan.file[f].plan, <<"packet plan", f>>)
                   \cup Plans!If(mil_plan.file[f].titles # <<owner(f)>>, <<"packet title", f>>)
                   \cup Plans!If(Plans!packetHeadingCounts(f) # "exact", <<"packet sections", f>>)
           G == UNION {F(f) : f \in {g \in Plans!Inventory : refs(g) # {}}}
<1>1. /\ A \subseteq Plans!checkPairwisePackets(ms) /\ B \subseteq Plans!checkPairwisePackets(ms)
      /\ C \subseteq Plans!checkPairwisePackets(ms) /\ D \subseteq Plans!checkPairwisePackets(ms)
      /\ E \subseteq Plans!checkPairwisePackets(ms) /\ G \subseteq Plans!checkPairwisePackets(ms)
  BY Zenon, PlansCardinality DEF Plans!checkPairwisePackets
<1>2. A = {} /\ B = {} /\ C = {} /\ D = {} /\ E = {} /\ G = {}
  BY <1>1
<1>11. (\A g \in PlanFiles \ Plans!Inventory : refs(g) = {}) /\ \A g \in Plans!Inventory : refs(g) # {}
  <2>1. D = {} /\ E = {}
    BY <1>2
  <2> HIDE DEF refs, Plans!Inventory
  <2> QED BY <2>1
<1>3. one = DOMAIN ms /\ good = DOMAIN ms
  <2>1. A = {} /\ B = {}
    BY <1>2
  <2> HIDE DEF one, good, ms
  <2>2. one = DOMAIN ms
    BY <2>1 DEF one
  <2> QED BY <2>1, <2>2 DEF good
<1>4. \A i \in DOMAIN ms : path(i) \in PlanFiles
  BY <1>3 DEF Plans!portablePacketPath
<1>5. \A i \in DOMAIN ms : PlanPrefix[path(i)] = ms[i].num
  <2>1. C = {}
    BY <1>2
  <2>2. \A i \in good : PlanPrefix[path(i)] = ms[i].num
    <3> HIDE DEF good, path, ms
    <3> QED BY <2>1
  <2> HIDE DEF good, path, ms
  <2> QED BY <1>3, <2>2
<1>6. \A i \in DOMAIN ms : path(i) \in Plans!Inventory
  <2> SUFFICES ASSUME NEW i \in DOMAIN ms, path(i) \notin Plans!Inventory PROVE FALSE
    OBVIOUS
  <2>1. refs(path(i)) # {}
    BY <1>3
  <2> QED BY <1>11, <1>4, <2>1
<1>7. ASSUME NEW i \in DOMAIN ms
      PROVE  Len(ms[i].links) = 1 /\ Plans!Elements(ms[i].links) = {ms[i].links[1]}
  <2>1. Len(ms[i].links) = 1
    BY <1>3
  <2>2. DOMAIN ms[i].links = 1 .. Len(ms[i].links)
    BY PlanSection, PlanIsSeq DEF Plans!BlockShaped
  <2>3. DOMAIN ms[i].links = {1}
    BY <2>1, <2>2
  <2> QED BY <2>1, <2>3 DEF Plans!Elements
<1>8. ASSUME NEW f \in Plans!Inventory
      PROVE  \E i \in DOMAIN ms : ms[i].links[1] = f /\ mil_plan.file[f].titles = <<ms[i].num>>
  <2>1. refs(f) # {}
    BY <1>11
  <2>2. PICK i \in DOMAIN ms : i \in refs(f)
    BY <1>3, <2>1
  <2>3. path(i) = f
    BY <2>2
  <2>4. \A j \in refs(f) : j = i
    <3> SUFFICES ASSUME NEW j \in refs(f) PROVE j = i
      OBVIOUS
    <3>1. j \in DOMAIN ms /\ path(j) = f
      OBVIOUS
    <3>2. ms[j].num = ms[i].num
      BY <1>5, <2>3, <3>1
    <3> QED BY <3>1, <3>2
  <2>5. refs(f) = {i} /\ i \in Nat
    <3>1. refs(f) = {i}
      BY <2>2, <2>4
    <3> QED BY <3>1, PlanSection
  <2>6. (CHOOSE k \in {i} : \A j \in {i} : j <= k) = i
    BY <2>5
  <2>7. owner(f) = ms[i].num
    <3> DEFINE top(S) == CHOOSE k \in S : \A j \in S : j <= k
    <3> HIDE DEF refs, ms
    <3>1. owner(f) = ms[top(refs(f))].num
      OBVIOUS
    <3>2. top({i}) = i
      BY <2>6
    <3> HIDE DEF top, owner
    <3> QED BY <2>5, <3>1, <3>2
  <2>8. F(f) = {}
    <3> HIDE DEF refs, ms, F
    <3>1. F(f) \subseteq G
      BY <2>1, Zenon
    <3> QED BY <1>2, <3>1
  <2> HIDE DEF owner
  <2>9. Plans!If(mil_plan.file[f].titles # <<owner(f)>>, <<"packet title", f>>) = {}
    BY <2>8, Zenon
  <2>10. mil_plan.file[f].titles = <<owner(f)>>
    BY <2>9, Zenon DEF Plans!If
  <2> QED BY <2>3, <2>7, <2>10
<1> HIDE DEF ms
<1> QED BY <1>5, <1>6, <1>7, <1>8 DEF ms

LEMMA PlanLinked == ASSUME Plans!PlanShaped(mil_plan) PROVE Plans!Linked
<1> SUFFICES ASSUME Plans!CheckBuildPlan = {}, mil_plan.mode = "manifest", ~Plans!parentManifest
                        PROVE Plans!Linked
  BY PlansCardinality DEF Plans!Linked
<1> DEFINE ms == Plans!planMilestonesOf
           rel == {e \in Plans!Numbers \X PlanFiles : e[2] \in Plans!Elements(Plans!BlockOf(e[1]).links)}
           Files1(n) == {f \in PlanFiles : <<n, f>> \in rel}
           Nums1(f) == {n \in Plans!Numbers : <<n, f>> \in rel}
<1>1. /\ \A i, j \in DOMAIN ms : ms[i].num = ms[j].num => i = j
      /\ \A i \in DOMAIN ms : ms[i].num \in Plans!Numbers /\ Plans!BlockOf(ms[i].num) = ms[i]
      /\ \A n \in Plans!Numbers : \E i \in DOMAIN ms : ms[i].num = n /\ Plans!BlockOf(n) = ms[i]
  BY PlanStructured
<1>2. Plans!Inventory \subseteq PlanFiles
  BY DEF Plans!Inventory
<1>3. \A n, f : <<n, f>> \in rel <=> n \in Plans!Numbers /\ f \in PlanFiles
          /\ f \in Plans!Elements(Plans!BlockOf(n).links)
  OBVIOUS
<1>4. \A i \in DOMAIN ms : Plans!Sequential(ms[i].links)
  BY PlanSection DEF Plans!BlockShaped
<1> HIDE DEF ms, rel
<1>5. CASE Plans!manifestLinkageMode = "matrix"
  <2>1. /\ \A i \in DOMAIN ms : ms[i].links # <<>> /\ Plans!Elements(ms[i].links) \subseteq Plans!Inventory
        /\ \A f \in Plans!Inventory : LET linked == {ms[i].num :
               i \in {j \in DOMAIN ms : f \in Plans!Elements(ms[j].links)}}
                                IN /\ linked # {} /\ Len(mil_plan.file[f].declares) = 1
                                   /\ linked = Plans!Elements(mil_plan.file[f].declares[1])
    BY <1>5, PlanManifest, PlanMatrix DEF ms
  <2>2. ASSUME NEW n \in Plans!Numbers PROVE Files1(n) # {} /\ Files1(n) \subseteq Plans!Inventory
    <3>1. PICK i \in DOMAIN ms : ms[i].num = n /\ Plans!BlockOf(n) = ms[i]
      BY <1>1
    <3>2. 1 \in DOMAIN ms[i].links
      BY <1>4, <2>1, PlanNotEmpty
    <3>3. ms[i].links[1] \in Plans!Elements(ms[i].links)
      BY <3>2 DEF Plans!Elements
    <3> QED BY <1>2, <1>3, <2>1, <3>1, <3>3
  <2>3. ASSUME NEW f \in Plans!Inventory
        PROVE  Nums1(f) # {} /\ mil_plan.file[f].declares # <<>>
                   /\ Nums1(f) = Plans!Elements(mil_plan.file[f].declares[1])
    <3> DEFINE linked == {ms[i].num : i \in {j \in DOMAIN ms : f \in Plans!Elements(ms[j].links)}}
    <3>1. linked # {} /\ Len(mil_plan.file[f].declares) = 1
              /\ linked = Plans!Elements(mil_plan.file[f].declares[1])
      BY <2>1
    <3>2. Nums1(f) \subseteq linked
      BY <1>1, <1>3
    <3>3. linked \subseteq Nums1(f)
      BY <1>1, <1>2, <1>3
    <3>4. mil_plan.file[f].declares # <<>>
      BY <3>1
    <3> HIDE DEF linked
    <3> QED BY <3>1, <3>2, <3>3, <3>4
  <2> HIDE DEF Files1, Nums1
  <2> QED BY <1>5, <2>2, <2>3, PlansCardinality DEF Plans!Linked, Files1, Nums1, rel
<1>6. CASE Plans!manifestLinkageMode # "matrix"
  <2>1. /\ \A i \in DOMAIN ms : /\ Len(ms[i].links) = 1 /\ Plans!Elements(ms[i].links) = {ms[i].links[1]}
                                /\ ms[i].links[1] \in Plans!Inventory
                                       /\ PlanPrefix[ms[i].links[1]] = ms[i].num
        /\ \A f \in Plans!Inventory : \E i \in DOMAIN ms : ms[i].links[1] = f
               /\ mil_plan.file[f].titles = <<ms[i].num>>
    BY <1>1, <1>6, PlanManifest, PlanPairwise DEF ms
  <2>2. ASSUME NEW n \in Plans!Numbers
        PROVE  Files1(n) # {} /\ Files1(n) \subseteq Plans!Inventory /\ Cardinality(Files1(n)) = 1
    <3>1. PICK i \in DOMAIN ms : ms[i].num = n /\ Plans!BlockOf(n) = ms[i]
      BY <1>1
    <3>2. Files1(n) = {ms[i].links[1]}
      BY <1>2, <1>3, <2>1, <3>1
    <3> QED BY <2>1, <3>2, FS_Singleton
  <2>3. ASSUME NEW f \in Plans!Inventory
        PROVE  Nums1(f) # {} /\ Cardinality(Nums1(f)) = 1 /\ mil_plan.file[f].titles[1] \in Nums1(f)
    <3>1. PICK i \in DOMAIN ms : ms[i].links[1] = f /\ mil_plan.file[f].titles = <<ms[i].num>>
      BY <2>1
    <3>2. ms[i].num \in Nums1(f)
      BY <1>1, <1>2, <1>3, <2>1, <3>1
    <3>3. ASSUME NEW n \in Nums1(f) PROVE n = ms[i].num
      <4>1. PICK j \in DOMAIN ms : ms[j].num = n /\ Plans!BlockOf(n) = ms[j]
        BY <1>1
      <4>2. ms[j].links[1] = f
        BY <1>3, <2>1, <4>1
      <4> QED BY <2>1, <3>1, <4>1, <4>2
    <3>4. Nums1(f) = {ms[i].num}
      BY <3>2, <3>3
    <3>5. mil_plan.file[f].titles[1] = ms[i].num
      BY <3>1
    <3> QED BY <3>4, <3>5, FS_Singleton
  <2> HIDE DEF Files1, Nums1
  <2> QED BY <1>6, <2>2, <2>3, PlansCardinality DEF Plans!Linked, Files1, Nums1, rel
<1> QED BY <1>5, <1>6

\* The texts that an executor is given are the ones that the gates read.
LEMMA PlanTexts ==
  ASSUME Plans!PlanShaped(mil_plan), Plans!CheckBuildPlan = {}, ~Plans!parentManifest,
             NEW i \in DOMAIN Plans!planMilestonesOf,
         NEW text \in Plans!Given(Plans!planMilestonesOf[i])
  PROVE  \E d \in Plans!milestoneThreatDocs(Plans!planMilestonesOf[i]) : d.text = text
<1> DEFINE b == Plans!planMilestonesOf[i]
<1>1. CASE mil_plan.mode # "manifest"
  BY <1>1 DEF Plans!Given, Plans!milestoneThreatDocs
<1>2. CASE mil_plan.mode = "manifest"
  <2>1. PICK f \in Plans!Elements(b.links) : text = Plans!FileText(f)
    BY <1>2 DEF Plans!Given
  <2>2. Plans!Inventory \subseteq PlanFiles
    BY DEF Plans!Inventory
  <2>3. Plans!Elements(b.links) \subseteq PlanFiles
            /\ (Plans!manifestLinkageMode # "matrix" => Len(b.links) = 1)
    <3>1. CASE Plans!manifestLinkageMode = "matrix"
      BY <1>2, <2>2, <3>1, PlanManifest, PlanMatrix
    <3>2. CASE Plans!manifestLinkageMode # "matrix"
      <4>1. \A j, k \in DOMAIN Plans!planMilestonesOf :
                Plans!planMilestonesOf[j].num = Plans!planMilestonesOf[k].num => j = k
        BY PlanStructured
      <4> QED BY <1>2, <2>2, <3>2, <4>1, PlanManifest, PlanPairwise
    <3> QED BY <3>1, <3>2
  <2> HIDE DEF b
  <2>4. Plans!milestoneThreatDocs(b) = {[label |-> g, text |-> Plans!FileText(g)] :
            g \in {p \in Plans!Elements(b.links) : Plans!portablePacketPath(p)}}
    BY <1>2, <2>3, Zenon DEF Plans!milestoneThreatDocs
  <2>5. [label |-> f, text |-> Plans!FileText(f)] \in Plans!milestoneThreatDocs(b)
    BY <2>1, <2>3, <2>4 DEF Plans!portablePacketPath
  <2> QED BY <2>1, <2>5 DEF b
<1> QED BY <1>1, <1>2

\* A row whose subject or invariant a text names is a row that the text owes.
LEMMA PlanOwes ==
  ASSUME Plans!Enforced, NEW text, NEW r \in mil_plan.threats.rows, r.kind # "n/a",
             {r.subject, r.invariant} \cap text.names # {}
  PROVE  /\ r.subject \in Plans!named(text) /\ r \in Plans!OwedRows(text)
         /\ Plans!loadThreatScope.enforce = TRUE /\ Plans!loadThreatScope.ledger = TRUE
                /\ Plans!loadThreatScope.rows = mil_plan.threats.rows
<1>1. Plans!loadThreatScope = [ledger |-> TRUE, enforce |-> mil_plan.threats.enforce,
          rows |-> mil_plan.threats.rows,
                         names |-> {x.subject : x \in mil_plan.threats.rows}]
  BY DEF Plans!Enforced, Plans!loadThreatScope
<1>2. Plans!loadThreatScope.rows = mil_plan.threats.rows
          /\ Plans!loadThreatScope.names = {x.subject : x \in mil_plan.threats.rows}
      /\ Plans!loadThreatScope.enforce = mil_plan.threats.enforce /\ Plans!loadThreatScope.ledger = TRUE
  BY <1>1
<1>3. r.subject \in Plans!named(text)
  BY <1>2 DEF Plans!named, Plans!subjectTokenIn
<1> QED BY <1>2, <1>3 DEF Plans!OwedRows, Plans!Enforced

LEMMA PlanAnswers == ASSUME Plans!PlanShaped(mil_plan) PROVE Plans!ThreatsAnswered
<1> SUFFICES ASSUME Plans!CheckBuildPlan = {}, ~Plans!parentManifest, Plans!Enforced,
                    NEW b \in Plans!Elements(Plans!planMilestonesOf), b.status # "closed",
                    NEW text \in Plans!Given(b), NEW r \in mil_plan.threats.rows,
                    r.kind # "n/a" /\ {r.subject, r.invariant} \cap text.names # {}
             PROVE  /\ Plans!Covered(text, r)
                    /\ \A i \in Plans!Positions(text.criteria, "accept") : text.criteria[i + 1] = "refuse"
                    /\ "accept" \in Plans!Elements(text.criteria)
  BY DEF Plans!ThreatsAnswered
<1> DEFINE ms == Plans!planMilestonesOf
           open == {i \in DOMAIN ms : ms[i].status \in {"", "open"}}
           first == {i \in open : mil_plan.mode = "manifest" \/ ~\E j \in open : j < i
               /\ ms[j].num = ms[i].num}
           docs == UNION {Plans!milestoneThreatDocs(ms[i]) : i \in first}
           units == {d \in docs : Plans!named(d.text) # {}}
           found(d) == Plans!report(Plans!checkPairedCriteria(d) \cup Plans!checkPassWrongly(d))
               \cup Plans!checkThreatTable(d)
<1>1. PICK i \in DOMAIN ms : b = ms[i]
  BY DEF Plans!Elements
<1>2. (\A k, j \in DOMAIN ms : ms[k].num = ms[j].num => k = j) /\ ms[i].status \in {"", "open", "closed"}
          /\ DOMAIN ms \subseteq Nat
  BY PlanStructured, PlanSection
<1>3. i \in open
  BY <1>1, <1>2
<1>4. i \in first
  <2> SUFFICES ASSUME NEW j \in open, j < i, ms[j].num = ms[i].num PROVE FALSE
    BY <1>3
  <2>1. j = i /\ i \in Nat
    BY <1>2
  <2> HIDE DEF open, first, ms
  <2>2. i < i
    BY <2>1
  <2> QED BY <2>1, <2>2
<1>5. PICK d \in Plans!milestoneThreatDocs(ms[i]) : d.text = text
  BY <1>1, PlanTexts
<1>6. r.subject \in Plans!named(text) /\ r \in Plans!OwedRows(text) /\ Plans!loadThreatScope.enforce = TRUE
  BY PlanOwes
<1> HIDE DEF first, ms
<1>7. d \in units
  <2>1. d \in docs
    BY <1>4, <1>5, Zenon
  <2> QED BY <1>5, <1>6, <2>1
<1>8. found(d) = {}
  <2>1. Plans!checkThreatMilestones = {}
    BY Zenon DEF Plans!CheckBuildPlan
  <2>2. Plans!checkThreatMilestones = UNION {found(x) : x \in units}
    BY Zenon DEF Plans!checkThreatMilestones, ms, first
  <2> HIDE DEF units, found
  <2> QED BY <1>7, <2>1, <2>2
<1> HIDE DEF units, docs
<1>9. Plans!report(Plans!checkPairedCriteria(d) \cup Plans!checkPassWrongly(d)) = {}
          /\ Plans!checkThreatTable(d) = {}
  BY <1>8, Zenon
<1>10. \A X : Plans!report(X) = X
  BY <1>6, Zenon DEF Plans!report
<1>11. Plans!checkPairedCriteria(d) = {}
  BY <1>9, <1>10, Zenon
<1>12. Plans!Covered(text, r)
  <2> DEFINE rows == UNION d.text.tables
             R == Plans!If(rows = {}, <<"threat table", d.label>>)
             T == IF rows = {} THEN {} ELSE {<<"threat row", <<d.label, x.subject, x.adversary>>>>
                                             : x \in {y \in Plans!OwedRows(d.text) : ~\E t \in rows :
                                                 Plans!Answers(t, y)}}
  <2>1. Plans!report(R \cup T) = {}
    BY <1>9, Zenon DEF Plans!checkThreatTable
  <2>2. R = {} /\ T = {}
    <3> HIDE DEF R, T
    <3> QED BY <1>10, <2>1
  <2>3. rows # {}
    BY <2>2, Zenon DEF Plans!If
  <2>4. \A y \in Plans!OwedRows(d.text) : \E t \in rows : Plans!Answers(t, y)
    <3> HIDE DEF rows
    <3> QED BY <2>2, <2>3
  <2> QED BY <1>5, <1>6, <2>4 DEF Plans!Covered
<1>13. /\ \A k \in Plans!Positions(text.criteria, "accept") : text.criteria[k + 1] = "refuse"
       /\ "accept" \in Plans!Elements(text.criteria)
  <2> DEFINE c == text.criteria
             accepts == Plans!Positions(c, "accept")
             paired == {k \in accepts : k < Len(c) /\ c[k + 1] = "refuse"}
  <2>1. Plans!If(accepts # paired \/ accepts = {}, <<"criteria", d.label>>) = {}
    BY <1>5, <1>11, Zenon DEF Plans!checkPairedCriteria
  <2>2. accepts = paired /\ accepts # {}
    BY <2>1, Zenon DEF Plans!If
  <2> QED BY <2>2 DEF Plans!Positions, Plans!Elements
<1> QED BY <1>12, <1>13

\* What a projection without findings was held to.
LEMMA PacketsProjected ==
  ASSUME Plans!ProjectPackets = {}
  PROVE  /\ Plans!IndexFindings = {}
         /\ \A i \in DOMAIN mil_cut :
              LET owed == Plans!milestoneObligations(Plans!RootBlock(mil_cut[i].num))
              IN Plans!claimLedger(mil_cut[i], owed) = {} /\ \A sl \in Plans!Elements(mil_cut[i].slices) :
                  Plans!projectSlice(mil_cut[i], sl, owed) = {}
<1> DEFINE all == UNION {Plans!MilestoneFindings(mil_cut[i]) : i \in DOMAIN mil_cut}
<1>1. Plans!IndexFindings \cup all = {}
  <2>1. Plans!loadSliceMap = {}
    BY Zenon DEF Plans!ProjectPackets
  <2>2. Plans!planBlocksOf # <<>>
    BY <2>1, Zenon DEF Plans!ProjectPackets
  <2> QED BY <2>1, <2>2, Zenon DEF Plans!ProjectPackets
<1>2. ASSUME NEW i \in DOMAIN mil_cut PROVE Plans!MilestoneFindings(mil_cut[i]) = {}
  <2>1. Plans!MilestoneFindings(mil_cut[i]) \subseteq all
    BY Zenon
  <2> QED BY <1>1, <2>1, Zenon
<1>3. ASSUME NEW i \in DOMAIN mil_cut
      PROVE  LET owed == Plans!milestoneObligations(Plans!RootBlock(mil_cut[i].num))
             IN Plans!claimLedger(mil_cut[i], owed) = {} /\ \A sl \in Plans!Elements(mil_cut[i].slices) :
                 Plans!projectSlice(mil_cut[i], sl, owed) = {}
  <2> DEFINE owed == Plans!milestoneObligations(Plans!RootBlock(mil_cut[i].num))
             rest == UNION {Plans!projectSlice(mil_cut[i], sl, owed) :
                 sl \in Plans!Elements(mil_cut[i].slices)}
  <2>1. mil_cut[i].num \in Plans!Declared
    BY <1>2, Zenon DEF Plans!MilestoneFindings
  <2>2. Plans!claimLedger(mil_cut[i], owed) \cup rest = {}
    BY <1>2, <2>1, Zenon DEF Plans!MilestoneFindings
  <2>3. \A sl \in Plans!Elements(mil_cut[i].slices) :
            Plans!projectSlice(mil_cut[i], sl, owed) \subseteq rest
    BY Zenon
  <2> QED BY <2>2, <2>3, Zenon
<1> QED BY <1>1, <1>3, Zenon

LEMMA PacketsOneRow ==
  ASSUME IsFiniteSet(mil_plan.rows), Plans!IndexFindings = {}, NEW r \in Plans!Indexed,
             NEW q \in Plans!Indexed, r.stable = q.stable
  PROVE  r = q
<1> SUFFICES ASSUME r # q PROVE FALSE
  OBVIOUS
<1> DEFINE S == Plans!oracleByID(r.stable)
<1>1. r \in S /\ q \in S /\ S \subseteq mil_plan.rows
  BY DEF Plans!oracleByID, Plans!Indexed
<1>2. IsFiniteSet(S)
  BY <1>1, FS_Subset
<1> HIDE DEF S
<1>3. Cardinality(S) > 1
  BY <1>1, <1>2, TwoOf
<1>4. r.stable \in UNION {{x.test, x.stable} : x \in Plans!Indexed}
  OBVIOUS
<1>5. <<"ambiguous id", r.stable>> \in Plans!IndexFindings
  BY <1>3, <1>4, PlansCardinality DEF Plans!IndexFindings, S
<1> QED BY <1>5

LEMMA PacketsIndexed == ASSUME NEW c PROVE Plans!RowsOf(c) \subseteq Plans!Indexed
BY DEF Plans!RowsOf, Plans!oracleByID

LEMMA PacketsLedger ==
  ASSUME NEW ms, NEW owed, Plans!claimLedger(ms, owed) = {}, NEW id \in owed
  PROVE  LET by == {i \in DOMAIN ms.slices : id \in Plans!claimedRows(ms.slices[i])}
             waives(w) == {r.stable : r \in Plans!oracleByID(w)}
         IN /\ ~(Cardinality(by) > 1)
            /\ Cardinality(by) = 1 => \A w \in Plans!Elements(ms.waivers) : id \notin waives(w)
            /\ by = {} => \E w \in Plans!Elements(ms.waivers) : id \in waives(w)
            /\ \A w \in Plans!Elements(ms.waivers) : waives(w) # {}
<1> DEFINE by(x) == {i \in DOMAIN ms.slices : x \in Plans!claimedRows(ms.slices[i])}
           waives(w) == {r.stable : r \in Plans!oracleByID(w)}
           waived == UNION {waives(ms.waivers[i]) : i \in DOMAIN ms.waivers}
           A == {<<"waiver", w>> : w \in {x \in Plans!Elements(ms.waivers) : waives(x) = {}
               \/ ~(waives(x) \subseteq owed)}}
           B == {<<"claimed twice", y>> : y \in {x \in owed : Cardinality(by(x)) > 1}}
           C == {<<"claimed and waived", y>> : y \in {x \in owed : Cardinality(by(x)) = 1 /\ x \in waived}}
           D == {<<"unclaimed", y>> : y \in {x \in owed : by(x) = {} /\ x \notin waived}}
<1>1. A \subseteq Plans!claimLedger(ms, owed) /\ B \subseteq Plans!claimLedger(ms, owed)
      /\ C \subseteq Plans!claimLedger(ms, owed) /\ D \subseteq Plans!claimLedger(ms, owed)
  BY Zenon, PlansCardinality DEF Plans!claimLedger
<1>2. A = {} /\ B = {} /\ C = {} /\ D = {}
  BY <1>1
<1> HIDE DEF by, waives, waived
<1>3. ~(Cardinality(by(id)) > 1) /\ ~(Cardinality(by(id)) = 1 /\ id \in waived)
          /\ ~(by(id) = {} /\ id \notin waived)
  BY <1>2
<1>4. \A w \in Plans!Elements(ms.waivers) : waives(w) # {}
  BY <1>2
<1>5. id \in waived <=> \E w \in Plans!Elements(ms.waivers) : id \in waives(w)
  BY DEF waived, Plans!Elements
<1> QED BY <1>3, <1>4, <1>5 DEF by, waives

LEMMA PacketsDrop ==
  ASSUME Plans!ProjectPackets = {}, IsFiniteSet(mil_plan.rows), \A i \in DOMAIN mil_cut :
             Plans!Sequential(mil_cut[i].slices),
         NEW i \in DOMAIN mil_cut, NEW r \in Plans!Owed(Plans!RootBlock(mil_cut[i].num))
  PROVE  LET with == {j \in DOMAIN mil_cut[i].slices :
             r \in Plans!Packet(mil_cut[i], mil_cut[i].slices[j]).rows}
         IN IF with = {} THEN \E w \in Plans!Elements(mil_cut[i].waivers) : w \in {r.test, r.stable}
            ELSE /\ Cardinality(with) = 1
                 /\ \A w \in Plans!Elements(mil_cut[i].waivers) : w \notin {r.test, r.stable}
<1> DEFINE ms == mil_cut[i]
           owed == Plans!milestoneObligations(Plans!RootBlock(ms.num))
           by == {j \in DOMAIN ms.slices : r.stable \in Plans!claimedRows(ms.slices[j])}
           with == {j \in DOMAIN ms.slices : r \in Plans!Packet(ms, ms.slices[j]).rows}
           waives(w) == {x.stable : x \in Plans!oracleByID(w)}
<1>1. r \in Plans!Indexed /\ r.stable \in owed
  BY DEF Plans!Owed, Plans!Indexed, Plans!milestoneObligations
<1>2. Plans!IndexFindings = {} /\ Plans!claimLedger(ms, owed) = {}
  BY PacketsProjected
<1>3. by = with
  <2> SUFFICES ASSUME NEW sl PROVE r.stable \in Plans!claimedRows(sl) <=> r \in Plans!Packet(ms, sl).rows
    OBVIOUS
  <2> DEFINE rows == UNION {Plans!RowsOf(c) : c \in Plans!Elements(sl.cites)}
  <2>1. rows \subseteq Plans!Indexed
    BY PacketsIndexed
  <2>2. Plans!claimedRows(sl) = {x.stable : x \in rows} /\ Plans!Packet(ms, sl).rows = rows
    BY DEF Plans!claimedRows, Plans!Packet
  <2> HIDE DEF rows
  <2>3. \A x \in rows : x.stable = r.stable => x = r
    BY <1>1, <1>2, <2>1, PacketsOneRow
  <2> QED BY <2>2, <2>3
<1>4. /\ ~(Cardinality(by) > 1)
      /\ Cardinality(by) = 1 => \A w \in Plans!Elements(ms.waivers) : r.stable \notin waives(w)
      /\ by = {} => \E w \in Plans!Elements(ms.waivers) : r.stable \in waives(w)
      /\ \A w \in Plans!Elements(ms.waivers) : waives(w) # {}
  <2> HIDE DEF ms, owed
  <2> QED BY <1>1, <1>2, PacketsLedger
<1>5. CASE with = {}
  <2>1. PICK w \in Plans!Elements(ms.waivers) : r.stable \in waives(w)
    BY <1>3, <1>4, <1>5
  <2>2. PICK x \in Plans!oracleByID(w) : x.stable = r.stable
    BY <2>1
  <2>3. x = r
    BY <1>1, <1>2, <2>2, PacketsOneRow DEF Plans!oracleByID
  <2>4. w \in {r.test, r.stable}
    BY <2>2, <2>3 DEF Plans!oracleByID
  <2> QED BY <1>5, <2>4
<1>6. CASE with # {}
  <2>1. IsFiniteSet(by)
    BY PlanDomains, FS_Subset
  <2>2. Cardinality(by) \in Nat /\ Cardinality(by) # 0
    BY <1>3, <1>6, <2>1, FS_CardinalityType, FS_EmptySet
  <2>3. Cardinality(by) = 1
    <3> HIDE DEF by
    <3> QED BY <1>4, <2>2
  <2>4. ASSUME NEW w \in Plans!Elements(ms.waivers), w \in {r.test, r.stable} PROVE FALSE
    <3>1. w # "-"
      BY <1>4 DEF Plans!oracleByID
    <3>2. r \in Plans!oracleByID(w)
      BY <1>1, <2>4, <3>1 DEF Plans!oracleByID
    <3>3. r.stable \in waives(w)
      BY <3>2
    <3> QED BY <1>4, <2>3, <3>3
  <2> HIDE DEF with, by
  <2>5. Cardinality(with) = 1 /\ \A w \in Plans!Elements(ms.waivers) : w \notin {r.test, r.stable}
    BY <1>3, <2>3, <2>4
  <2> QED BY <1>6, <2>5 DEF with
<1> QED BY <1>5, <1>6

LEMMA PacketsConfined ==
  ASSUME Plans!ProjectPackets = {}, DOMAIN mil_elements = DOMAIN PlanElements, NEW i \in DOMAIN mil_cut,
             NEW sl \in Plans!Elements(mil_cut[i].slices),
         NEW c \in Plans!Packet(mil_cut[i], sl).drawn, c.rel \in PlanFiles, c.kind # "file"
  PROVE  c.rel = sl.shard
<1>1. c \in Plans!Elements(sl.cites) /\ c.kind \notin {"id", "oracleset"}
  BY DEF Plans!Packet
<1> DEFINE owed == Plans!milestoneObligations(Plans!RootBlock(mil_cut[i].num))
           A == {<<"citation", x>> : x \in {y \in Plans!Elements(sl.cites) :
               ~Plans!resolve(sl, y, mil_cut[i].num)}}
<1>2. Plans!projectSlice(mil_cut[i], sl, owed) = {}
  BY PacketsProjected, Zenon
<1>3. A = {}
  BY <1>2, Zenon DEF Plans!projectSlice
<1>4. Plans!resolve(sl, c, mil_cut[i].num)
  BY <1>1, <1>3
<1>5. c \in DOMAIN mil_elements => c.kind \notin {"matrix", "boundary", "external", "rule", "invariant"}
  BY PlansAssumption, PlansFinite DEF Plans!WellFormed
<1>6. Plans!Occurs(c) >= 1 => c \in DOMAIN mil_elements
  BY DEF Plans!Occurs
<1>7. c.kind \notin {"matrix", "boundary", "external", "rule", "invariant"}
  BY <1>4, <1>5, <1>6 DEF Plans!resolve, Plans!contractItem, Plans!contractRule, Plans!invariantExcerpt
<1> QED BY <1>1, <1>4, <1>7 DEF Plans!resolve, Plans!shardBound

LEMMA PacketsShare == Plans!FixturesShared
<1> SUFFICES ASSUME NEW p \in Plans!Packets, NEW q \in Plans!Packets,
                        NEW f \in DOMAIN p.fixtures \cap DOMAIN q.fixtures
             PROVE  q.slice \in p.fixtures[f]
  BY DEF Plans!FixturesShared
<1> DEFINE of(x) == \E i \in DOMAIN mil_cut : \E sl \in Plans!Elements(mil_cut[i].slices) :
               x = Plans!Packet(mil_cut[i], sl)
<1>1. of(p) /\ of(q)
  BY DEF Plans!Packets
<1>2. PICK i \in DOMAIN mil_cut : \E sl \in Plans!Elements(mil_cut[i].slices) :
               p = Plans!Packet(mil_cut[i], sl)
  BY <1>1
<1>3. PICK sl \in Plans!Elements(mil_cut[i].slices) : p = Plans!Packet(mil_cut[i], sl)
  BY <1>2
<1>4. PICK j \in DOMAIN mil_cut : \E tl \in Plans!Elements(mil_cut[j].slices) :
               q = Plans!Packet(mil_cut[j], tl)
  BY <1>1
<1>5. PICK tl \in Plans!Elements(mil_cut[j].slices) : q = Plans!Packet(mil_cut[j], tl)
  BY <1>4
<1>6. p.fixtures[f] = Plans!fixtureConsumers(f)
  BY <1>3 DEF Plans!Packet
<1>7. f \in Plans!Elements(tl.fixtures) /\ q.slice = tl.id
  BY <1>5 DEF Plans!Packet
<1>8. tl.id \in Plans!fixtureConsumers(f)
  BY <1>4, <1>5, <1>7 DEF Plans!fixtureConsumers
<1> QED BY <1>6, <1>7, <1>8

\* A list without repetition that is as long as a set of its elements has all
\* of them.
LEMMA PacketsListAll ==
  ASSUME NEW O, IsFiniteSet(O), NEW ids \in [1 .. Cardinality(O) -> O], Plans!Repeats(ids) = {}
  PROVE  Plans!Elements(ids) = O
<1> DEFINE n == Cardinality(O)
<1>1. n \in Nat
  BY FS_CardinalityType
<1>2. IsFiniteSet(1 .. n) /\ Cardinality(1 .. n) = n
  <2>1. Cardinality(1 .. n) = IF 1 > n THEN 0 ELSE n - 1 + 1
    BY <1>1, FS_Interval
  <2> HIDE DEF n
  <2> QED BY <1>1, <2>1, FS_Interval
<1>3. \A i, j \in 1 .. n : ids[i] = ids[j] => i = j
  BY <1>2, PlanOnce
<1>4. ids \in Injection(1 .. n, O)
  BY <1>3 DEF Injection, IsInjective
<1>5. ids \in Surjection(1 .. n, O)
  BY <1>2, <1>4, FS_Injection
<1> QED BY <1>5 DEF Surjection, Plans!Elements

LEMMA PacketsTemplate == ASSUME Plans!PlanShaped(mil_plan), IsFiniteSet(mil_plan.rows)
    PROVE Plans!TemplateFits
<1> SUFFICES ASSUME NEW i \in DOMAIN mil_cut,
                    \A r \in mil_plan.rows : r.test \notin Plans!RootBlock(mil_cut[i].num).dod,
                    "ORACLESET" \notin Plans!RootBlock(mil_cut[i].num).dod,
                    \A s \in Plans!Sets \cap Plans!RootBlock(mil_cut[i].num).dod : Plans!StableOf(s) # {},
                    NEW ids \in [1..Cardinality(Plans!milestoneObligations(Plans!RootBlock(mil_cut[i].num))) ->
                                  Plans!milestoneObligations(Plans!RootBlock(mil_cut[i].num))],
                    Plans!Repeats(ids) = {}
             PROVE  Plans!checkDoDCoverage(Plans!RootBlock(mil_cut[i].num).dod, ids) = {}
  BY Zenon, PlansCardinality DEF Plans!TemplateFits
<1> DEFINE b == Plans!RootBlock(mil_cut[i].num)
           dod == b.dod
           O == Plans!milestoneObligations(b)
           cited == (Plans!acceptanceOracleIDs \cap dod)
               \cup UNION {Plans!StableOf(s) : s \in Plans!Sets \cap dod}
<1>1. IsFiniteSet(O)
  <2> DEFINE X == {x \in Plans!Indexed : Plans!CitedBy(x, dod)}
             F == [x \in X |-> x.stable]
  <2>1. IsFiniteSet(X)
    BY FS_Subset DEF Plans!Indexed
  <2>2. F \in Surjection(X, O)
    BY DEF Surjection, Plans!milestoneObligations
  <2> HIDE DEF X, O
  <2> QED BY <2>1, <2>2, FS_Surjection
<1>2. Plans!Elements(ids) = O
  BY <1>1, PacketsListAll
<1>3. O \subseteq Plans!acceptanceOracleIDs
  BY DEF Plans!milestoneObligations, Plans!Indexed, Plans!acceptanceOracleIDs
<1>4. cited = O
  <2>1. ASSUME NEW id \in O PROVE id \in cited
    <3>1. PICK r \in Plans!Indexed : id = r.stable /\ Plans!CitedBy(r, dod)
      BY DEF Plans!milestoneObligations
    <3>2. r \in mil_plan.rows /\ r.stable # "-" /\ r.test \notin dod
      BY DEF Plans!Indexed
    <3>3. r.stable \in dod \/ r.set \in dod
      BY <3>1, <3>2 DEF Plans!CitedBy
    <3>4. CASE r.stable \in dod
      BY <1>3, <3>1, <3>4
    <3>5. CASE r.set \in dod
      <4>1. r.set \in Plans!Sets
        BY <3>2 DEF Plans!Sets, Plans!PlanShaped
      <4>2. id \in Plans!StableOf(r.set)
        BY <3>1, <3>2 DEF Plans!StableOf
      <4> QED BY <3>5, <4>1, <4>2
    <3> QED BY <3>3, <3>4, <3>5
  <2>2. ASSUME NEW id \in Plans!acceptanceOracleIDs \cap dod PROVE id \in O
    <3>1. PICK r \in mil_plan.rows : id \in {r.test, r.stable} /\ id # "-"
      BY DEF Plans!acceptanceOracleIDs
    <3>2. id = r.stable
      BY <3>1
    <3> QED BY <3>1, <3>2 DEF Plans!milestoneObligations, Plans!Indexed, Plans!CitedBy
  <2>3. ASSUME NEW s \in Plans!Sets \cap dod, NEW id \in Plans!StableOf(s) PROVE id \in O
    <3>1. PICK r \in mil_plan.rows : id = r.stable /\ r.set = s /\ id # "-"
      BY DEF Plans!StableOf
    <3> QED BY <3>1 DEF Plans!milestoneObligations, Plans!Indexed, Plans!CitedBy
  <2> HIDE DEF O
  <2> QED BY <2>1, <2>2, <2>3
<1>5. Plans!Repeats(ids) = {} /\ Plans!Elements(ids) \ Plans!acceptanceOracleIDs = {}
          /\ "ORACLESET" \notin dod
      /\ {x \in Plans!Sets \cap dod : Plans!StableOf(x) = {}} = {} /\ cited \ Plans!Elements(ids) = {}
      /\ (Plans!Elements(ids) \cap Plans!acceptanceOracleIDs) \ cited = {}
  <2> HIDE DEF cited, O
  <2> QED BY <1>2, <1>3, <1>4
<1>6. Plans!If("ORACLESET" \in dod, <<"marker", "BUILD.md">>) = {}
  BY <1>5, Zenon DEF Plans!If
<1>7. Plans!checkDoDCoverage(dod, ids) =
        {<<"repeated id", id>> : id \in Plans!Repeats(ids)}
        \cup {<<"unknown id", id>> : id \in Plans!Elements(ids) \ Plans!acceptanceOracleIDs}
        \cup Plans!If("ORACLESET" \in dod, <<"marker", "BUILD.md">>)
        \cup {<<"empty set", s>> : s \in {x \in Plans!Sets \cap dod : Plans!StableOf(x) = {}}}
        \cup {<<"omitted id", id>> : id \in cited \ Plans!Elements(ids)}
        \cup {<<"foreign id", id>> : id \in (Plans!Elements(ids) \cap Plans!acceptanceOracleIDs) \ cited}
  BY Zenon DEF Plans!checkDoDCoverage
<1> HIDE DEF cited, dod
<1>8. Plans!checkDoDCoverage(dod, ids) = {}
  BY <1>5, <1>6, <1>7
<1> QED BY <1>8 DEF dod

\* A milestone that is closed in a snapshot without findings.
LEMMA ReviewAccepts ==
  ASSUME Plans!checkAcceptance = {}, NEW n \in Plans!Closed
  PROVE  /\ n \in Plans!Records \cap Plans!Numbers /\ n \in Plans!Bound
         /\ mil_accept[n] # Plans!Missing /\ mil_accept[n].num = n /\ mil_accept[n].verdict = "ACCEPTED"
                /\ mil_accept[n].attested
         /\ Plans!checkDoDCoverage(Plans!BlockOf(n).dod, mil_accept[n].dod) = {}
         /\ Plans!report(Plans!checkThreatReview(n)) \subseteq Plans!report(UNION {Plans!checkThreatReview(m) : m \in Plans!Records \cap Plans!Numbers})
         /\ Plans!report(UNION {Plans!checkThreatReview(m) : m \in Plans!Records \cap Plans!Numbers}) = {}
<1>1. n \in Plans!Numbers
  BY DEF Plans!Closed
<1> DEFINE A == UNION {Plans!parseAcceptance(m) \cup Plans!acceptThreatReview(m) : m \in Plans!Present}
           B == UNION {Plans!checkDoDCoverage(Plans!BlockOf(m).dod, mil_accept[m].dod) :
               m \in Plans!Records \cap Plans!Numbers}
           T == Plans!report(UNION {Plans!checkThreatReview(m) : m \in Plans!Records \cap Plans!Numbers})
<1>2. A = {} /\ B = {} /\ T = {} /\ Plans!ClosureFindings = {}
  BY Zenon DEF Plans!checkAcceptance
<1> DEFINE C == {<<"no evidence", m>> : m \in Plans!Closed \ Plans!Present}
           D == {<<"rejected", m>> : m \in {k \in Plans!Closed \cap Plans!Records :
               mil_accept[k].verdict = "REJECTED"}}
<1>3. C = {} /\ D = {}
  BY <1>2, Zenon DEF Plans!ClosureFindings
<1>4. n \in Plans!Present
  BY <1>3
<1>5. Plans!parseAcceptance(n) = {}
  <2>1. Plans!parseAcceptance(n) \cup Plans!acceptThreatReview(n) \subseteq A
    BY <1>4, Zenon
  <2> QED BY <1>2, <2>1
<1>6. n \in Plans!Records /\ mil_accept[n] # Plans!Missing
  BY <1>4, <1>5 DEF Plans!Records, Plans!Present
<1>7. mil_accept[n].verdict # "REJECTED"
  BY <1>3, <1>6
<1>8. /\ Plans!If(mil_accept[n].num # n, <<"record number", n>>) = {}
      /\ Plans!If(mil_accept[n].verdict \notin {"ACCEPTED", "REJECTED"}, <<"verdict", n>>) = {}
      /\ Plans!If(mil_accept[n].verdict = "ACCEPTED" /\ ~mil_accept[n].attested,
             <<"attests nothing", n>>) = {}
  BY <1>5, Zenon DEF Plans!parseAcceptance
<1>9. mil_accept[n].num = n /\ mil_accept[n].verdict = "ACCEPTED" /\ mil_accept[n].attested
  BY <1>7, <1>8, Zenon DEF Plans!If
<1>10. Plans!checkDoDCoverage(Plans!BlockOf(n).dod, mil_accept[n].dod) = {}
  <2>1. Plans!checkDoDCoverage(Plans!BlockOf(n).dod, mil_accept[n].dod) \subseteq B
    BY <1>1, <1>6, Zenon
  <2> QED BY <1>2, <2>1
<1>11. Plans!report(Plans!checkThreatReview(n)) \subseteq T
  <2>1. Plans!checkThreatReview(n) \subseteq UNION {Plans!checkThreatReview(m) :
            m \in Plans!Records \cap Plans!Numbers}
    BY <1>1, <1>6, Zenon
  <2> QED BY <2>1 DEF Plans!report
<1>12. n \in Plans!Bound
  BY <1>1, <1>6, <1>9 DEF Plans!Bound
<1> QED BY <1>1, <1>2, <1>6, <1>9, <1>10, <1>11, <1>12

\* Evidence that covers a DoD lists every row that the DoD names.
LEMMA ReviewLists ==
  ASSUME Plans!PlanShaped(mil_plan), NEW dod, NEW listed, Plans!checkDoDCoverage(dod, listed) = {},
             NEW r \in mil_plan.rows,
         r.stable # "-", Plans!CitedBy(r, dod)
  PROVE  {r.test, r.stable} \cap Plans!Elements(listed) # {}
<1> DEFINE sets == UNION {Plans!StableOf(s) : s \in Plans!Sets \cap dod}
           cited == (Plans!acceptanceOracleIDs \cap dod) \cup sets
           A == {<<"omitted id", id>> : id \in cited \ Plans!Elements(listed)}
<1>1. A = {}
  BY Zenon DEF Plans!checkDoDCoverage
<1>2. cited \subseteq Plans!Elements(listed)
  <2> HIDE DEF cited
  <2> QED BY <1>1
<1>3. PICK id \in ({r.test, r.stable} \ {"-"}) \cup {r.set} : id \in dod
  BY DEF Plans!CitedBy
<1>4. CASE id \in {r.test, r.stable} \ {"-"}
  <2>1. id \in Plans!acceptanceOracleIDs
    BY <1>4 DEF Plans!acceptanceOracleIDs
  <2> QED BY <1>2, <1>3, <1>4, <2>1
<1>5. CASE id = r.set
  <2>1. r.set \in Plans!Sets \cap dod
    BY <1>3, <1>5 DEF Plans!Sets, Plans!PlanShaped
  <2>2. r.stable \in Plans!StableOf(r.set)
    BY DEF Plans!StableOf
  <2>3. r.stable \in sets
    BY <2>1, <2>2, Zenon
  <2> QED BY <1>2, <2>3
<1> QED BY <1>3, <1>4, <1>5

LEMMA PlanMeets ==
  ASSUME Plans!PlanShaped(mil_plan), Plans!checkAcceptance = {}, Plans!CheckBuildPlan = {},
             Plans!Enforced, ~Plans!parentManifest,
         NEW n \in Plans!Numbers, NEW text \in Plans!Given(Plans!BlockOf(n)),
             NEW r \in mil_plan.threats.rows,
         r.kind # "n/a" /\ {r.subject, r.invariant} \cap text.names # {}
  PROVE  IF n \notin Plans!Closed THEN Plans!Covered(text, r)
         ELSE \/ mil_accept[n].date < mil_plan.threats.since
              \/ \E i \in DOMAIN mil_accept[n].review :
                   LET v == mil_accept[n].review[i]
                   IN v.subject = r.subject /\ v.adversary = r.adversary /\ v.expected = v.observed
                       /\ v.expected # "exit"
<1> DEFINE ms == Plans!planMilestonesOf
<1>1. PICK i \in DOMAIN ms : ms[i].num = n /\ Plans!BlockOf(n) = ms[i]
  BY PlanStructured
<1>2. CASE n \notin Plans!Closed
  <2>1. Plans!BlockOf(n) \in Plans!Elements(ms) /\ Plans!BlockOf(n).status # "closed"
    BY <1>1, <1>2 DEF Plans!Closed, Plans!Elements
  <2>2. Plans!Covered(text, r)
    BY <2>1, PlanAnswers DEF Plans!ThreatsAnswered
  <2> QED BY <1>2, <2>2
<1>3. CASE n \in Plans!Closed
  <2> DEFINE names == Plans!named(Plans!Text(Plans!BlockOf(n)))
             rows == {v \in Plans!Elements(mil_accept[n].review) : v.adversary # "nobody"}
             owed == {x \in Plans!loadThreatScope.rows : x.subject \in names /\ x.kind # "n/a"}
             reviewed(x) == \E v \in rows : v.subject = x.subject /\ v.adversary = x.adversary
             stale == Plans!loadThreatScope.ledger /\ mil_accept[n].date < mil_plan.threats.since
             bad == {w \in rows : Plans!exitStatusOnly(w.expected) \/ Plans!exitStatusOnly(w.observed)
                 \/ w.expected # w.observed}
             A == {<<"reason", n>> : v \in bad}
             B == {<<"no probe", x>> : x \in {y \in owed : ~reviewed(y)}}
  <2>1. PICK d \in Plans!milestoneThreatDocs(ms[i]) : d.text = text
    BY <1>1, PlanTexts
  <2>2. text.names \subseteq Plans!Text(Plans!BlockOf(n)).names
    BY <1>1, <2>1 DEF Plans!Text
  <2>3. /\ r.subject \in names
        /\ Plans!loadThreatScope.enforce = TRUE /\ Plans!loadThreatScope.ledger = TRUE
               /\ Plans!loadThreatScope.rows = mil_plan.threats.rows
    <3>1. {r.subject, r.invariant} \cap Plans!Text(Plans!BlockOf(n)).names # {}
      BY <2>2
    <3> QED BY <3>1, PlanOwes
  <2>4. Plans!checkThreatReview(n) = {}
    <3>1. Plans!report(Plans!checkThreatReview(n)) = {}
      BY <1>3, ReviewAccepts
    <3> QED BY <2>3, <3>1, Zenon DEF Plans!report
  <2>5. mil_accept[n].verdict = "ACCEPTED"
    BY <1>3, ReviewAccepts
  <2>6. CASE stale
    BY <1>3, <2>6
  <2>7. CASE ~stale
    <3>1. names # {}
      BY <2>3
    <3>2. A = {} /\ B = {}
      BY <2>4, <2>5, <2>7, <3>1, Zenon DEF Plans!checkThreatReview
    <3>3. reviewed(r)
      <4>1. r \in owed
        BY <2>3
      <4> HIDE DEF owed, reviewed
      <4> QED BY <3>2, <4>1
    <3>4. PICK v \in rows : v.subject = r.subject /\ v.adversary = r.adversary
      BY <3>3
    <3>5. v \notin bad
      <4> HIDE DEF bad
      <4> QED BY <3>2
    <3>6. v.expected = v.observed /\ v.expected # "exit"
      BY <3>4, <3>5 DEF Plans!exitStatusOnly
    <3>7. PICK k \in DOMAIN mil_accept[n].review : mil_accept[n].review[k] = v
      BY <3>4 DEF Plans!Elements
    <3> QED BY <1>3, <3>4, <3>6, <3>7
  <2> QED BY <2>6, <2>7
<1> QED BY <1>2, <1>3
LEMMA PlanSame == ASSUME mil_plan' = mil_plan PROVE Plans!CheckBuildPlan' = Plans!CheckBuildPlan
BY PlansCardinality DEF Plans!Map, Plans!CheckBuildPlan, Plans!parentManifest, Plans!Inventory,
     Plans!checkTemplateSections, Plans!Documents, Plans!checkGatesDisclaimer,
     Plans!checkDataDictionaryIdentity, Plans!LinkageFindings, Plans!checkPlanDoc,
     Plans!checkManifestFiles, Plans!checkThreatMilestones, Plans!planMilestonesOf, Plans!buildPlanSection,
     Plans!planOracleIDs, Plans!manifestLinkageMode, Plans!checkMatrixShards, Plans!checkPairwisePackets,
     Plans!packetHeadingCounts, Plans!parseShardMilestones, Plans!ShardFindings, Plans!loadThreatScope,
     Plans!named, Plans!report, Plans!OwedRows, Plans!FileText, Plans!milestoneThreatDocs,
     Plans!checkThreatTable

LEMMA PacketsSame == ASSUME mil_plan' = mil_plan, mil_cut' = mil_cut, mil_elements' = mil_elements
    PROVE Plans!ProjectPackets' = Plans!ProjectPackets
BY PlansCardinality DEF Plans!Map, Plans!ProjectPackets, Plans!loadSliceMap, Plans!SliceFindings,
     Plans!packetRelPath, Plans!file, Plans!planBlocksOf, Plans!IndexFindings, Plans!oracleByID,
     Plans!Indexed, Plans!MilestoneFindings, Plans!Declared, Plans!RootBlock, Plans!milestoneObligations,
     Plans!claimLedger, Plans!claimedRows, Plans!RowsOf, Plans!projectSlice, Plans!resolve,
     Plans!shardBound, Plans!Occurs, Plans!sectionRange, Plans!tableRowExcerpt, Plans!contractItem,
     Plans!contractRule, Plans!invariantExcerpt, Plans!MilestoneBlock, Plans!Size

LEMMA ReviewSame == ASSUME mil_plan' = mil_plan, mil_accept' = mil_accept
                PROVE  /\ Plans!checkAcceptance' = Plans!checkAcceptance /\ Plans!Closed' = Plans!Closed
                              /\ Plans!Bound' = Plans!Bound
                       /\ (Plans!Records \cap Plans!Numbers)' = Plans!Records \cap Plans!Numbers
BY DEF Plans!Map, Plans!checkAcceptance, Plans!Closed, Plans!Records, Plans!Numbers, Plans!Bound,
     Plans!Present, Plans!parseAcceptance, Plans!acceptThreatReview, Plans!BlockOf, Plans!planMilestonesOf,
     Plans!buildPlanSection, Plans!checkDoDCoverage, Plans!acceptanceOracleIDs, Plans!StableOf,
     Plans!checkThreatReview, Plans!Text, Plans!milestoneThreatDocs, Plans!manifestLinkageMode,
     Plans!FileText, Plans!named, Plans!loadThreatScope, Plans!report, Plans!ClosureFindings

LEMMA PlansInit == Plans!Init => Plans!Inv
<1> SUFFICES ASSUME Plans!Init PROVE Plans!Inv
  OBVIOUS
<1>1. mil_desk \in PlanDesks /\ mil_plan = mil_desk.plan /\ mil_cut = mil_desk.map
          /\ mil_elements = PlanElements
  BY Zenon DEF Plans!Init, Plans!AuthorInit
<1>2. Plans!DeskShaped(mil_desk)
  BY <1>1, PlansAssumption, PlansFinite DEF Plans!WellFormed
<1>3. Plans!PlanShaped(mil_plan) /\ Plans!CutShaped(mil_cut)
  BY <1>1, <1>2 DEF Plans!DeskShaped
<1>4. PICK s \in mil_desk.gits, h \in mil_desk.heads :
               mil_git = [state |-> s, head |-> h, objects |-> Plans!Commits]
  BY Zenon DEF Plans!Init
<1>5. s \in {"repository", "unborn", "outside"} /\ h \in Plans!Commits
  BY <1>2 DEF Plans!DeskShaped
<1>6. mil_run = [pc |-> "author", given |-> "", handoff |-> FALSE,
          anchor |-> [commit |-> Plans!None, by |-> "absent"],
             heads |-> {}, moves |-> 0, gb |-> {}, gw |-> {}, ga |-> {}]
  BY Zenon DEF Plans!Init
<1>7. Plans!Shape
  BY <1>1, <1>3, <1>4, <1>5, <1>6 DEF Plans!Shape
<1>8. mil_run.pc = "author"
  BY <1>6
<1> QED BY <1>7, <1>8 DEF Plans!Inv, Plans!Judged, Plans!Asked, Plans!Settled

LEMMA PlansCut ==
  ASSUME Plans!CutShaped(mil_cut), NEW i \in DOMAIN mil_cut
  PROVE  /\ \A j \in DOMAIN mil_cut[i].slices : \A e :
                Plans!CutShaped([mil_cut EXCEPT ![i].slices[j][e[1]] = e[2]])
         /\ \A w : Plans!CutShaped([mil_cut EXCEPT ![i].waivers = w])
<1>1. Plans!Sequential(mil_cut[i].slices) /\ "slices" \in DOMAIN mil_cut[i]
  BY DEF Plans!CutShaped
<1>2. ASSUME NEW j \in DOMAIN mil_cut[i].slices, NEW v
                 PROVE Plans!Sequential([mil_cut[i].slices EXCEPT ![j] = v])
  <2> DEFINE s == mil_cut[i].slices
             S == {s[k] : k \in 1 .. Len(s)} \cup {v}
  <2>1. s \in Seq(S) /\ DOMAIN s = 1 .. Len(s)
    BY <1>1, PlanIsSeq DEF Plans!Sequential
  <2>2. [s EXCEPT ![j] = v] \in Seq(S)
    BY <2>1
  <2> QED BY <2>2, PlanSequence
<1>3. ASSUME NEW v, Plans!Sequential(v["slices"]), "slices" \in DOMAIN v, v = [x \in DOMAIN v |-> v[x]]
      PROVE  Plans!CutShaped([mil_cut EXCEPT ![i] = v])
  BY <1>3 DEF Plans!CutShaped
<1>4. ASSUME NEW j \in DOMAIN mil_cut[i].slices, NEW e
                 PROVE Plans!CutShaped([mil_cut EXCEPT ![i].slices[j][e[1]] = e[2]])
  <2> DEFINE v == [mil_cut[i].slices EXCEPT ![j] = [@ EXCEPT ![e[1]] = e[2]]]
             c == [mil_cut[i] EXCEPT !["slices"] = v]
  <2>1. Plans!Sequential(v)
    BY <1>2
  <2>2. Plans!Sequential(c["slices"]) /\ "slices" \in DOMAIN c /\ c = [x \in DOMAIN c |-> c[x]]
    BY <1>1, <2>1
  <2>3. [mil_cut EXCEPT ![i].slices[j][e[1]] = e[2]] = [mil_cut EXCEPT ![i] = c]
    OBVIOUS
  <2> QED BY <1>3, <2>2, <2>3
<1>5. ASSUME NEW w PROVE Plans!CutShaped([mil_cut EXCEPT ![i].waivers = w])
  <2> DEFINE c == [mil_cut[i] EXCEPT !["waivers"] = w]
  <2>2. Plans!Sequential(c["slices"]) /\ "slices" \in DOMAIN c /\ c = [x \in DOMAIN c |-> c[x]]
    BY <1>1
  <2>3. [mil_cut EXCEPT ![i].waivers = w] = [mil_cut EXCEPT ![i] = c]
    OBVIOUS
  <2> QED BY <1>3, <2>2, <2>3
<1> QED BY <1>4, <1>5

LEMMA PlansWrite == ASSUME Plans!Inv, Plans!Write \/ Plans!Revise PROVE Plans!Inv'
<1>1. Plans!Shape /\ mil_run.pc = "author" /\ UNCHANGED <<mil_git, mil_run>>
  BY DEF Plans!Inv, Plans!Write, Plans!Revise
<1>2. Plans!DeskShaped(mil_desk)
  BY <1>1, PlansAssumption, PlansFinite DEF Plans!Shape, Plans!WellFormed
<1>3. mil_desk' = mil_desk /\ Plans!PlanShaped(mil_plan)' /\ Plans!CutShaped(mil_cut)'
          /\ DOMAIN mil_elements' = DOMAIN mil_elements
  <2>1. CASE Plans!Revise
    <3>1. Plans!Author /\ UNCHANGED <<mil_cut, mil_elements>>
      BY <2>1 DEF Plans!Revise
    <3>2. Plans!PlanShaped(mil_plan')
      BY <1>1, <1>2, <3>1, PlanAuthored DEF Plans!Shape
    <3>3. mil_desk' = mil_desk
      BY <3>1 DEF Plans!Author
    <3> QED BY <1>1, <3>1, <3>2, <3>3 DEF Plans!Shape, Plans!PlanShaped, Plans!CutShaped,
         Plans!BlockShaped, Plans!Sequential
  <2>2. CASE Plans!Write
    <3>1. UNCHANGED <<mil_desk, mil_plan>>
      BY <2>2 DEF Plans!Write
    <3>2. Plans!PlanShaped(mil_plan)'
      BY <1>1, <3>1 DEF Plans!Shape, Plans!PlanShaped, Plans!BlockShaped, Plans!Sequential
    <3>3. Plans!CutShaped(mil_cut') /\ DOMAIN mil_elements' = DOMAIN mil_elements
      <4>1. ASSUME NEW i \in DOMAIN mil_cut, NEW j \in DOMAIN mil_cut[i].slices, NEW e \in mil_desk.slice,
                   mil_cut' = [mil_cut EXCEPT ![i].slices[j][e[1]] = e[2]], mil_elements' = mil_elements
            PROVE  Plans!CutShaped(mil_cut') /\ DOMAIN mil_elements' = DOMAIN mil_elements
        BY <1>1, <4>1, PlansCut DEF Plans!Shape
      <4>2. ASSUME NEW i \in DOMAIN mil_cut, NEW id, mil_elements' = mil_elements,
                   mil_cut' = [mil_cut EXCEPT ![i].waivers = IF @ = <<>> THEN <<id>> ELSE <<>>]
            PROVE  Plans!CutShaped(mil_cut') /\ DOMAIN mil_elements' = DOMAIN mil_elements
        <5> DEFINE w == IF mil_cut[i].waivers = <<>> THEN <<id>> ELSE <<>>
        <5>1. mil_cut' = [mil_cut EXCEPT ![i].waivers = w]
          BY <4>2, Zenon
        <5> HIDE DEF w
        <5>2. Plans!CutShaped([mil_cut EXCEPT ![i].waivers = w])
          BY <1>1, PlansCut DEF Plans!Shape
        <5> QED BY <4>2, <5>1, <5>2
      <4>3. ASSUME NEW c \in DOMAIN mil_elements, NEW k \in 0 .. 2,
                       mil_elements' = [mil_elements EXCEPT ![c] = k], mil_cut' = mil_cut
            PROVE  Plans!CutShaped(mil_cut') /\ DOMAIN mil_elements' = DOMAIN mil_elements
        BY <1>1, <4>3 DEF Plans!Shape
      <4>4. CASE UNCHANGED <<mil_cut, mil_elements>>
        BY <1>1, <4>4 DEF Plans!Shape
      <4> QED BY <2>2, <4>1, <4>2, <4>3, <4>4, Zenon DEF Plans!Write
    <3> QED BY <3>1, <3>2, <3>3 DEF Plans!CutShaped, Plans!Sequential
  <2> QED BY <2>1, <2>2
<1>4. Plans!Shape'
  BY <1>1, <1>3 DEF Plans!Shape
<1> QED BY <1>1, <1>4 DEF Plans!Inv, Plans!Judged, Plans!Asked, Plans!Settled

LEMMA PlansShape ==
  ASSUME Plans!Shape, UNCHANGED <<mil_desk, mil_plan, mil_cut, mil_elements>>,
         (mil_git = [state |-> mil_git.state, head |-> mil_git.head, objects |-> mil_git.objects]
          /\ mil_git.state \in {"repository", "unborn", "outside"} /\ mil_git.head \in Plans!Commits)',
         (mil_run = [pc |-> mil_run.pc, given |-> mil_run.given, handoff |-> mil_run.handoff,
             anchor |-> mil_run.anchor, heads |-> mil_run.heads,
            moves |-> mil_run.moves, gb |-> mil_run.gb, gw |-> mil_run.gw, ga |-> mil_run.ga]
          /\ mil_run.pc \in {"author", "resolve", "bind", "done"} /\ mil_run.handoff \in BOOLEAN)'
  PROVE  Plans!Shape'
BY DEF Plans!Shape, Plans!PlanShaped, Plans!BlockShaped, Plans!Sequential, Plans!CutShaped

LEMMA PlansAcquire == ASSUME Plans!Inv, Plans!Acquire PROVE Plans!Inv'
<1>1. PICK given \in mil_desk.anchors, handoff \in BOOLEAN :
        mil_run' = [mil_run EXCEPT !.pc = "resolve", !.given = given, !.handoff = handoff,
            !.heads = {mil_git.head},
                           !.gb = Plans!CheckBuildPlan, !.gw = Plans!ProjectPackets,
                               !.ga = Plans!checkAcceptance]
  BY Zenon DEF Plans!Acquire
<1>2. UNCHANGED <<mil_desk, mil_plan, mil_edits, mil_cut, mil_elements, mil_accept, mil_git>>
  BY Zenon DEF Plans!Acquire
<1>3. mil_run' = [pc |-> "resolve", given |-> given, handoff |-> handoff, anchor |-> mil_run.anchor,
          heads |-> {mil_git.head},
              moves |-> mil_run.moves, gb |-> Plans!CheckBuildPlan, gw |-> Plans!ProjectPackets,
                  ga |-> Plans!checkAcceptance]
  <2> DEFINE r == [pc |-> mil_run.pc, given |-> mil_run.given, handoff |-> mil_run.handoff,
                 anchor |-> mil_run.anchor, heads |-> mil_run.heads,
                   moves |-> mil_run.moves, gb |-> mil_run.gb, gw |-> mil_run.gw, ga |-> mil_run.ga]
  <2>1. mil_run' = [r EXCEPT !.pc = "resolve", !.given = given, !.handoff = handoff,
            !.heads = {mil_git.head},
                         !.gb = Plans!CheckBuildPlan, !.gw = Plans!ProjectPackets,
                             !.ga = Plans!checkAcceptance]
    BY <1>1, Zenon DEF Plans!Inv, Plans!Shape
  <2> QED BY <2>1
<1>4. Plans!Shape'
  BY <1>2, <1>3, PlansShape DEF Plans!Inv, Plans!Shape
<1>5. mil_run'.pc = "resolve" /\ Plans!Judged'
  BY <1>2, <1>3, PlanSame, PacketsSame, ReviewSame DEF Plans!Judged
<1> QED BY <1>4, <1>5 DEF Plans!Inv, Plans!Asked, Plans!Settled

LEMMA PlansJudged ==
  ASSUME Plans!Judged, mil_run.pc # "author",
             UNCHANGED <<mil_desk, mil_plan, mil_cut, mil_elements, mil_accept>>,
         mil_run'.gb = mil_run.gb, mil_run'.gw = mil_run.gw, mil_run'.given = mil_run.given,
             mil_run.ga \subseteq mil_run'.ga, mil_git'.head \in mil_run'.heads
  PROVE  Plans!Judged'
<1>1. UNCHANGED <<Plans!CheckBuildPlan, Plans!ProjectPackets, Plans!checkAcceptance>>
  BY PlanSame, PacketsSame, ReviewSame
<1> QED BY <1>1 DEF Plans!Judged

LEMMA PlansResolve == ASSUME Plans!Inv, Plans!Resolve PROVE Plans!Inv'
<1> DEFINE r == IF mil_run.handoff THEN Plans!resolveReviewCommitExact(mil_run.given)
               ELSE Plans!resolveReviewCommit(mil_run.given)
           idle == ~mil_run.handoff /\ Plans!Closed = {} /\ Plans!Records \cap Plans!Numbers = {}
           miss == Plans!If(r.commit = Plans!None /\ r.by # "absent", <<"anchor", r.by>>)
<1>1. mil_run.pc = "resolve" /\ UNCHANGED <<mil_desk, mil_plan, mil_edits, mil_cut, mil_elements,
          mil_accept, mil_git>>
  BY Zenon DEF Plans!Resolve
<1>2. \/ idle /\ mil_run' = [mil_run EXCEPT !.pc = "bind"]
      \/ ~idle /\ mil_run' = [mil_run EXCEPT !.pc = "bind", !.anchor = r, !.ga = @ \cup miss]
      \/ ~idle /\ mil_run' = [mil_run EXCEPT !.pc = "bind", !.ga = @ \cup {<<"anchor", "git">>}]
  BY Zenon DEF Plans!Resolve
<1> HIDE DEF r, idle, miss
<1> DEFINE rec(a, g) == [pc |-> "bind", given |-> mil_run.given, handoff |-> mil_run.handoff,
               anchor |-> a, heads |-> mil_run.heads,
                         moves |-> mil_run.moves, gb |-> mil_run.gb, gw |-> mil_run.gw, ga |-> g]
<1>3. \/ idle /\ mil_run' = rec(mil_run.anchor, mil_run.ga)
      \/ ~idle /\ mil_run' = rec(r, mil_run.ga \cup miss)
      \/ ~idle /\ mil_run' = rec(mil_run.anchor, mil_run.ga \cup {<<"anchor", "git">>})
  <2> DEFINE q == [pc |-> mil_run.pc, given |-> mil_run.given, handoff |-> mil_run.handoff,
                 anchor |-> mil_run.anchor, heads |-> mil_run.heads,
                   moves |-> mil_run.moves, gb |-> mil_run.gb, gw |-> mil_run.gw, ga |-> mil_run.ga]
  <2>1. mil_run = q
    BY Zenon DEF Plans!Inv, Plans!Shape
  <2>2. CASE idle /\ mil_run' = [mil_run EXCEPT !.pc = "bind"]
    <3>1. mil_run' = [q EXCEPT !.pc = "bind"]
      BY <2>1, <2>2, Zenon
    <3> QED BY <2>2, <3>1
  <2>3. CASE ~idle /\ mil_run' = [mil_run EXCEPT !.pc = "bind", !.anchor = r, !.ga = @ \cup miss]
    <3>1. mil_run' = [q EXCEPT !.pc = "bind", !.anchor = r, !.ga = @ \cup miss]
      BY <2>1, <2>3, Zenon
    <3> QED BY <2>3, <3>1
  <2>4. CASE ~idle /\ mil_run' = [mil_run EXCEPT !.pc = "bind", !.ga = @ \cup {<<"anchor", "git">>}]
    <3>1. mil_run' = [q EXCEPT !.pc = "bind", !.ga = @ \cup {<<"anchor", "git">>}]
      BY <2>1, <2>4, Zenon
    <3> QED BY <2>4, <3>1
  <2> QED BY <1>2, <2>2, <2>3, <2>4
<1>4. /\ mil_run'.pc = "bind" /\ mil_run'.given = mil_run.given /\ mil_run'.handoff = mil_run.handoff
             /\ mil_run'.heads = mil_run.heads
      /\ mil_run'.gb = mil_run.gb /\ mil_run'.gw = mil_run.gw /\ mil_run.ga \subseteq mil_run'.ga
      /\ mil_run' = [pc |-> mil_run'.pc, given |-> mil_run'.given, handoff |-> mil_run'.handoff,
             anchor |-> mil_run'.anchor,
                 heads |-> mil_run'.heads, moves |-> mil_run'.moves, gb |-> mil_run'.gb,
                     gw |-> mil_run'.gw, ga |-> mil_run'.ga]
  BY <1>3
<1>5. Plans!Shape'
  BY <1>1, <1>4, PlansShape DEF Plans!Inv, Plans!Shape
<1>6. Plans!Judged'
  BY <1>1, <1>4, PlansJudged DEF Plans!Inv, Plans!Judged
<1>7. Plans!Asked'
  <2> SUFFICES ASSUME mil_run'.ga = {}, Plans!Closed' # {} \/ mil_run'.handoff PROVE Plans!Anchored'
    BY <1>4 DEF Plans!Asked
  <2>1. Plans!Closed # {} \/ mil_run.handoff
    BY <1>1, <1>4, ReviewSame
  <2>2. ~idle
    BY <2>1 DEF idle
  <2>3. mil_run'.anchor = r /\ mil_run.ga \cup miss = {}
    <3>1. mil_run' = rec(r, mil_run.ga \cup miss)
              \/ mil_run' = rec(mil_run.anchor, mil_run.ga \cup {<<"anchor", "git">>})
      BY <1>3, <2>2, Zenon
    <3>2. rec(mil_run.anchor, mil_run.ga \cup {<<"anchor", "git">>}).ga # {}
      OBVIOUS
    <3>3. mil_run' = rec(r, mil_run.ga \cup miss)
      BY <3>1, <3>2, Zenon
    <3> QED BY <3>3
  <2>4. miss = {}
    BY <2>3
  <2>5. ~(r.commit = Plans!None /\ r.by # "absent")
    BY <2>4, Zenon DEF miss, Plans!If
  <2> DEFINE x == Plans!resolveReviewCommitExact(mil_run.given)
  <2>6. r = x \/ (~mil_run.handoff /\ x.by \in {"outside", "unborn"}
            /\ r = [commit |-> Plans!None, by |-> "absent"])
    BY DEF r, Plans!resolveReviewCommit, Plans!Inv, Plans!Shape
  <2>7. mil_git.state \in {"repository", "unborn", "outside"} /\ mil_git.head \in Plans!Commits
            /\ mil_git.head \in mil_run.heads
        /\ mil_run.given \in mil_desk.anchors /\ mil_desk \in PlanDesks /\ mil_run.handoff \in BOOLEAN
    BY <1>1 DEF Plans!Inv, Plans!Shape, Plans!Judged
  <2>8. Plans!None \notin Plans!Commits /\ Plans!None \notin mil_desk.anchors
    BY <2>7, PlansAssumption, PlansFinite DEF Plans!WellFormed, Plans!DeskShaped
  <2>9. CASE mil_run.given = "" /\ mil_git.state = "repository"
    <3>1. x = [commit |-> mil_git.head, by |-> "git"]
      BY <2>9, Zenon DEF Plans!resolveReviewCommitExact
    <3>2. r = x
      BY <2>6, <3>1
    <3> HIDE DEF x
    <3>3. mil_run'.anchor = [commit |-> mil_git.head, by |-> "git"]
      BY <2>3, <3>1, <3>2
    <3>4. mil_run'.given = "" /\ mil_git'.state = "repository" /\ mil_run'.heads = mil_run.heads
      BY <1>1, <1>4, <2>9, Zenon
    <3>5. mil_run'.anchor.by = "git" /\ mil_run'.anchor.commit \in mil_run.heads \cap Plans!Commits
      BY <2>7, <3>3
    <3> QED BY <3>4, <3>5, Zenon DEF Plans!Anchored, Plans!Commits
  <2>10. CASE mil_run.given = "" /\ mil_git.state # "repository"
    <3>1. x = [commit |-> Plans!None, by |-> mil_git.state]
      BY <2>10, Zenon DEF Plans!resolveReviewCommitExact
    <3>2. ~mil_run.handoff
      BY <2>5, <2>6, <2>7, <3>1
    <3> QED BY <1>1, <1>4, <2>10, <3>2 DEF Plans!Anchored
  <2>11. CASE mil_run.given # "" /\ mil_git.state = "outside"
    <3>1. x = [commit |-> mil_run.given, by |-> "exported"]
      BY <2>11 DEF Plans!resolveReviewCommitExact
    <3>2. r = x
      BY <2>6, <3>1
    <3> QED BY <1>1, <1>4, <2>3, <2>11, <3>1, <3>2 DEF Plans!Anchored
  <2>12. CASE mil_run.given # "" /\ mil_git.state \in {"repository", "unborn"}
    <3>1. x = IF mil_git.state = "repository" /\ Plans!gitCommitOf(mil_run.given) # Plans!None
              THEN [commit |-> Plans!gitCommitOf(mil_run.given), by |-> "caller"]
                  ELSE [commit |-> Plans!None, by |-> "failed"]
      BY <2>12, Zenon DEF Plans!resolveReviewCommitExact
    <3>2. r = x
      BY <2>6, <3>1
    <3>3. mil_git.state = "repository" /\ Plans!gitCommitOf(mil_run.given) # Plans!None
      BY <2>5, <3>1, <3>2
    <3>4. x = [commit |-> Plans!gitCommitOf(mil_run.given), by |-> "caller"]
      BY <3>1, <3>3
    <3>5. Plans!gitCommitOf(mil_run.given) = Plans!Full(mil_run.given)
      BY <3>3 DEF Plans!gitCommitOf
    <3>6. Plans!Full(mil_run.given)' = Plans!Full(mil_run.given)
      BY <1>4 DEF Plans!Full
    <3> HIDE DEF x
    <3>7. mil_run'.anchor = [commit |-> Plans!Full(mil_run.given), by |-> "caller"]
              /\ Plans!Full(mil_run.given) # Plans!None
      BY <2>3, <3>2, <3>3, <3>4, <3>5
    <3>8. mil_run'.given # "" /\ mil_git'.state = "repository"
      BY <1>1, <1>4, <2>12, <3>3, Zenon
    <3>9. mil_run'.anchor.by = "caller" /\ mil_run'.anchor.commit = Plans!Full(mil_run.given)
              /\ mil_run'.anchor.commit # Plans!None
      BY <3>7
    <3> QED BY <3>6, <3>8, <3>9, Zenon DEF Plans!Anchored
  <2> QED BY <2>7, <2>9, <2>10, <2>11, <2>12
<1>8. Plans!Settled'
  BY <1>4 DEF Plans!Settled
<1> QED BY <1>5, <1>6, <1>7, <1>8 DEF Plans!Inv

LEMMA PlansBind == ASSUME Plans!Inv, Plans!Bind PROVE Plans!Inv'
<1> DEFINE all == UNION {Plans!checkCommitBinding(n, mil_run.anchor) : n \in Plans!Bound}
           q == [pc |-> mil_run.pc, given |-> mil_run.given, handoff |-> mil_run.handoff,
               anchor |-> mil_run.anchor, heads |-> mil_run.heads,
                 moves |-> mil_run.moves, gb |-> mil_run.gb, gw |-> mil_run.gw, ga |-> mil_run.ga]
           rec(g) == [pc |-> "done", given |-> mil_run.given, handoff |-> mil_run.handoff,
               anchor |-> mil_run.anchor,
                      heads |-> mil_run.heads, moves |-> mil_run.moves, gb |-> mil_run.gb,
                          gw |-> mil_run.gw, ga |-> g]
<1>1. mil_run.pc = "bind" /\ UNCHANGED <<mil_desk, mil_plan, mil_edits, mil_cut, mil_elements, mil_accept,
          mil_git>>
  BY Zenon DEF Plans!Bind
<1>2. \/ mil_run' = [mil_run EXCEPT !.pc = "done", !.ga = @ \cup all]
      \/ mil_run' = [mil_run EXCEPT !.pc = "done", !.ga = @ \cup {<<"binding", "git">>}]
  BY Zenon DEF Plans!Bind
<1>3. mil_run = q
  BY Zenon DEF Plans!Inv, Plans!Shape
<1> HIDE DEF all
<1>4. mil_run' = rec(mil_run.ga \cup all) \/ mil_run' = rec(mil_run.ga \cup {<<"binding", "git">>})
  <2>1. CASE mil_run' = [mil_run EXCEPT !.pc = "done", !.ga = @ \cup all]
    <3>1. mil_run' = [q EXCEPT !.pc = "done", !.ga = @ \cup all]
      BY <1>3, <2>1, Zenon
    <3> QED BY <3>1
  <2>2. CASE mil_run' = [mil_run EXCEPT !.pc = "done", !.ga = @ \cup {<<"binding", "git">>}]
    <3>1. mil_run' = [q EXCEPT !.pc = "done", !.ga = @ \cup {<<"binding", "git">>}]
      BY <1>3, <2>2, Zenon
    <3> QED BY <3>1
  <2> QED BY <1>2, <2>1, <2>2
<1>5. /\ mil_run'.pc = "done" /\ mil_run'.given = mil_run.given /\ mil_run'.handoff = mil_run.handoff
             /\ mil_run'.heads = mil_run.heads
      /\ mil_run'.anchor = mil_run.anchor /\ mil_run'.gb = mil_run.gb /\ mil_run'.gw = mil_run.gw
             /\ mil_run.ga \subseteq mil_run'.ga
      /\ mil_run' = [pc |-> mil_run'.pc, given |-> mil_run'.given, handoff |-> mil_run'.handoff,
             anchor |-> mil_run'.anchor,
                 heads |-> mil_run'.heads, moves |-> mil_run'.moves, gb |-> mil_run'.gb,
                     gw |-> mil_run'.gw, ga |-> mil_run'.ga]
  BY <1>4
<1>6. Plans!Shape'
  BY <1>1, <1>5, PlansShape DEF Plans!Inv, Plans!Shape
<1>7. Plans!Judged'
  BY <1>1, <1>5, PlansJudged DEF Plans!Inv, Plans!Judged
<1>8. Plans!Asked'
  <2> SUFFICES ASSUME mil_run'.ga = {}, Plans!Closed' # {} \/ mil_run'.handoff PROVE Plans!Anchored'
    BY DEF Plans!Asked
  <2>1. mil_run.ga = {}
    BY <1>5
  <2>2. Plans!Closed # {} \/ mil_run.handoff
    BY <1>1, <1>5, ReviewSame
  <2>3. Plans!Anchored
    BY <1>1, <2>1, <2>2 DEF Plans!Inv, Plans!Asked
  <2>4. mil_run'.given = mil_run.given /\ mil_run'.handoff = mil_run.handoff
            /\ mil_run'.heads = mil_run.heads /\ mil_run'.anchor = mil_run.anchor /\ mil_git' = mil_git
    BY <1>1, <1>5, Zenon
  <2> QED BY <2>3, <2>4, Zenon DEF Plans!Anchored, Plans!Full
<1>9. Plans!Settled'
  <2> SUFFICES ASSUME mil_run'.ga = {}, NEW n \in Plans!Bound'
                          PROVE Plans!checkCommitBinding(n, mil_run.anchor)' = {}
    BY DEF Plans!Settled
  <2>1. Plans!Bound' = Plans!Bound
    BY <1>1, ReviewSame
  <2>2. mil_run.ga \cup all = {}
    <3>1. rec(mil_run.ga \cup {<<"binding", "git">>}).ga # {}
      OBVIOUS
    <3>2. mil_run' = rec(mil_run.ga \cup all)
      BY <1>4, <3>1, Zenon
    <3> QED BY <3>2
  <2>3. Plans!checkCommitBinding(n, mil_run.anchor) \subseteq all
    BY <2>1, Zenon DEF all
  <2>4. Plans!checkCommitBinding(n, mil_run.anchor) = {}
    BY <2>2, <2>3
  <2>5. mil_run'.anchor = mil_run.anchor /\ mil_git' = mil_git /\ mil_accept' = mil_accept
    BY <1>1, <1>5, Zenon
  <2>6. Plans!checkCommitBinding(n, mil_run.anchor)' = Plans!checkCommitBinding(n, mil_run.anchor)
    BY <2>5, Zenon DEF Plans!checkCommitBinding, Plans!commitBinds, Plans!gitCommitOf, Plans!gitIsAncestor,
         Plans!Full
  <2> QED BY <2>4, <2>6
<1> QED BY <1>6, <1>7, <1>8, <1>9 DEF Plans!Inv

LEMMA PlansMove == ASSUME Plans!Inv, Plans!MoveHead PROVE Plans!Inv'
<1>1. /\ mil_git.state = "repository" /\ mil_run.pc \in {"resolve", "bind"}
      /\ UNCHANGED <<mil_desk, mil_plan, mil_edits, mil_cut, mil_elements, mil_accept>>
      /\ mil_run' = [mil_run EXCEPT !.moves = @ + 1, !.heads = @ \cup {mil_git'.head}]
  BY Zenon DEF Plans!MoveHead
<1>2. PICK c \in Plans!Commits, prune \in BOOLEAN :
        mil_git' = [mil_git EXCEPT !.head = c, !.objects = IF prune THEN PlanHistory[c] ELSE @
            \cup PlanHistory[c]]
  BY Zenon DEF Plans!MoveHead
<1>3. PICK objects : mil_git' = [state |-> mil_git.state, head |-> c, objects |-> objects]
  <2> DEFINE q == [state |-> mil_git.state, head |-> mil_git.head, objects |-> mil_git.objects]
  <2>1. mil_git = q
    BY Zenon DEF Plans!Inv, Plans!Shape
  <2>2. mil_git' = [q EXCEPT !.head = c, !.objects = IF prune THEN PlanHistory[c] ELSE @
            \cup PlanHistory[c]]
    BY <1>2, <2>1, Zenon
  <2> QED BY <2>2
<1>4. mil_run' = [pc |-> mil_run.pc, given |-> mil_run.given, handoff |-> mil_run.handoff,
          anchor |-> mil_run.anchor,
              heads |-> mil_run.heads \cup {c}, moves |-> mil_run.moves + 1, gb |-> mil_run.gb,
                  gw |-> mil_run.gw, ga |-> mil_run.ga]
  <2> DEFINE q == [pc |-> mil_run.pc, given |-> mil_run.given, handoff |-> mil_run.handoff,
                 anchor |-> mil_run.anchor, heads |-> mil_run.heads,
                   moves |-> mil_run.moves, gb |-> mil_run.gb, gw |-> mil_run.gw, ga |-> mil_run.ga]
  <2>1. mil_run = q /\ mil_git'.head = c
    BY <1>3 DEF Plans!Inv, Plans!Shape
  <2>2. mil_run' = [q EXCEPT !.moves = @ + 1, !.heads = @ \cup {c}]
    BY <1>1, <2>1, Zenon
  <2> QED BY <2>2
<1>5. /\ mil_run'.pc = mil_run.pc /\ mil_run'.given = mil_run.given /\ mil_run'.handoff = mil_run.handoff
             /\ mil_run'.heads = mil_run.heads \cup {c}
      /\ mil_run'.anchor = mil_run.anchor /\ mil_run'.gb = mil_run.gb /\ mil_run'.gw = mil_run.gw
             /\ mil_run'.ga = mil_run.ga
      /\ mil_run' = [pc |-> mil_run'.pc, given |-> mil_run'.given, handoff |-> mil_run'.handoff,
             anchor |-> mil_run'.anchor,
                 heads |-> mil_run'.heads, moves |-> mil_run'.moves, gb |-> mil_run'.gb,
                     gw |-> mil_run'.gw, ga |-> mil_run'.ga]
  BY <1>4
<1>6. mil_git'.state = mil_git.state /\ mil_git'.head = c
      /\ mil_git' = [state |-> mil_git'.state, head |-> mil_git'.head, objects |-> mil_git'.objects]
  BY <1>3
<1>7. Plans!Shape'
  BY <1>1, <1>5, <1>6, PlansShape DEF Plans!Inv, Plans!Shape
<1>8. Plans!Judged'
  BY <1>1, <1>5, <1>6, PlansJudged DEF Plans!Inv, Plans!Judged
<1>9. Plans!Asked'
  <2> SUFFICES ASSUME mil_run'.pc \in {"bind", "done"}, mil_run'.ga = {}, Plans!Closed' # {}
                          \/ mil_run'.handoff PROVE Plans!Anchored'
    BY DEF Plans!Asked
  <2>1. Plans!Closed # {} \/ mil_run.handoff
    BY <1>1, <1>5, ReviewSame
  <2>2. Plans!Anchored
    BY <1>5, <2>1 DEF Plans!Inv, Plans!Asked
  <2>3. mil_run'.given = mil_run.given /\ mil_run'.handoff = mil_run.handoff
            /\ mil_run'.anchor = mil_run.anchor /\ mil_git'.state = mil_git.state
        /\ \A x : x \in mil_run.heads \cap Plans!Commits => x \in mil_run'.heads \cap Plans!Commits
    BY <1>5, <1>6
  <2> QED BY <2>2, <2>3, Zenon DEF Plans!Anchored, Plans!Full
<1>10. Plans!Settled'
  BY <1>1, <1>5 DEF Plans!Settled
<1> QED BY <1>7, <1>8, <1>9, <1>10 DEF Plans!Inv

LEMMA PlansStep == ASSUME Plans!Inv, [Plans!Next]_(Plans!vars) PROVE Plans!Inv'
<1>1. ASSUME UNCHANGED Plans!vars PROVE Plans!Inv'
  <2>1. UNCHANGED <<mil_desk, mil_plan, mil_edits, mil_cut, mil_elements, mil_accept, mil_git, mil_run>>
    BY <1>1 DEF Plans!vars
  <2>2. UNCHANGED <<Plans!CheckBuildPlan, Plans!ProjectPackets, Plans!checkAcceptance, Plans!Closed,
            Plans!Bound>>
    BY <2>1, PlanSame, PacketsSame, ReviewSame
  <2>3. Plans!Shape'
    BY <2>1, PlansShape DEF Plans!Inv, Plans!Shape
  <2>4. Plans!Judged'
    BY <2>1, <2>2 DEF Plans!Inv, Plans!Judged
  <2>5. Plans!Asked'
    BY <2>1, <2>2 DEF Plans!Inv, Plans!Asked, Plans!Anchored, Plans!Full
  <2>6. Plans!Settled'
    BY <2>1, <2>2 DEF Plans!Inv, Plans!Settled, Plans!checkCommitBinding, Plans!commitBinds,
         Plans!gitCommitOf, Plans!gitIsAncestor, Plans!Full
  <2> QED BY <2>3, <2>4, <2>5, <2>6 DEF Plans!Inv
<1> QED BY <1>1, PlansWrite, PlansAcquire, PlansResolve, PlansBind, PlansMove DEF Plans!Next

LEMMA ClosedReviewed == ASSUME Plans!Inv PROVE Plans!ClosedMeansReviewed
<1> SUFFICES ASSUME mil_run.pc = "done", mil_run.ga = {} PROVE Plans!ClosedMeansReviewed
  BY DEF Plans!ClosedMeansReviewed, Plans!Done
<1>1. Plans!checkAcceptance = {} /\ Plans!PlanShaped(mil_plan) /\ mil_run.given \in mil_desk.anchors
  BY DEF Plans!Inv, Plans!Shape, Plans!Judged
<1>2. mil_git.state \in {"repository", "unborn", "outside"} /\ Plans!None \notin Plans!Commits
          /\ Plans!None \notin mil_desk.anchors
  BY PlansAssumption, PlansFinite DEF Plans!Inv, Plans!Shape, Plans!WellFormed, Plans!DeskShaped
<1>3. Plans!Closed # {} \/ mil_run.handoff => Plans!Anchored
  BY DEF Plans!Inv, Plans!Asked
<1>4. mil_run.handoff => mil_run.anchor.commit # Plans!None
  <2> SUFFICES ASSUME mil_run.handoff PROVE mil_run.anchor.commit # Plans!None
    OBVIOUS
  <2>1. Plans!Anchored
    BY <1>3
  <2>2. CASE mil_run.given = "" /\ mil_git.state = "repository"
    BY <1>2, <2>1, <2>2 DEF Plans!Anchored
  <2>3. CASE mil_run.given = "" /\ mil_git.state # "repository"
    BY <2>1, <2>3 DEF Plans!Anchored
  <2>4. CASE mil_run.given # "" /\ mil_git.state = "outside"
    <3>1. mil_run.anchor = [commit |-> mil_run.given, by |-> "exported"]
      BY <2>1, <2>4 DEF Plans!Anchored
    <3> QED BY <1>1, <1>2, <3>1
  <2>5. CASE mil_run.given # "" /\ mil_git.state = "repository"
    BY <2>1, <2>5 DEF Plans!Anchored
  <2>6. CASE mil_run.given # "" /\ mil_git.state = "unborn"
    BY <2>1, <2>6 DEF Plans!Anchored
  <2> QED BY <1>2, <2>2, <2>3, <2>4, <2>5, <2>6
<1>5. ASSUME NEW n \in Plans!Closed
      PROVE  /\ mil_accept[n] # Plans!Missing /\ mil_accept[n].num = n
                    /\ mil_accept[n].verdict = "ACCEPTED" /\ mil_accept[n].attested
             /\ \A r \in Plans!Owed(Plans!BlockOf(n)) :
                    {r.test, r.stable} \cap Plans!Elements(mil_accept[n].dod) # {}
  <2>1. ASSUME NEW r \in Plans!Owed(Plans!BlockOf(n))
                   PROVE {r.test, r.stable} \cap Plans!Elements(mil_accept[n].dod) # {}
    <3>1. r \in mil_plan.rows /\ r.stable # "-" /\ Plans!CitedBy(r, Plans!BlockOf(n).dod)
      BY DEF Plans!Owed
    <3>2. Plans!checkDoDCoverage(Plans!BlockOf(n).dod, mil_accept[n].dod) = {}
      BY <1>1, ReviewAccepts
    <3> QED BY <1>1, <3>1, <3>2, ReviewLists
  <2> QED BY <1>1, <2>1, ReviewAccepts
<1>6. ASSUME NEW n \in Plans!Closed
      PROVE  CASE mil_run.given = "" /\ mil_git.state = "repository" -> \E h \in mil_run.heads :
                 Plans!Full(mil_accept[n].commit) \in PlanHistory[h]
               [] mil_run.given = "" /\ mil_git.state # "repository" -> ~mil_run.handoff
               [] mil_run.given # "" /\ mil_git.state = "repository" -> Plans!Full(mil_accept[n].commit) \in PlanHistory[Plans!Full(mil_run.given)]
               [] OTHER -> Plans!commitBinds(mil_accept[n].commit, mil_run.given)
  <2>1. Plans!Anchored
    BY <1>3
  <2>2. Plans!checkCommitBinding(n, mil_run.anchor) = {}
    <3>1. n \in Plans!Bound
      BY <1>1, ReviewAccepts
    <3> QED BY <3>1 DEF Plans!Inv, Plans!Settled
  <2>3. ASSUME mil_run.anchor.commit # Plans!None, mil_run.anchor.by # "exported"
        PROVE  Plans!Full(mil_accept[n].commit) \in PlanHistory[mil_run.anchor.commit]
    <3> DEFINE c == Plans!gitCommitOf(mil_accept[n].commit)
    <3>1. Plans!If(c = Plans!None \/ ~Plans!gitIsAncestor(c, mil_run.anchor.commit), <<"ancestry", n>>) = {}
      BY <2>2, <2>3, Zenon DEF Plans!checkCommitBinding
    <3>2. c # Plans!None /\ Plans!gitIsAncestor(c, mil_run.anchor.commit)
      BY <3>1, Zenon DEF Plans!If
    <3>3. c = Plans!Full(mil_accept[n].commit)
      BY <3>2, Zenon DEF Plans!gitCommitOf
    <3> QED BY <3>2, <3>3 DEF Plans!gitIsAncestor
  <2>4. CASE mil_run.given = "" /\ mil_git.state = "repository"
    <3>1. mil_run.anchor.by = "git" /\ mil_run.anchor.commit \in mil_run.heads \cap Plans!Commits
      BY <2>1, <2>4 DEF Plans!Anchored
    <3>2. mil_run.anchor.commit # Plans!None /\ mil_run.anchor.by # "exported"
      BY <1>2, <3>1
    <3>3. \E h \in mil_run.heads : Plans!Full(mil_accept[n].commit) \in PlanHistory[h]
      BY <2>3, <3>1, <3>2
    <3> QED BY <2>4, <3>3
  <2>5. CASE mil_run.given = "" /\ mil_git.state # "repository"
    BY <2>1, <2>5 DEF Plans!Anchored
  <2>6. CASE mil_run.given # "" /\ mil_git.state = "repository"
    <3>1. mil_run.anchor.by = "caller" /\ mil_run.anchor.commit = Plans!Full(mil_run.given)
              /\ mil_run.anchor.commit # Plans!None
      BY <2>1, <2>6 DEF Plans!Anchored
    <3>2. Plans!Full(mil_accept[n].commit) \in PlanHistory[Plans!Full(mil_run.given)]
      BY <2>3, <3>1
    <3> QED BY <2>6, <3>2
  <2>7. CASE mil_run.given # "" /\ mil_git.state # "repository"
    <3>1. mil_run.anchor = [commit |-> mil_run.given, by |-> "exported"]
      BY <1>2, <2>1, <2>7 DEF Plans!Anchored
    <3>2. mil_run.anchor.commit = mil_run.given /\ mil_run.anchor.by = "exported"
              /\ mil_run.given # Plans!None
      BY <1>1, <1>2, <3>1
    <3>3. Plans!If(~Plans!commitBinds(mil_accept[n].commit, mil_run.anchor.commit), <<"binding", n>>) = {}
      BY <2>2, <3>2, Zenon DEF Plans!checkCommitBinding
    <3>4. Plans!commitBinds(mil_accept[n].commit, mil_run.given)
      BY <3>2, <3>3, Zenon DEF Plans!If
    <3> QED BY <2>7, <3>4
  <2> QED BY <2>4, <2>5, <2>6, <2>7
<1> QED BY <1>4, <1>5, <1>6, Zenon DEF Plans!ClosedMeansReviewed

LEMMA PlansHold ==
  ASSUME Plans!Inv
  PROVE  /\ Plans!Linked /\ Plans!ThreatsAnswered /\ Plans!NothingDropped /\ Plans!ShardConfined
                /\ Plans!FixturesShared /\ Plans!TemplateFits
         /\ Plans!ClosedMeansReviewed /\ Plans!ThreatsMet
<1>1. Plans!PlanShaped(mil_plan) /\ DOMAIN mil_elements = DOMAIN PlanElements /\ \A i \in DOMAIN mil_cut :
          Plans!Sequential(mil_cut[i].slices)
  BY DEF Plans!Inv, Plans!Shape, Plans!CutShaped
<1>2. IsFiniteSet(mil_plan.rows)
  BY <1>1, PlansAssumption, FS_Subset, PlansFinite DEF Plans!WellFormed, Plans!PlanShaped
<1>3. Plans!Done(mil_run.gw) => Plans!ProjectPackets = {}
  BY DEF Plans!Done, Plans!Inv, Plans!Judged
<1>4. Plans!NothingDropped
  BY <1>1, <1>2, <1>3, PacketsDrop, PlansCardinality DEF Plans!NothingDropped
<1>5. Plans!ShardConfined
  BY <1>1, <1>3, PacketsConfined DEF Plans!ShardConfined
<1>6. Plans!ThreatsMet
  <2>1. Plans!Done(mil_run.ga) /\ mil_run.gb = {} => Plans!checkAcceptance = {} /\ Plans!CheckBuildPlan = {}
    BY DEF Plans!Done, Plans!Inv, Plans!Judged
  <2> QED BY <1>1, <2>1, PlanMeets, Zenon DEF Plans!ThreatsMet
<1> QED BY <1>1, <1>2, <1>4, <1>5, <1>6, PlanLinked, PlanAnswers, PacketsShare, PacketsTemplate,
     ClosedReviewed

----------------------------------------------------------------------------
Closure == INSTANCE RuntimeClosure WITH Langs <- {"go", "ts", "py", "ex", "java"}, MaxWrites <- 3,
  Clocks <- {"fine"}, lang <- clo_lang, clock <- clo_clock, body <- clo_body, ctime <- clo_ctime,
  now <- clo_now, writes <- clo_writes, pc <- clo_pc, prog <- clo_prog, snap <- clo_snap, got <-
  clo_got, rec <- clo_rec, info <- clo_info, sentinel <- clo_sentinel, moved <- clo_moved, seen <-
  clo_seen, calm <- clo_calm, held <- clo_held
Scan == INSTANCE Census WITH HasChange <- TRUE, HasEvents <- TRUE, Limit <- 1, Attempts <- 2, Passes
  <- 1, Marks <- {"clock", "set back", "tick"}, MaxEdits <- 2, Reader <- "scan", tree <- cen_tree,
  todo <- cen_todo, inv <- cen_inv, hand <- cen_hand, watched <- cen_watched, mutated <-
  cen_mutated, found <- cen_found, tries <- cen_tries, copy <- cen_copy, out <- cen_out, stretch <-
  cen_stretch, moved <- cen_moved, blind <- cen_blind, was <- cen_was, edits <- cen_edits
Walked == INSTANCE Census WITH HasChange <- TRUE, HasEvents <- TRUE, Limit <- 2, Attempts <- 2,
  Passes <- 1, Marks <- {"clock", "set back", "tick"}, MaxEdits <- 2, Reader <- "walk", tree <-
  cen_tree, todo <- cen_todo, inv <- cen_inv, hand <- cen_hand, watched <- cen_watched, mutated <-
  cen_mutated, found <- cen_found, tries <- cen_tries, copy <- cen_copy, out <- cen_out, stretch <-
  cen_stretch, moved <- cen_moved, blind <- cen_blind, was <- cen_was, edits <- cen_edits
PluginCache == INSTANCE Census WITH HasChange <- TRUE, HasEvents <- TRUE, Limit <- 1, Attempts <- 2,
  Passes <- 1, Marks <- {"tick"}, MaxEdits <- 2, Reader <- "plugin", tree <- cen_tree, todo <-
  cen_todo, inv <- cen_inv, hand <- cen_hand, watched <- cen_watched, mutated <- cen_mutated, found
  <- cen_found, tries <- cen_tries, copy <- cen_copy, out <- cen_out, stretch <- cen_stretch, moved
  <- cen_moved, blind <- cen_blind, was <- cen_was, edits <- cen_edits
InstallSource == INSTANCE Census WITH HasChange <- TRUE, HasEvents <- TRUE, Limit <- 1, Attempts <-
  2, Passes <- 1, Marks <- {"clock", "set back"}, MaxEdits <- 2, Reader <- "snapshot", tree <-
  cen_tree, todo <- cen_todo, inv <- cen_inv, hand <- cen_hand, watched <- cen_watched, mutated <-
  cen_mutated, found <- cen_found, tries <- cen_tries, copy <- cen_copy, out <- cen_out, stretch <-
  cen_stretch, moved <- cen_moved, blind <- cen_blind, was <- cen_was, edits <- cen_edits
Unstamped == INSTANCE Census WITH HasChange <- FALSE, HasEvents <- FALSE, Limit <- 1, Attempts <- 2,
  Passes <- 1, Marks <- {"clock", "set back"}, MaxEdits <- 2, Reader <- "snapshot", tree <-
  cen_tree, todo <- cen_todo, inv <- cen_inv, hand <- cen_hand, watched <- cen_watched, mutated <-
  cen_mutated, found <- cen_found, tries <- cen_tries, copy <- cen_copy, out <- cen_out, stretch <-
  cen_stretch, moved <- cen_moved, blind <- cen_blind, was <- cen_was, edits <- cen_edits
Reviewed == INSTANCE TreeSnapshot WITH Reader <- "review", Layout <- "apart", DesignNames <- {},
  ImplNames <- {"c", "x"}, Loose <- {"x"}, Odd <- {}, Kinds <- {"write", "toggle"}, MaxEdits <- 2,
  tree <- tre_tree, shadow <- tre_shadow, todo <- tre_todo, walk <- tre_walk, kept <- tre_kept, wit
  <- tre_wit, priv <- tre_priv, pending <- tre_pending, err <- tre_err, out <- tre_out, seen <-
  tre_seen, touched <- tre_touched, blind <- tre_blind, edits <- tre_edits
ReviewedInside == INSTANCE TreeSnapshot WITH Reader <- "review", Layout <- "inside", DesignNames <-
  {"f"}, ImplNames <- {"c", ".git", "x"}, Loose <- {"x"}, Odd <- {"link", "alias", "dir"}, Kinds <-
  {"write", "replace", "chmod", "toggle", "usurp"}, MaxEdits <- 1, tree <- tre_tree, shadow <-
  tre_shadow, todo <- tre_todo, walk <- tre_walk, kept <- tre_kept, wit <- tre_wit, priv <-
  tre_priv, pending <- tre_pending, err <- tre_err, out <- tre_out, seen <- tre_seen, touched <-
  tre_touched, blind <- tre_blind, edits <- tre_edits
Checked == INSTANCE TreeSnapshot WITH Reader <- "checks", Layout <- "apart", DesignNames <- {"f"},
  ImplNames <- {"c"}, Loose <- {}, Odd <- {}, Kinds <- {"write", "replace"}, MaxEdits <- 2, tree <-
  tre_tree, shadow <- tre_shadow, todo <- tre_todo, walk <- tre_walk, kept <- tre_kept, wit <-
  tre_wit, priv <- tre_priv, pending <- tre_pending, err <- tre_err, out <- tre_out, seen <-
  tre_seen, touched <- tre_touched, blind <- tre_blind, edits <- tre_edits
CheckedAround == INSTANCE TreeSnapshot WITH Reader <- "checks", Layout <- "around", DesignNames <-
  {"f"}, ImplNames <- {"c", "C", "x"}, Loose <- {"x", "C"}, Odd <- {"link"}, Kinds <- {"write",
  "replace", "chmod", "toggle", "usurp"}, MaxEdits <- 1, tree <- tre_tree, shadow <- tre_shadow,
  todo <- tre_todo, walk <- tre_walk, kept <- tre_kept, wit <- tre_wit, priv <- tre_priv, pending <-
  tre_pending, err <- tre_err, out <- tre_out, seen <- tre_seen, touched <- tre_touched, blind <-
  tre_blind, edits <- tre_edits
HookHeld == INSTANCE TreeSnapshot WITH Reader <- "hook", Layout <- "apart", DesignNames <- {"g",
  "x"}, ImplNames <- {}, Loose <- {"x"}, Odd <- {}, Kinds <- {"write", "toggle"}, MaxEdits <- 2,
  tree <- tre_tree, shadow <- tre_shadow, todo <- tre_todo, walk <- tre_walk, kept <- tre_kept, wit
  <- tre_wit, priv <- tre_priv, pending <- tre_pending, err <- tre_err, out <- tre_out, seen <-
  tre_seen, touched <- tre_touched, blind <- tre_blind, edits <- tre_edits
InputFile == INSTANCE TreeSnapshot WITH Reader <- "input", Layout <- "apart", DesignNames <- {},
  ImplNames <- {"c"}, Loose <- {"c"}, Odd <- {}, Kinds <- {"write", "replace", "chmod", "toggle"},
  MaxEdits <- 2, tree <- tre_tree, shadow <- tre_shadow, todo <- tre_todo, walk <- tre_walk, kept <-
  tre_kept, wit <- tre_wit, priv <- tre_priv, pending <- tre_pending, err <- tre_err, out <-
  tre_out, seen <- tre_seen, touched <- tre_touched, blind <- tre_blind, edits <- tre_edits
Workspace == INSTANCE TreeSnapshot WITH Reader <- "workspace", Layout <- "around", DesignNames <-
  {"f"}, ImplNames <- {"c"}, Loose <- {}, Odd <- {}, Kinds <- {"write", "replace", "chmod"},
  MaxEdits <- 1, tree <- tre_tree, shadow <- tre_shadow, todo <- tre_todo, walk <- tre_walk, kept <-
  tre_kept, wit <- tre_wit, priv <- tre_priv, pending <- tre_pending, err <- tre_err, out <-
  tre_out, seen <- tre_seen, touched <- tre_touched, blind <- tre_blind, edits <- tre_edits

Components == {"adapters", "launcher", "declarations", "calibration", "plans", "closure", "scan", "walk", "plugin cache", "install source", "install source unstamped", "review", "review inside", "checks", "checks around", "hook snapshot", "input file", "workspace"}
ASSUME ActiveAssumption == Active \subseteq Components

Init == /\ which \in Active
        /\ (IF which = "adapters" THEN Adapters!Init ELSE adpIdle)
        /\ (IF which = "launcher" THEN Runtime!Init ELSE IF which = "closure" THEN Closure!Init ELSE cloIdle)
        /\ (IF which = "declarations" THEN Declared!Init ELSE dclIdle)
        /\ (IF which = "calibration" THEN Calibrated!Init ELSE calIdle)
        /\ (IF which = "plans" THEN Plans!Init ELSE milIdle)
        /\ (IF which = "scan" THEN Scan!Init ELSE IF which = "walk" THEN Walked!Init ELSE IF which = "plugin cache" THEN PluginCache!Init ELSE IF which = "install source" THEN InstallSource!Init ELSE IF which = "install source unstamped" THEN Unstamped!Init ELSE cenIdle)
        /\ (IF which = "review" THEN Reviewed!Init ELSE IF which = "review inside" THEN ReviewedInside!Init ELSE IF which = "checks" THEN Checked!Init ELSE IF which = "checks around" THEN CheckedAround!Init ELSE IF which = "hook snapshot" THEN HookHeld!Init ELSE IF which = "input file" THEN InputFile!Init ELSE IF which = "workspace" THEN Workspace!Init ELSE treIdle)
Next ==
  \/ which = "adapters" /\ Adapters!Next /\ UNCHANGED adpRest
  \/ which = "launcher" /\ Runtime!Next /\ UNCHANGED cloRest
  \/ which = "declarations" /\ Declared!Next /\ UNCHANGED dclRest
  \/ which = "calibration" /\ Calibrated!Next /\ UNCHANGED calRest
  \/ which = "plans" /\ Plans!Next /\ UNCHANGED milRest
  \/ which = "closure" /\ Closure!Next /\ UNCHANGED cloRest
  \/ which = "scan" /\ Scan!Next /\ UNCHANGED cenRest
  \/ which = "walk" /\ Walked!Next /\ UNCHANGED cenRest
  \/ which = "plugin cache" /\ PluginCache!Next /\ UNCHANGED cenRest
  \/ which = "install source" /\ InstallSource!Next /\ UNCHANGED cenRest
  \/ which = "install source unstamped" /\ Unstamped!Next /\ UNCHANGED cenRest
  \/ which = "review" /\ Reviewed!Next /\ UNCHANGED treRest
  \/ which = "review inside" /\ ReviewedInside!Next /\ UNCHANGED treRest
  \/ which = "checks" /\ Checked!Next /\ UNCHANGED treRest
  \/ which = "checks around" /\ CheckedAround!Next /\ UNCHANGED treRest
  \/ which = "hook snapshot" /\ HookHeld!Next /\ UNCHANGED treRest
  \/ which = "input file" /\ InputFile!Next /\ UNCHANGED treRest
  \/ which = "workspace" /\ Workspace!Next /\ UNCHANGED treRest
Spec == Init /\ [][Next]_vars

----------------------------------------------------------------------------
(* Properties: what the components promise, each in its own terms.          *)

\* What Validate accepts was reviewed as it is, leaves no obligation unowned,
\* answers every runtime category, can be put in an order, and would notice the
\* defects it names: every negative test is sensitive, every challenge fails
\* its targets only, every baseline failure is calibrated.  An accepted build
\* plan links its packets, drops no obligation and answers every threat, and a
\* closed milestone was reviewed at a commit of the history that is checked.
AcceptedDocumentsHold ==
  /\ which = "declarations" =>
       Declared!ReviewedAsIs /\ Declared!NothingUnowned /\ Declared!Answerable /\ Declared!Orderable
  /\ which = "calibration" =>
       Calibrated!Sensitive /\ Calibrated!OnlyTargets /\ Calibrated!Calibrated /\ Calibrated!PassesWhole
  /\ which = "plans" =>
       Plans!Linked /\ Plans!ThreatsAnswered /\ Plans!NothingDropped /\ Plans!ShardConfined /\ Plans!FixturesShared
       /\ Plans!TemplateFits /\ Plans!ClosedMeansReviewed /\ Plans!ThreatsMet

\* What a report that an adapter accepts says of the run.  A pass: every test
\* passed and every registered assertion held; not so for TypeScript if a test
\* caught what the helper threw (typescript.go:1204).  A failure: a registered
\* assertion was false, all were evaluated, and nothing else made a test fail; a
\* panic in Go counts as such a failure (go.go:902), although the contract makes it
\* an ERROR (docs/test-assurance-contract.md:268, 282), and nothing is said of a
\* run in which a test caught a helper failure.  The captured sources ran: of Go
\* and Elixir only (typescript.go:498, python.go:284).  The process ran to its
\* end: not of a TypeScript failure (typescript.go:587).  No witness was printed
\* into the output of another test.  And a run in which nothing went wrong but
\* registered assertions is not refused.
ReportsTrue ==
  which = "adapters" => /\ Adapters!PassMeansPassed /\ Adapters!FailMeansAsserted /\ Adapters!FrozenRan
                        /\ Adapters!EndedWell /\ Adapters!WitnessesOwn /\ Adapters!Undisturbed

\* What readers of unlocked trees promise, as far as they do.  Runtimes: a drift
\* that is there when a handle is closed is reported (on a coarse clock not by
\* TypeScript and Python, whose launcher is not read again: typescript.go:368,
\* python.go:249); on a fine clock a Java, TypeScript or Python handle held one
\* launcher, and Java hashed its tree at one instant, which the others do not
\* (elixir.go:544, typescript.go:520).  Directories, plugin caches and install
\* sources: what was accepted stood as it was read, except for edits that
\* neither a time nor an event of the platform shows (install.go:1248).  Designs
\* are held as they stood at one instant, and a verdict on copies or a current
\* review counts only if the originals still stood when the release began.
ReadAsItStood ==
  /\ which = "closure" => Closure!JavaInstant /\ Closure!LauncherHeld /\ Closure!DriftSeen
  /\ which = "launcher" => Runtime!DriftSeen
  /\ which = "scan" => Scan!StoodThroughout /\ Scan!ScanExact
  /\ which = "walk" => Walked!StoodThroughout /\ Walked!ScanExact
  /\ which = "plugin cache" => PluginCache!StoodThroughout /\ PluginCache!PluginWhole
  /\ which = "install source" => InstallSource!StoodThroughout /\ InstallSource!CopyTrue
  /\ which = "install source unstamped" => Unstamped!StoodThroughout /\ Unstamped!CopyTrue
  /\ which = "review" => Reviewed!HeldAtOneInstant /\ Reviewed!ReviewStood
  /\ which = "review inside" => ReviewedInside!HeldAtOneInstant /\ ReviewedInside!ReviewStood /\ ReviewedInside!TheirsKept
  /\ which = "checks" => Checked!HeldAtOneInstant /\ Checked!CopiesStood
  /\ which = "checks around" => CheckedAround!HeldAtOneInstant /\ CheckedAround!CopiesStood /\ CheckedAround!TheirsKept
  /\ which = "hook snapshot" => HookHeld!HeldAtOneInstant
  /\ which = "input file" => InputFile!HeldAtOneInstant /\ InputFile!CopiesStood
  /\ which = "workspace" => Workspace!HeldAtOneInstant /\ Workspace!CopiesStood

\* A launcher is retained only with the bytes in place at the last look at it:
\* on a fine clock when its metadata is compared, and on either clock when the
\* sentinel is asked.  Nothing is said on a coarse clock of a launcher that is not
\* watched, which Java allows if the watch cannot be set (java.go:374-383, 405).
LauncherSettled == [][which = "launcher" => Runtime!LauncherSettled]_vars

----------------------------------------------------------------------------
(* Proofs, for every value of the constants.  What moves in a behaviour of   *)
(* the suite is one component, so a promise needs an invariant of its        *)
(* component only.                                                           *)

AdaptersInv == which = "adapters" => Adapters!Inv

\* The reports of the adapters say of the run what ReportsTrue lists, language by
\* language, in every behaviour of the suite, for any tests, assertions, nesting
\* and faults (Run of the adapters).
THEOREM ReportsAreTrue == Spec => []ReportsTrue
<1>1. Init => AdaptersInv
  BY AdapterAssumption, AdaptersInit DEF Init, AdaptersInv
<1>2. AdaptersInv /\ [Next]_vars => AdaptersInv'
  <2> SUFFICES ASSUME AdaptersInv, [Next]_vars, which' = "adapters"
               PROVE  Adapters!Inv'
    BY DEF AdaptersInv
  <2>1. which = "adapters" /\ [Adapters!Next]_(Adapters!vars)
    <3>1. CASE Next
      BY <3>1 DEF Next, dclRest, calRest, adpRest, cloRest, cenRest, milRest, treRest
    <3>2. CASE UNCHANGED vars
      BY <3>2 DEF vars, adp, Adapters!vars
    <3> QED BY <3>1, <3>2
  <2> QED BY <2>1, AdaptersStep DEF AdaptersInv
<1>3. AdaptersInv => ReportsTrue
  BY RecordsTrue DEF AdaptersInv, ReportsTrue
<1> QED BY <1>1, <1>2, <1>3, PTL DEF Spec

ClosureInv == which = "launcher" => Runtime!SettledInv

\* A retained launcher has the bytes in place at the last look at it, in every
\* behaviour of the suite: if the look is at a sentinel on either clock, and if it
\* is at the metadata on a fine clock, for any runtime and any number of writes
\* (openJavaLauncher, openTypeScriptBinary).
THEOREM LauncherSettles == Spec => LauncherSettled
<1>1. Init => ClosureInv
  BY LauncherAssumption, SettledInit DEF Init, ClosureInv
<1>2. ClosureInv /\ [Next]_vars => ClosureInv' /\ [which = "launcher" => Runtime!LauncherSettled]_vars
  <2> SUFFICES ASSUME ClosureInv, [Next]_vars
               PROVE  which = which' /\ (which = "launcher" =>
                        Runtime!SettledInv' /\ Runtime!LauncherSettled)
    BY DEF ClosureInv
  <2>1. which' = which /\ (which = "launcher" => [Runtime!Next]_(Runtime!vars))
    <3>1. CASE Next
      BY <3>1 DEF Next, dclRest, calRest, adpRest, cloRest, cenRest, milRest, treRest
    <3>2. CASE UNCHANGED vars
      BY <3>2 DEF vars, clo, Runtime!vars
    <3> QED BY <3>1, <3>2
  <2> QED BY <2>1, SettledNext DEF ClosureInv
<1> QED BY <1>1, <1>2, PTL DEF Spec, LauncherSettled

DocumentsInv == /\ which = "declarations" => Declared!Inv
                /\ which = "calibration" => Calibrated!Inv
                /\ which = "plans" => Plans!Inv

\* Accepted declarations, calibrations and plans hold in every behaviour of the
\* suite, for any manifests, tests, rows, documents and edits, however often
\* and in whatever order they are edited, reviewed and accepted, and however
\* the history moves under the gate (Validate, CheckBuildPlan, ProjectPackets,
\* checkAcceptance).
THEOREM AcceptedDocuments == Spec => []AcceptedDocumentsHold
<1>1. Init => DocumentsInv
  BY DeclaredInit, CalibratedInit, PlansInit DEF Init, DocumentsInv
<1>2. DocumentsInv /\ [Next]_vars => DocumentsInv'
  <2> SUFFICES ASSUME DocumentsInv, [Next]_vars
               PROVE  DocumentsInv'
    OBVIOUS
  <2>1. /\ which' = which
        /\ which = "declarations" => [Declared!Next]_(Declared!vars)
        /\ which = "calibration" => [Calibrated!Next]_(Calibrated!vars)
        /\ which = "plans" => [Plans!Next]_(Plans!vars)
    <3>1. CASE Next
      BY <3>1 DEF Next, dclRest, calRest, adpRest, cloRest, cenRest, milRest, treRest
    <3>2. CASE UNCHANGED vars
      BY <3>2 DEF vars, dcl, cal, mil, Declared!vars, Calibrated!vars, Plans!vars
    <3> QED BY <3>1, <3>2
  <2>2. which = "declarations" => Declared!Inv'
    BY <2>1, DeclaredStep DEF DocumentsInv
  <2>3. which = "calibration" => Calibrated!Inv'
    BY <2>1, CalibratedStep DEF DocumentsInv
  <2>4. which = "plans" => Plans!Inv'
    BY <2>1, PlansStep DEF DocumentsInv
  <2> QED BY <2>1, <2>2, <2>3, <2>4 DEF DocumentsInv
<1>3. DocumentsInv => AcceptedDocumentsHold
  <2> SUFFICES ASSUME DocumentsInv PROVE AcceptedDocumentsHold
    OBVIOUS
  <2>1. which = "declarations" =>
          Declared!ReviewedAsIs /\ Declared!NothingUnowned /\ Declared!Answerable /\ Declared!Orderable
    BY DeclaredReviewed, DeclaredOwned, DeclaredOrder DEF DocumentsInv
  <2>2. which = "calibration" =>
          Calibrated!Sensitive /\ Calibrated!OnlyTargets /\ Calibrated!Calibrated /\ Calibrated!PassesWhole
    BY CalibratedSensitive, CalibratedTargets, CalibratedFailures, CalibratedWhole DEF DocumentsInv
  <2>3. which = "plans" =>
          /\ Plans!Linked /\ Plans!ThreatsAnswered /\ Plans!NothingDropped /\ Plans!ShardConfined
          /\ Plans!FixturesShared /\ Plans!TemplateFits /\ Plans!ClosedMeansReviewed /\ Plans!ThreatsMet
    BY PlansHold DEF DocumentsInv
  <2> QED BY <2>1, <2>2, <2>3 DEF AcceptedDocumentsHold
<1> QED BY <1>1, <1>2, <1>3, PTL DEF Spec
=============================================================================
