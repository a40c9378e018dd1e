-------------------------------- MODULE Gates --------------------------------
(* The gates side by side: which gates a design meets, the machines they      *)
(* accept, the debt they may tolerate, and the rules they evaluate.  A        *)
(* behaviour of the suite moves one component, `which'.                       *)
EXTENDS Integers, FiniteSets, Sequences, FiniteSetTheorems, SequenceTheorems, TLAPS

CONSTANTS Active,      \* the components that this run exercises
          AuthorEdits,   \* how many edits an author makes before the lint runs
          ReviewClaims, ReviewPaths, ReviewEntries, ReviewInside,  \* see Attestation
          ReviewEdits, ReviewRows,
          RuleSymbols, RuleNumbers, RuleDecls, RuleInputs, RulePool, RuleFacts,  \* see Datalog
          RuleLimit, TupleLimit, RoundLimit

VARIABLE which       \* the component that moves in this behaviour
VARIABLES dat_chosen, dat_facts, dat_pc, dat_rels, dat_strata, dat_si, dat_prev, dat_cur, dat_fires,
  dat_total, dat_iters, dat_prov
VARIABLES sel_artifacts, sel_impl, sel_staged, sel_changes
VARIABLES rat_files, rat_rule, rat_findings, rat_omitted, rat_limit, rat_tokens, rat_open, rat_def,
  rat_ledgerOK, rat_ratchet, rat_granted, rat_edits, rat_runs
VARIABLES lint_hand, lint_invokes, lint_ignores, lint_refusal, lint_exhaustive, lint_tags,
  lint_delay, lint_law, lint_matrix, lint_edits, lint_pc, lint_at, lint_idle, lint_spins,
  lint_loose, lint_last
VARIABLES att_design, att_impl, att_version, att_rows, att_writes, att_edits, att_clean, att_held,
  att_result

\* The variables of the components, and a component that does not move.
dat == <<dat_chosen, dat_facts, dat_pc, dat_rels, dat_strata, dat_si, dat_prev, dat_cur, dat_fires,
  dat_total, dat_iters, dat_prov>>
sel == <<sel_artifacts, sel_impl, sel_staged, sel_changes>>
rat == <<rat_files, rat_rule, rat_findings, rat_omitted, rat_limit, rat_tokens, rat_open, rat_def,
  rat_ledgerOK, rat_ratchet, rat_granted, rat_edits, rat_runs>>
lint == <<lint_hand, lint_invokes, lint_ignores, lint_refusal, lint_exhaustive, lint_tags,
  lint_delay, lint_law, lint_matrix, lint_edits, lint_pc, lint_at, lint_idle, lint_spins,
  lint_loose, lint_last>>
att == <<att_design, att_impl, att_version, att_rows, att_writes, att_edits, att_clean, att_held,
  att_result>>
Idle == 0
datIdle == dat_chosen = Idle /\ dat_facts = Idle /\ dat_pc = Idle /\ dat_rels = Idle /\ dat_strata =
  Idle /\ dat_si = Idle /\ dat_prev = Idle /\ dat_cur = Idle /\ dat_fires = Idle /\ dat_total = Idle
  /\ dat_iters = Idle /\ dat_prov = Idle
selIdle == sel_artifacts = Idle /\ sel_impl = Idle /\ sel_staged = Idle /\ sel_changes = Idle
ratIdle == rat_files = Idle /\ rat_rule = Idle /\ rat_findings = Idle /\ rat_omitted = Idle /\
  rat_limit = Idle /\ rat_tokens = Idle /\ rat_open = Idle /\ rat_def = Idle /\ rat_ledgerOK = Idle
  /\ rat_ratchet = Idle /\ rat_granted = Idle /\ rat_edits = Idle /\ rat_runs = Idle
lintIdle == lint_hand = Idle /\ lint_invokes = Idle /\ lint_ignores = Idle /\ lint_refusal = Idle /\
  lint_exhaustive = Idle /\ lint_tags = Idle /\ lint_delay = Idle /\ lint_law = Idle /\ lint_matrix
  = Idle /\ lint_edits = Idle /\ lint_pc = Idle /\ lint_at = Idle /\ lint_idle = Idle /\ lint_spins
  = Idle /\ lint_loose = Idle /\ lint_last = Idle
attIdle == att_design = Idle /\ att_impl = Idle /\ att_version = Idle /\ att_rows = Idle /\
  att_writes = Idle /\ att_edits = Idle /\ att_clean = Idle /\ att_held = Idle /\ att_result = Idle
vars == <<which, dat, sel, rat, lint, att>>

\* What stays as it is while a component moves.
datRest == <<which, sel, rat, lint, att>>
selRest == <<which, dat, rat, lint, att>>
ratRest == <<which, dat, sel, lint, att>>
lintRest == <<which, dat, sel, rat, att>>
attRest == <<which, dat, sel, rat, lint>>

\* A design that is ready for its handoff.
Finished == {"modelith", "dsl", "contract", "machines", "build", "closed", "attestations",
             "humanActions", "targetSurfaces"}

\* A pool of rules with recursion through two atoms, mutual recursion, negation
\* and aggregates, and rules that the compiler must refuse.
V(x) == [kind |-> "var", text |-> x]
C(x) == [kind |-> "const", text |-> x]
W == [kind |-> "wild", text |-> ""]
Atom(rel, args) == [rel |-> rel, args |-> args]
Not(rel, args) == [kind |-> "neg", rel |-> rel, args |-> args]
Differ(a, b) == [kind |-> "cmp", neq |-> TRUE, args |-> <<a, b>>]
Count(n, atoms, filters) == [agg |-> "count", result |-> n, target |-> "", atoms |-> atoms, filters |-> filters]
Least(n, m, atoms) == [agg |-> "min", result |-> n, target |-> m, atoms |-> atoms, filters |-> {}]
Rule(rel, args, atoms, aggs, filters) == [rel |-> rel, args |-> args, atoms |-> atoms, aggs |-> aggs, filters |-> filters]
X == V("X")
Y == V("Y")
Z == V("Z")
N == V("N")

PathDecls == [edge |-> <<"symbol", "symbol">>, stop |-> <<"symbol">>, path |-> <<"symbol", "symbol">>,
              hop |-> <<"symbol", "symbol">>, safe |-> <<"symbol", "symbol">>, deg |-> <<"symbol", "number">>, low |-> <<"number">>]
PathRules == <<
    Rule("path", <<X, Y>>, <<Atom("edge", <<X, Y>>)>>, {}, {}),
    Rule("path", <<X, Z>>, <<Atom("path", <<X, Y>>), Atom("path", <<Y, Z>>)>>, {}, {}),
    Rule("safe", <<X, Y>>, <<Atom("path", <<X, Y>>)>>, {}, {Not("stop", <<Y>>)}),
    Rule("stop", <<X>>, <<Atom("edge", <<X, X>>)>>, {}, {}),
    Rule("deg", <<X, N>>, <<Atom("edge", <<X, W>>)>>, {Count("N", <<Atom("path", <<X, Y>>)>>, {Differ(X, Y)})}, {}),
    Rule("low", <<N>>, <<>>, {Least("N", "M", <<Atom("deg", <<W, V("M")>>)>>)}, {}),
    Rule("hop", <<X, Z>>, <<Atom("path", <<X, Y>>), Atom("edge", <<Y, Z>>)>>, {}, {}),
    Rule("path", <<X, Y>>, <<Atom("hop", <<Y, X>>)>>, {}, {}),
    Rule("stop", <<X>>, <<Atom("path", <<X, W>>)>>, {}, {Not("safe", <<X, X>>)}),
    Rule("path", <<C("a"), Y>>, <<Atom("edge", <<Y, W>>), Atom("deg", <<Y, N>>)>>, {Count("N", <<Atom("edge", <<Y, W>>)>>, {})}, {}),
    Rule("safe", <<X, Z>>, <<Atom("edge", <<X, Y>>)>>, {}, {}),
    Rule("safe", <<X, X>>, <<Atom("edge", <<X, W>>)>>, {}, {Not("stop", <<Z>>)}),
    Rule("safe", <<X, N>>, <<Atom("deg", <<X, N>>)>>, {}, {})>>
Facts(E, S) == [edge |-> E, stop |-> S]
PathFacts == {Facts({<<"a", "b">>, <<"b", "c">>}, {<<"c">>}), Facts({<<"a", "b">>, <<"b", "a">>, <<"c", "c">>}, {}),
              Facts({<<"b", "b">>}, {<<"b">>})}
\* The rules to evaluate, in source order.
Rulebook == RulePool

\* The components, with the bounds of this suite.
Rules == INSTANCE Datalog WITH Symbols <- RuleSymbols, MaxNumber <- RuleNumbers, Decls <- RuleDecls,
  Inputs <- RuleInputs, Pool <- Rulebook, FactSets <- RuleFacts, MaxRules <- RuleLimit, MaxTuples <-
  TupleLimit, MaxIterations <- RoundLimit, chosen <- dat_chosen, facts <- dat_facts, pc <- dat_pc,
  rels <- dat_rels, strata <- dat_strata, si <- dat_si, prev <- dat_prev, cur <- dat_cur, fires <-
  dat_fires, total <- dat_total, iters <- dat_iters, prov <- dat_prov

ASSUME RulesAssumption == Rules!WellFormed

(* The rule engine: for every set of rules, declarations and facts, what it  *)
(* computes is the perfect model.                                            *)

\* The instance counts as this module does.
LEMMA RulesFinite == \A S : Rules!IsFiniteSet(S) <=> IsFiniteSet(S)
BY DEF Rules!IsFiniteSet, IsFiniteSet

LEMMA RulesCardinality == \A S : Rules!Cardinality(S) = Cardinality(S)
BY DEF Rules!Cardinality, Cardinality

\* A function set over finite sets is finite: a function is its graph.
LEMMA FinitelyManyFunctions ==
  ASSUME NEW A, NEW B, IsFiniteSet(A), IsFiniteSet(B)
  PROVE  IsFiniteSet([A -> B])
<1> DEFINE graph == [f \in [A -> B] |-> {<<a, f[a]>> : a \in A}]
<1>1. IsFiniteSet(SUBSET (A \X B))
  BY FS_Product, FS_SUBSET
<1>2. \A f \in [A -> B] : graph[f] \in SUBSET (A \X B)
  OBVIOUS
<1>3. ASSUME NEW f \in [A -> B], NEW g \in [A -> B], graph[f] = graph[g] PROVE f = g
  <2>1. ASSUME NEW a \in A PROVE f[a] = g[a]
    <3>1. <<a, f[a]>> \in graph[f]
      OBVIOUS
    <3>2. <<a, f[a]>> \in {<<b, g[b]>> : b \in A}
      BY <3>1, <1>3
    <3> QED BY <3>2
  <2> QED BY <2>1
<1>4. graph \in Injection([A -> B], SUBSET (A \X B))
  <2>1. graph \in [[A -> B] -> SUBSET (A \X B)]
    BY <1>2
  <2>2. \A f, g \in [A -> B] : graph[f] = graph[g] => f = g
    BY <1>3
  <2> HIDE DEF graph
  <2> QED BY <2>1, <2>2 DEF Injection, IsInjective
<1> QED BY <1>1, <1>4, FS_Injection

LEMMA FiniteImage ==
  ASSUME NEW S, IsFiniteSet(S), NEW T, NEW f, DOMAIN f = S, T = {f[x] : x \in S}, f = [x \in S |-> f[x]]
  PROVE  IsFiniteSet(T)
<1>1. f \in [S -> T]
  OBVIOUS
<1>2. f \in Surjection(S, T)
  BY <1>1 DEF Surjection
<1> QED BY <1>2, FS_Surjection

LEMMA RulePicks ==
  ASSUME NEW atoms, NEW ranges, NEW m
  PROVE  m \in Rules!Picks(atoms, ranges) <=>
           /\ m = [k \in DOMAIN atoms |-> m[k]]
           /\ \A k \in DOMAIN atoms : m[k] \in ranges[k]
<1>1. ASSUME m \in Rules!Picks(atoms, ranges) 
      PROVE m = [k \in DOMAIN atoms |-> m[k]] /\ \A k \in DOMAIN atoms : m[k] \in ranges[k]
  BY <1>1 DEF Rules!Picks
<1>2. ASSUME m = [k \in DOMAIN atoms |-> m[k]], \A k \in DOMAIN atoms : m[k] \in ranges[k]
      PROVE m \in Rules!Picks(atoms, ranges)
  <2>1. \A k \in DOMAIN atoms : m[k] \in UNION {ranges[j] : j \in DOMAIN atoms}
    BY <1>2
  <2> DEFINE U == UNION {ranges[j] : j \in DOMAIN atoms}
  <2>2. m \in [DOMAIN atoms -> U]
    <3> HIDE DEF U
    <3>1. \A k \in DOMAIN atoms : m[k] \in U
      BY <2>1 DEF U
    <3> QED BY <3>1, <1>2
  <2> QED BY <2>2, <1>2 DEF Rules!Picks
<1> QED BY <1>1, <1>2

\* What a rule fires on one pick depends on the relations it negates or aggregates only.
LEMMA RuleFilters ==
  ASSUME NEW fs, NEW b, NEW R, NEW Q, \A l \in fs : l.kind = "neg" => R[l.rel] = Q[l.rel]
  PROVE  Rules!filtersPass(fs, b, R) <=> Rules!filtersPass(fs, b, Q)
BY DEF Rules!filtersPass

LEMMA RuleAggregates ==
  ASSUME NEW r, NEW l, NEW b, NEW R, NEW Q,
         \A x \in Rules!ReadsPos(l) \cup Rules!ReadsNeg(l) : R[x] = Q[x]
  PROVE  Rules!Aggregate(r, l, b, R) = Rules!Aggregate(r, l, b, Q)
<1>1. Rules!Whole(l, R) = Rules!Whole(l, Q)
  BY DEF Rules!Whole, Rules!ReadsPos
<1>2. \A f \in l.filters : f.kind = "neg" => R[f.rel] = Q[f.rel]
  BY DEF Rules!ReadsNeg
<1>3. \A c : Rules!filtersPass(l.filters, c, R) <=> Rules!filtersPass(l.filters, c, Q)
  BY <1>2, RuleFilters
<1>4. Rules!MatchesOf(r, l, b, R) = Rules!MatchesOf(r, l, b, Q)
  BY <1>1, <1>3 DEF Rules!MatchesOf
<1> QED BY <1>4 DEF Rules!Aggregate

LEMMA RuleFiringLocal ==
  ASSUME NEW r, NEW m, NEW R, NEW Q,
         \A x \in Rules!ReadsNeg(r) \cup Rules!ReadsAgg(r) : R[x] = Q[x]
  PROVE  Rules!Firing(r, m, R) = Rules!Firing(r, m, Q)
<1>1. \A f \in r.filters : f.kind = "neg" => R[f.rel] = Q[f.rel]
  BY DEF Rules!ReadsNeg
<1>2. \A c : Rules!filtersPass(r.filters, c, R) <=> Rules!filtersPass(r.filters, c, Q)
  BY <1>1, RuleFilters
<1>3. \A l \in r.aggs : \A x \in Rules!ReadsPos(l) \cup Rules!ReadsNeg(l) : R[x] = Q[x]
  BY DEF Rules!ReadsAgg
<1>4. \A l \in r.aggs : \A c : Rules!Aggregate(r, l, c, R) = Rules!Aggregate(r, l, c, Q)
  BY <1>3, RuleAggregates
<1> QED BY <1>2, <1>4 DEF Rules!Firing

\* Everything an accepted rule reads is declared.
LEMMA RuleReads ==
  ASSUME NEW r, Rules!rule(r)
  PROVE  /\ Rules!ReadsPos(r) \cup Rules!ReadsNeg(r) \cup Rules!ReadsAgg(r) \subseteq Rules!Rels
         /\ r.rel \in Rules!Rels
<1>1. r.rel \in Rules!Rels
  BY DEF Rules!rule, Rules!ruleHead, Rules!decl
<1>2. Rules!ReadsPos(r) \subseteq Rules!Rels
  BY DEF Rules!rule, Rules!positiveAtom, Rules!decl, Rules!ReadsPos
<1>3. \A f, B, T : Rules!filterLit(f, B, T) /\ f.kind = "neg" => f.rel \in Rules!Rels
  BY DEF Rules!filterLit, Rules!decl
<1>4. Rules!ReadsNeg(r) \subseteq Rules!Rels
  <2>1. ASSUME NEW f \in r.filters, f.kind = "neg" PROVE f.rel \in Rules!Rels
    BY <2>1, <1>3 DEF Rules!rule
  <2> QED BY <2>1 DEF Rules!ReadsNeg
<1>5. ASSUME NEW l \in r.aggs PROVE Rules!ReadsPos(l) \cup Rules!ReadsNeg(l) \subseteq Rules!Rels
  <2>1. Rules!aggregate(r, l)
    BY DEF Rules!rule
  <2>2. Rules!ReadsPos(l) \subseteq Rules!Rels
    BY <2>1 DEF Rules!aggregate, Rules!positiveAtom, Rules!decl, Rules!ReadsPos
  <2>3. ASSUME NEW f \in l.filters, f.kind = "neg" PROVE f.rel \in Rules!Rels
    BY <2>1, <2>3, <1>3 DEF Rules!aggregate
  <2>4. Rules!ReadsNeg(l) \subseteq Rules!Rels
    BY <2>3 DEF Rules!ReadsNeg
  <2> QED BY <2>2, <2>4
<1>6. Rules!ReadsAgg(r) \subseteq Rules!Rels
  BY <1>5 DEF Rules!ReadsAgg
<1> QED BY <1>1, <1>2, <1>4, <1>6

\* What an atom reads leads to its rule's relation, and every relation to itself.
LEMMA RuleReach ==
  /\ \A i \in dat_chosen : \A a \in Rules!ReadsPos(Rulebook[i]) \cup Rules!ReadsNeg(Rulebook[i]) \cup Rules!ReadsAgg(Rulebook[i]) :
       i \in DOMAIN Rulebook /\ Rules!rule(Rulebook[i]) => <<a, Rulebook[i].rel>> \in Rules!Reaches
  /\ \A x \in Rules!Rels : <<x, x>> \in Rules!Reaches
<1>1. ASSUME NEW x \in Rules!Rels PROVE <<x, x>> \in Rules!Reaches
  BY DEF Rules!Reaches
<1>2. ASSUME NEW i \in dat_chosen, i \in DOMAIN Rulebook, Rules!rule(Rulebook[i]),
             NEW a \in Rules!ReadsPos(Rulebook[i]) \cup Rules!ReadsNeg(Rulebook[i]) \cup Rules!ReadsAgg(Rulebook[i])
      PROVE  <<a, Rulebook[i].rel>> \in Rules!Reaches
  <2>1. a \in Rules!Reads[i]
    BY <1>2 DEF Rules!Reads, Rules!Strict
  <2>2. <<a, Rulebook[i].rel>> \in Rules!Edges
    BY <2>1 DEF Rules!Edges
  <2>3. a \in Rules!Rels /\ Rulebook[i].rel \in Rules!Rels
    BY <1>2, RuleReads
  <2>4. \A T : (\A e \in Rules!Edges : e[1] \in T => e[2] \in T) => (a \in T => Rulebook[i].rel \in T)
    BY <2>2
  <2> QED BY <2>3, <2>4 DEF Rules!Reaches
<1> QED BY <1>1, <1>2

\* A sequence has finitely many places.
LEMMA RulePlaces ==
  ASSUME NEW s, Rules!Listed(s)
  PROVE  IsFiniteSet(DOMAIN s) /\ DOMAIN s \subseteq Nat \ {0}
<1>1. Len(s) \in Nat /\ DOMAIN s = 1 .. Len(s)
  BY DEF Rules!Listed
<1>2. \A n \in Nat : IsFiniteSet(1 .. n) /\ 1 .. n \subseteq Nat \ {0}
  BY FS_Interval
<1> QED BY <1>1, <1>2

\* The strata of an accepted program: each chosen rule is in one, no relation in
\* two, and a rule reads nothing of a later one, nor negates or aggregates its own.
LEMMA RuleLayers ==
  ASSUME Rules!Accepted, dat_chosen \subseteq DOMAIN Rulebook
  PROVE  /\ Len(dat_strata) \in Nat /\ DOMAIN dat_strata = 1 .. Len(dat_strata)
         /\ \A i \in dat_chosen : Rulebook[i].rel \in Rules!Rels
             /\ \E s \in DOMAIN dat_strata : Rulebook[i].rel \in dat_strata[s]
         /\ \A s, t \in DOMAIN dat_strata : \A x \in Rules!Rels : x \in dat_strata[s]
             /\ x \in dat_strata[t] => s = t
         /\ \A i \in dat_chosen : \A s, t \in DOMAIN dat_strata :
              \A x \in Rules!ReadsPos(Rulebook[i]) \cup Rules!ReadsNeg(Rulebook[i]) \cup Rules!ReadsAgg(Rulebook[i]) :
                Rulebook[i].rel \in dat_strata[s] /\ x \in dat_strata[t] => t <= s
         /\ \A i \in dat_chosen : \A s \in DOMAIN dat_strata : \A x \in Rules!ReadsNeg(Rulebook[i]) \cup Rules!ReadsAgg(Rulebook[i]) :
              Rulebook[i].rel \in dat_strata[s] => x \notin dat_strata[s]
<1> DEFINE S == {Rules!Component(Rules!Reaches, Rulebook[i].rel) : i \in dat_chosen}
           n == Cardinality(S)
<1>1. IsFiniteSet(dat_chosen)
  BY RulesAssumption, RulePlaces, FS_Subset, RulesFinite, RulesCardinality DEF Rules!WellFormed
<1>2. IsFiniteSet(S)
  <2> DEFINE g == [i \in dat_chosen |-> Rules!Component(Rules!Reaches, Rulebook[i].rel)]
  <2>1. S = {g[i] : i \in dat_chosen}
    OBVIOUS
  <2>2. DOMAIN g = dat_chosen /\ g = [i \in dat_chosen |-> g[i]]
    OBVIOUS
  <2> HIDE DEF g, S
  <2> QED BY <1>1, <2>1, <2>2, FiniteImage
<1>3. n \in Nat
  BY <1>2, FS_CardinalityType
<1>4. /\ dat_strata \in [1 .. n -> S]
      /\ \A i, j \in DOMAIN dat_strata : i < j => dat_strata[i] # dat_strata[j]
          /\ ~\E a \in dat_strata[j], b \in dat_strata[i] : <<a, b>> \in Rules!Reaches
  BY RulesFinite, RulesCardinality DEF Rules!Accepted, Rules!Orders
<1>5. Len(dat_strata) = n /\ DOMAIN dat_strata = 1 .. n
  <2> HIDE DEF S, n
  <2> QED BY <1>3, <1>4
<1>6. \A c \in S : \E s \in DOMAIN dat_strata : dat_strata[s] = c
  <2> HIDE DEF S
  <2>1. IsFiniteSet(1 .. n) /\ Cardinality(1 .. n) = n
    <3> HIDE DEF n
    <3> QED BY <1>3, FS_Interval
  <2>2. dat_strata \in Injection(1 .. n, S)
    <3>1. \A i, j \in 1 .. n : dat_strata[i] = dat_strata[j] => i = j
      <4> HIDE DEF n
      <4> QED BY <1>3, <1>4, <1>5
    <3> HIDE DEF n
    <3> QED BY <3>1, <1>4 DEF Injection, IsInjective
  <2>3. dat_strata \in Surjection(1 .. n, S)
    <3>1. Cardinality(1 .. n) = Cardinality(S)
      BY <2>1
    <3> HIDE DEF n
    <3> QED BY <2>2, <3>1, <1>2, FS_Injection
  <2> HIDE DEF n
  <2> QED BY <2>3, <1>5 DEF Surjection
<1>7. ASSUME NEW i \in dat_chosen PROVE Rulebook[i].rel \in Rules!Rels
  <2>1. Rules!rule(Rulebook[i])
    BY DEF Rules!Accepted
  <2> QED BY <2>1 DEF Rules!rule, Rules!ruleHead, Rules!decl
<1>8. \A i \in dat_chosen : Rulebook[i].rel \in Rules!Component(Rules!Reaches, Rulebook[i].rel)
  BY <1>7, RuleReach DEF Rules!Component
<1>9. ASSUME NEW i \in dat_chosen
      PROVE  \E s \in DOMAIN dat_strata : dat_strata[s] = Rules!Component(Rules!Reaches, Rulebook[i].rel)
                 /\ Rulebook[i].rel \in dat_strata[s]
  <2>1. Rules!Component(Rules!Reaches, Rulebook[i].rel) \in S
    OBVIOUS
  <2> HIDE DEF S
  <2> QED BY <2>1, <1>6, <1>8
<1>10. \A s, t \in DOMAIN dat_strata : s \in Int /\ t \in Int
  <2> HIDE DEF n
  <2> QED BY <1>3, <1>5
<1>11. ASSUME NEW s \in DOMAIN dat_strata, NEW t \in DOMAIN dat_strata, NEW x \in Rules!Rels,
                  x \in dat_strata[s], x \in dat_strata[t]
       PROVE  s = t
  <2>1. <<x, x>> \in Rules!Reaches
    BY RuleReach
  <2>2. ~(s < t) /\ ~(t < s)
    BY <2>1, <1>4, <1>11
  <2> QED BY <2>2, <1>10
<1>12. ASSUME NEW i \in dat_chosen, NEW s \in DOMAIN dat_strata, NEW t \in DOMAIN dat_strata,
              NEW x \in Rules!ReadsPos(Rulebook[i]) \cup Rules!ReadsNeg(Rulebook[i]) \cup Rules!ReadsAgg(Rulebook[i]),
              Rulebook[i].rel \in dat_strata[s], x \in dat_strata[t]
       PROVE  t <= s
  <2>1. <<x, Rulebook[i].rel>> \in Rules!Reaches
    BY RuleReach DEF Rules!Accepted
  <2>2. ~(s < t)
    BY <2>1, <1>4, <1>12
  <2> QED BY <2>2, <1>10
<1>13. ASSUME NEW i \in dat_chosen, NEW s \in DOMAIN dat_strata,
                  NEW x \in Rules!ReadsNeg(Rulebook[i]) \cup Rules!ReadsAgg(Rulebook[i]),
              Rulebook[i].rel \in dat_strata[s], x \in dat_strata[s]
       PROVE  FALSE
  <2>1. PICK t \in DOMAIN dat_strata : dat_strata[t] = Rules!Component(Rules!Reaches, Rulebook[i].rel)
                 /\ Rulebook[i].rel \in dat_strata[t]
    BY <1>9
  <2>2. s = t
    BY <2>1, <1>11, <1>13, <1>7
  <2>3. x \in Rules!Strict[i]
    BY DEF Rules!Strict
  <2> QED BY <2>1, <2>2, <2>3, <1>13 DEF Rules!Accepted, Rules!stratified
<1> HIDE DEF S, n
<1>14. Len(dat_strata) \in Nat /\ DOMAIN dat_strata = 1 .. Len(dat_strata)
  BY <1>3, <1>5
<1>15. \A i \in dat_chosen : Rulebook[i].rel \in Rules!Rels
           /\ \E s \in DOMAIN dat_strata : Rulebook[i].rel \in dat_strata[s]
  BY <1>7, <1>9
<1> QED BY <1>14, <1>15, <1>11, <1>12, <1>13

\* A set of naturals that is not empty has a least element.
LEMMA LeastNatural ==
  ASSUME NEW K, K \subseteq Nat, K # {}
  PROVE  \E k \in K : \A j \in K : k <= j
<1> DEFINE R == OpToRel(<, Nat)
<1>1. \E k \in K : \A j \in K : <<j, k>> \notin R
  <2>1. IsWellFoundedOn(R, Nat)
    BY NatLessThanWellFounded
  <2> HIDE DEF R
  <2> QED BY <2>1, WFMin
<1>2. PICK k \in K : \A j \in K : <<j, k>> \notin R
  BY <1>1
<1>3. \A j \in K : ~(j < k)
  BY <1>2 DEF OpToRel
<1> HIDE DEF R
<1> QED BY <1>3

\* A rule fires finitely often: on one pick, and on all from finite ranges.
LEMMA RuleFiringFinite ==
  ASSUME NEW i \in DOMAIN Rulebook, NEW m, NEW R
  PROVE  IsFiniteSet(Rules!Firing(Rulebook[i], m, R))
<1> DEFINE r == Rulebook[i]
           vs == Rules!Bound(r) \cup Rules!termVars(r.args)
           free == {v \in vs : v \notin DOMAIN <<>> /\ Rules!ValuesOf(r.atoms, m, v) = {}}
           full(f) == [v \in vs |-> IF v \in DOMAIN <<>> THEN <<>>[v] ELSE IF v \in free THEN f[v]
                                    ELSE CHOOSE x \in Rules!ValuesOf(r.atoms, m, v) : TRUE]
           F == [free -> Rules!Domain]
           g == [f \in F |-> full(f)]
           B == Rules!Bindings(r.atoms, m, vs, <<>>)
           h == [b \in B |-> [bind |-> b, kids |-> {<<r.atoms[k].rel, m[k]>> : k \in DOMAIN r.atoms}]]
<1>1. IsFiniteSet(Rules!Domain)
  <2> DEFINE n == [k \in 0 .. RuleNumbers |-> Rules!ToString(k)]
  <2>1. IsFiniteSet(0 .. RuleNumbers) /\ IsFiniteSet(RuleSymbols)
    BY RulesAssumption, FS_Interval, RulesFinite, RulesCardinality DEF Rules!WellFormed
  <2>2. Rules!Numbers = {n[k] : k \in 0 .. RuleNumbers}
    BY DEF Rules!Numbers
  <2>3. DOMAIN n = 0 .. RuleNumbers /\ n = [k \in 0 .. RuleNumbers |-> n[k]]
    OBVIOUS
  <2>4. IsFiniteSet(Rules!Numbers)
    <3> HIDE DEF n
    <3> QED BY <2>1, <2>2, <2>3, FiniteImage
  <2> QED BY <2>1, <2>4, FS_Union DEF Rules!Domain
<1>2. IsFiniteSet(free)
  <2>1. IsFiniteSet(vs)
    BY RulesAssumption, RulesFinite, RulesCardinality DEF Rules!WellFormed
  <2>2. free \in SUBSET vs
    OBVIOUS
  <2> HIDE DEF vs, free
  <2> QED BY <2>1, <2>2, FS_Subset
<1>3. IsFiniteSet(F)
  BY <1>1, <1>2, FinitelyManyFunctions
<1>4. IsFiniteSet({g[f] : f \in F})
  <2>1. DOMAIN g = F /\ g = [f \in F |-> g[f]]
    OBVIOUS
  <2> HIDE DEF g, F
  <2> QED BY <2>1, <1>3, FiniteImage
<1>5. B \in SUBSET {g[f] : f \in F}
  BY DEF Rules!Bindings
<1>6. IsFiniteSet(B)
  <2> HIDE DEF B, g, F
  <2> QED BY <1>4, <1>5, FS_Subset
<1>7. IsFiniteSet({h[b] : b \in B})
  <2>1. DOMAIN h = B /\ h = [b \in B |-> h[b]]
    OBVIOUS
  <2> HIDE DEF h, B
  <2> QED BY <2>1, <1>6, FiniteImage
<1>8. Rules!Firing(r, m, R) \in SUBSET {h[b] : b \in B}
  BY DEF Rules!Firing
<1> HIDE DEF h, B
<1> QED BY <1>7, <1>8, FS_Subset

LEMMA RuleJoinFinite ==
  ASSUME NEW i \in DOMAIN Rulebook, NEW R, NEW ranges,
             \A k \in DOMAIN Rulebook[i].atoms : IsFiniteSet(ranges[k])
  PROVE  IsFiniteSet(Rules!join(Rulebook[i], ranges, R))
<1> DEFINE atoms == Rulebook[i].atoms
           U == {ranges[k] : k \in DOMAIN atoms}
           g == [k \in DOMAIN atoms |-> ranges[k]]
           P == Rules!Picks(atoms, ranges)
           h == [m \in P |-> Rules!Firing(Rulebook[i], m, R)]
<1>1. IsFiniteSet(DOMAIN atoms)
  BY RulesAssumption, RulePlaces, RulesFinite, RulesCardinality DEF Rules!WellFormed
<1>2. IsFiniteSet(U)
  <2>1. DOMAIN g = DOMAIN atoms /\ g = [k \in DOMAIN atoms |-> g[k]] /\ U = {g[k] : k \in DOMAIN atoms}
    OBVIOUS
  <2> HIDE DEF g, atoms, U
  <2> QED BY <2>1, <1>1, FiniteImage
<1>3. IsFiniteSet(UNION U)
  <2>1. \A T \in U : IsFiniteSet(T)
    OBVIOUS
  <2> HIDE DEF U
  <2> QED BY <2>1, <1>2, FS_UNION
<1>4. IsFiniteSet([DOMAIN atoms -> UNION U])
  <2> HIDE DEF U, atoms
  <2> QED BY <1>1, <1>3, FinitelyManyFunctions
<1>5. P \in SUBSET [DOMAIN atoms -> UNION U]
  BY DEF Rules!Picks
<1>6. IsFiniteSet(P)
  <2> HIDE DEF P, U, atoms
  <2> QED BY <1>4, <1>5, FS_Subset
<1>7. IsFiniteSet({h[m] : m \in P})
  <2>1. DOMAIN h = P /\ h = [m \in P |-> h[m]]
    OBVIOUS
  <2> HIDE DEF h, P
  <2> QED BY <2>1, <1>6, FiniteImage
<1>8. \A T \in {h[m] : m \in P} : IsFiniteSet(T)
  <2> HIDE DEF P
  <2> QED BY RuleFiringFinite
<1>9. IsFiniteSet(UNION {h[m] : m \in P})
  <2> HIDE DEF h, P
  <2> QED BY <1>7, <1>8, FS_UNION
<1>10. Rules!join(Rulebook[i], ranges, R) = UNION {h[m] : m \in P}
  <2> HIDE DEF P
  <2> QED BY DEF Rules!join, P
<1> QED BY <1>9, <1>10

LEMMA RuleHeadsFinite ==
  ASSUME NEW r, NEW J, IsFiniteSet(J)
  PROVE  IsFiniteSet({Rules!headOf(r, q.bind) : q \in J})
<1> DEFINE g == [q \in J |-> Rules!headOf(r, q.bind)]
<1>1. DOMAIN g = J /\ g = [q \in J |-> g[q]] /\ {Rules!headOf(r, q.bind) : q \in J} = {g[q] : q \in J}
  OBVIOUS
<1> HIDE DEF g
<1> QED BY <1>1, FiniteImage

\* A stratum holds declared relations.
LEMMA RuleStrata ==
  ASSUME Rules!Accepted
  PROVE  \A s \in DOMAIN dat_strata : dat_strata[s] \subseteq Rules!Rels
<1> DEFINE S == {Rules!Component(Rules!Reaches, Rulebook[i].rel) : i \in dat_chosen}
<1>1. \A s \in DOMAIN dat_strata : dat_strata[s] \in S
  BY RulesFinite, RulesCardinality DEF Rules!Accepted, Rules!Orders
<1>2. \A c \in S : c \subseteq Rules!Rels
  BY DEF Rules!Component
<1> HIDE DEF S
<1> QED BY <1>1, <1>2

\* A firing binds the variables so that every atom matches the tuple picked for it.
LEMMA RuleMatches ==
  ASSUME NEW r, NEW m, NEW R, NEW q \in Rules!Firing(r, m, R)
  PROVE  /\ \A k \in DOMAIN r.atoms : Rules!Matches(r.atoms[k].args, q.bind, m[k])
         /\ q.kids = {<<r.atoms[k].rel, m[k]>> : k \in DOMAIN r.atoms}
<1> DEFINE B == Rules!Bindings(r.atoms, m, Rules!Bound(r) \cup Rules!termVars(r.args), <<>>)
           K == {<<r.atoms[k].rel, m[k]>> : k \in DOMAIN r.atoms}
<1>1. PICK b \in B : q = [bind |-> b, kids |-> K]
  BY DEF Rules!Firing
<1>2. q.bind = b /\ q.kids = K
  <2> HIDE DEF B, K
  <2> QED BY <1>1
<1>3. \A k \in DOMAIN r.atoms : Rules!Matches(r.atoms[k].args, b, m[k])
  BY DEF Rules!Bindings
<1> QED BY <1>2, <1>3

\* The head of an accepted rule has the declared attributes, and its symbols
\* come from the rule or from the tuples picked.
LEMMA RuleHeadTyped ==
  ASSUME NEW i \in dat_chosen, i \in DOMAIN Rulebook, Rules!rule(Rulebook[i]), Rules!Typed, NEW m, NEW R,
             NEW ranges,
         m \in Rules!Picks(Rulebook[i].atoms, ranges),
         \A k \in DOMAIN Rulebook[i].atoms : ranges[k] \subseteq dat_rels[Rulebook[i].atoms[k].rel],
         NEW q \in Rules!Firing(Rulebook[i], m, R)
  PROVE  LET t == Rules!headOf(Rulebook[i], q.bind)
         IN /\ DOMAIN t = DOMAIN RuleDecls[Rulebook[i].rel]
            /\ \A j \in DOMAIN RuleDecls[Rulebook[i].rel] : RuleDecls[Rulebook[i].rel][j] = "symbol"
                => t[j] \in Rules!Used
<1> DEFINE r == Rulebook[i]
           c == q.bind
<1>0. Rules!ruleHead(r) /\ \A k \in DOMAIN r.atoms : Rules!positiveAtom(r.atoms[k])
  BY DEF Rules!rule
<1>2. \A k \in DOMAIN r.atoms : Rules!Matches(r.atoms[k].args, c, m[k])
  BY RuleMatches
<1>3. \A s : Rules!Listed(s) => DOMAIN s = 1 .. Len(s)
  BY DEF Rules!Listed
<1>4. DOMAIN r.args = DOMAIN RuleDecls[r.rel]
  <2>1. Rules!Listed(r.args) /\ r.rel \in Rules!Rels /\ Rules!Listed(RuleDecls[r.rel])
            /\ Len(r.args) = Len(RuleDecls[r.rel])
    BY <1>0, RulesAssumption, RulesFinite, RulesCardinality DEF Rules!WellFormed, Rules!ruleHead, Rules!decl
  <2> QED BY <2>1, <1>3
<1>5. ASSUME NEW k \in DOMAIN r.atoms
      PROVE  DOMAIN r.atoms[k].args = DOMAIN RuleDecls[r.atoms[k].rel] /\ r.atoms[k].rel \in Rules!Rels
  <2> DEFINE l == r.atoms[k]
  <2>1. l.rel \in Rules!Rels /\ Len(l.args) = Len(RuleDecls[l.rel])
    BY <1>0 DEF Rules!positiveAtom, Rules!decl
  <2>2. Rules!Listed(l.args) /\ Rules!Listed(RuleDecls[l.rel])
    BY <2>1, RulesAssumption, RulesFinite, RulesCardinality DEF Rules!WellFormed
  <2> HIDE DEF l
  <2>3. DOMAIN l.args = DOMAIN RuleDecls[l.rel] /\ l.rel \in Rules!Rels
    BY <2>1, <2>2, <1>3
  <2> QED BY <2>3 DEF l
<1>6. ASSUME NEW j \in DOMAIN r.args, RuleDecls[r.rel][j] = "symbol"
      PROVE  Rules!value(r.args[j], c) \in Rules!Used
  <2>1. CASE r.args[j].kind = "const"
    <3>1. r.args[j].text \in Rules!SymbolsOf(r.args)
      BY <2>1 DEF Rules!SymbolsOf
    <3>2. r \in Rules!Program
      BY DEF Rules!Program
    <3>3. r.args[j].text \in Rules!Used
      <4> HIDE DEF r
      <4> QED BY <3>1, <3>2 DEF Rules!Used
    <3> QED BY <2>1, <3>3 DEF Rules!value
  <2>2. CASE r.args[j].kind = "var" /\ Rules!TypesOf(r, r.args[j].text) = {"symbol"}
    <3> DEFINE v == r.args[j].text
    <3>1. "symbol" \in Rules!TypesIn(r, v)
      BY <2>2 DEF Rules!TypesOf
    <3>2. PICK k \in DOMAIN r.atoms : \E n \in DOMAIN r.atoms[k].args :
             r.atoms[k].args[n].kind = "var" /\ r.atoms[k].args[n].text = v
                 /\ RuleDecls[r.atoms[k].rel][n] = "symbol"
      BY <3>1 DEF Rules!TypesIn
    <3>7. PICK n \in DOMAIN r.atoms[k].args :
             r.atoms[k].args[n].kind = "var" /\ r.atoms[k].args[n].text = v
                 /\ RuleDecls[r.atoms[k].rel][n] = "symbol"
      BY <3>2
    <3>3. c[v] = m[k][n]
      BY <1>2, <3>7 DEF Rules!Matches, Rules!value
    <3>4. m[k] \in dat_rels[r.atoms[k].rel]
      BY RulePicks
    <3>5. m[k][n] \in Rules!Used
      BY <3>7, <3>4, <1>5 DEF Rules!Typed
    <3>6. Rules!value(r.args[j], c) = c[v]
      BY <2>2 DEF Rules!value
    <3> QED BY <3>3, <3>5, <3>6
  <2>3. r.args[j].kind = "const" \/ (r.args[j].kind = "var"
            /\ Rules!TypesOf(r, r.args[j].text) = {"symbol"})
    BY <1>0, <1>6 DEF Rules!ruleHead
  <2> QED BY <2>1, <2>2, <2>3
<1>7. DOMAIN Rules!headOf(r, c) = DOMAIN r.args
          /\ \A j \in DOMAIN r.args : Rules!headOf(r, c)[j] = Rules!value(r.args[j], c)
  BY DEF Rules!headOf
<1> HIDE DEF r, c
<1>8. /\ DOMAIN Rules!headOf(r, c) = DOMAIN RuleDecls[r.rel]
      /\ \A j \in DOMAIN RuleDecls[r.rel] : RuleDecls[r.rel][j] = "symbol"
          => Rules!headOf(r, c)[j] \in Rules!Used
  BY <1>4, <1>6, <1>7
<1> QED BY <1>8 DEF r, c

\* Which programs are accepted, and how they are layered, depends on the rules only.
LEMMA RulesAccepted ==
  ASSUME dat_chosen' = dat_chosen
  PROVE  /\ Rules!Reaches' = Rules!Reaches
             /\ Rules!stratified(Rules!Reaches)' = Rules!stratified(Rules!Reaches)
         /\ Rules!Orders(Rules!Reaches)' = Rules!Orders(Rules!Reaches)
         /\ dat_strata' = dat_strata => Rules!Accepted' = Rules!Accepted
<1>1. Rules!Edges' = Rules!Edges
  BY DEF Rules!Edges
<1>2. Rules!Reaches' = Rules!Reaches
  BY <1>1 DEF Rules!Reaches
<1>3. Rules!stratified(Rules!Reaches)' = Rules!stratified(Rules!Reaches)
  BY <1>2 DEF Rules!stratified
<1>4. Rules!Orders(Rules!Reaches)' = Rules!Orders(Rules!Reaches)
  BY <1>2, RulesFinite, RulesCardinality DEF Rules!Orders
<1> QED BY <1>2, <1>3, <1>4 DEF Rules!Accepted

LEMMA RulesInit == Rules!Init => Rules!Inv
<1> SUFFICES ASSUME Rules!Init PROVE Rules!Inv
  OBVIOUS
<1>0. DOMAIN dat_prov = {} /\ dat_facts \in RuleFacts
  BY RulesAssumption, RulesFinite, RulesCardinality DEF Rules!Init, Rules!WellFormed
<1>1. Rules!Shape
  BY <1>0 DEF Rules!Init, Rules!Shape
<1>2. Rules!Reading /\ Rules!Settled /\ Rules!Owed /\ Rules!Proved /\ Rules!Counted
  BY RulesFinite, RulesCardinality DEF Rules!Init, Rules!Reading, Rules!Settled, Rules!Owed, Rules!Proved,
       Rules!Counted
<1>3. Rules!Explained
  BY <1>0, FS_EmptySet, RulesFinite, RulesCardinality DEF Rules!Init, Rules!Explained
<1>4. Rules!Typed
  BY DEF Rules!Init, Rules!Typed
<1> QED BY <1>1, <1>2, <1>3, <1>4 DEF Rules!Inv

LEMMA RulesWrite ==
  ASSUME Rules!Inv, NEW i \in DOMAIN Rulebook, Rules!Write(i)
  PROVE  Rules!Inv'
<1> USE DEF Rules!Write
<1>0. dat_pc = "write" /\ dat_pc' = "write" /\ dat_rels' = dat_rels /\ dat_prov' = dat_prov
          /\ dat_facts' = dat_facts /\ DOMAIN dat_prov = {} /\ \A x \in Rules!Rels : dat_rels[x] = {}
  BY DEF Rules!Inv, Rules!Shape
<1>1. Rules!Shape'
  BY <1>0 DEF Rules!Inv, Rules!Shape
<1>2. Rules!Reading' /\ Rules!Settled' /\ Rules!Owed' /\ Rules!Proved' /\ Rules!Counted'
  BY <1>0, RulesFinite, RulesCardinality DEF Rules!Reading, Rules!Settled, Rules!Owed, Rules!Proved,
       Rules!Counted
<1>3. Rules!Explained'
  BY <1>0, RulesFinite, RulesCardinality DEF Rules!Inv, Rules!Explained
<1>4. Rules!Typed'
  BY <1>0 DEF Rules!Typed
<1> QED BY <1>1, <1>2, <1>3, <1>4 DEF Rules!Inv

LEMMA RulesCompile ==
  ASSUME Rules!Inv, Rules!compile
  PROVE  Rules!Inv'
<1>0. /\ dat_pc = "write" /\ dat_pc' \in {"rejected", "load"} /\ DOMAIN dat_prov = {}
          /\ \A x \in Rules!Rels : dat_rels[x] = {}
      /\ dat_rels' = dat_rels /\ dat_prov' = dat_prov /\ dat_si' = dat_si /\ dat_iters' = dat_iters
          /\ dat_chosen' = dat_chosen
  BY DEF Rules!Inv, Rules!Shape, Rules!compile
<1>1. dat_facts' \in RuleFacts
  BY DEF Rules!Inv, Rules!Shape, Rules!compile
<1>2. dat_pc' = "load" => Rules!Accepted'
  <2> SUFFICES ASSUME dat_pc' = "load" PROVE Rules!Accepted'
    OBVIOUS
  <2>1. (\A i \in dat_chosen : Rules!Checked[i]) /\ Rules!stratified(Rules!Reaches)
            /\ dat_strata' \in Rules!Orders(Rules!Reaches)
    BY DEF Rules!compile
  <2>2. \A i \in dat_chosen : Rules!rule(Rulebook[i])
    BY <2>1 DEF Rules!Checked, Rules!Inv, Rules!Shape
  <2>3. Rules!stratified(Rules!Reaches)' /\ Rules!Orders(Rules!Reaches)' = Rules!Orders(Rules!Reaches)
    BY <2>1, <1>0, RulesAccepted
  <2> QED BY <2>1, <2>2, <2>3, <1>0 DEF Rules!Accepted
<1>3. Rules!Shape'
  BY <1>0, <1>1, <1>2 DEF Rules!Inv, Rules!Shape
<1>4. Rules!Reading' /\ Rules!Settled' /\ Rules!Owed' /\ Rules!Proved' /\ Rules!Counted'
  BY <1>0, RulesFinite, RulesCardinality DEF Rules!Reading, Rules!Settled, Rules!Owed, Rules!Proved,
       Rules!Counted
<1>5. Rules!Explained'
  BY <1>0, RulesFinite, RulesCardinality DEF Rules!Inv, Rules!Explained
<1>6. Rules!Typed'
  BY <1>0 DEF Rules!Typed
<1> QED BY <1>3, <1>4, <1>5, <1>6 DEF Rules!Inv

LEMMA RulesLoad ==
  ASSUME Rules!Inv, Rules!load
  PROVE  Rules!Inv'
<1>0. /\ dat_pc = "load" /\ dat_pc' \in {"limit", "round"} /\ DOMAIN dat_prov = {} /\ dat_si = 0
          /\ dat_iters = 0
      /\ dat_rels' = [x \in Rules!Rels |-> IF x \in RuleInputs THEN dat_facts[x] ELSE {}]
      /\ dat_prov' = dat_prov /\ dat_si' = dat_si /\ dat_iters' = dat_iters /\ dat_chosen' = dat_chosen
          /\ dat_facts' = dat_facts /\ dat_strata' = dat_strata
  BY DEF Rules!Inv, Rules!Shape, Rules!load, Rules!Fixed
<1>1. dat_facts \in RuleFacts /\ Rules!Accepted /\ dat_chosen \subseteq DOMAIN Rulebook
  BY <1>0 DEF Rules!Inv, Rules!Shape
<1>2. Len(dat_strata) \in Nat
  BY <1>1, RuleLayers
<1>3. Rules!Accepted'
  BY <1>0, <1>1, RulesAccepted
<1>4. Rules!Shape'
  BY <1>0, <1>1, <1>2, <1>3, RulesAssumption, RulesFinite, RulesCardinality DEF Rules!Inv, Rules!Shape,
       Rules!WellFormed
<1>5. Rules!Reading' /\ Rules!Settled' /\ Rules!Owed' /\ Rules!Proved'
  BY <1>0 DEF Rules!Reading, Rules!Settled, Rules!Owed, Rules!Proved
<1>6. Rules!Counted'
  BY <1>0, <1>2, FS_EmptySet, RulesFinite, RulesCardinality DEF Rules!Counted
<1>7. Rules!Explained'
  <2>1. \A x \in Rules!Rels : IsFiniteSet(dat_rels'[x]) /\ \A t \in dat_rels'[x] : x \in RuleInputs
            /\ t \in dat_facts[x]
    BY <1>0, <1>1, RulesAssumption, FS_EmptySet, RulesFinite, RulesCardinality DEF Rules!WellFormed
  <2>2. IsFiniteSet(DOMAIN dat_prov')
    BY <1>0, FS_EmptySet
  <2> QED BY <1>0, <2>1, <2>2, RulesFinite, RulesCardinality DEF Rules!Explained
<1>8. Rules!Typed'
  <2> SUFFICES ASSUME NEW x \in Rules!Rels, NEW t \in dat_rels'[x]
               PROVE  DOMAIN t = DOMAIN RuleDecls[x] /\ \A j \in DOMAIN RuleDecls[x] : t[j] \in Rules!Used'
    BY DEF Rules!Typed
  <2>1. x \in RuleInputs /\ t \in dat_facts[x]
    BY <1>0
  <2>2. DOMAIN t = DOMAIN RuleDecls[x]
    BY <2>1, <1>1, RulesAssumption, RulesFinite, RulesCardinality DEF Rules!WellFormed
  <2>3. \A j \in DOMAIN t : t[j] \in Rules!Used'
    BY <2>1, <1>0 DEF Rules!Used
  <2> QED BY <2>2, <2>3
<1> QED BY <1>4, <1>5, <1>6, <1>7, <1>8 DEF Rules!Inv

\* Where the relations and the derivations stay as they are, so does what is
\* said of them alone.
LEMMA RulesKept ==
  ASSUME Rules!Inv, dat_chosen' = dat_chosen, dat_facts' = dat_facts, dat_rels' = dat_rels,
             dat_prov' = dat_prov
  PROVE  Rules!Explained' /\ Rules!Typed'
<1>1. Rules!Explained'
  BY RulesFinite, RulesCardinality DEF Rules!Inv, Rules!Explained
<1>2. Rules!Used' = Rules!Used
  BY DEF Rules!Used, Rules!Program
<1>3. Rules!Typed'
  BY <1>2 DEF Rules!Inv, Rules!Typed
<1> QED BY <1>1, <1>3

\* Every derivation is of a tuple that is there, so the tuples derived are all
\* of those derived when the relations are what a round begins with.
LEMMA RulesDerived ==
  ASSUME Rules!Inv
  PROVE  /\ {p \in DOMAIN dat_prov : p[2] \in dat_rels[p[1]]} = DOMAIN dat_prov
         /\ Cardinality(DOMAIN dat_prov) \in Nat
BY FS_CardinalityType, RulesFinite, RulesCardinality DEF Rules!Inv, Rules!Explained

LEMMA RulesFirstRound ==
  ASSUME Rules!Inv, Rules!FirstRound
  PROVE  Rules!Inv'
<1>0. /\ dat_pc = "round" /\ dat_pc' \in {"fire", "limit"} /\ dat_si < Len(dat_strata)
          /\ dat_iters' = dat_iters + 1 /\ dat_iters \in Nat
      /\ dat_prev' = dat_rels /\ dat_cur' = dat_rels /\ dat_fires' = Rules!FirstFires(Rules!Current)
      /\ dat_rels' = dat_rels /\ dat_prov' = dat_prov /\ dat_si' = dat_si /\ dat_chosen' = dat_chosen
          /\ dat_facts' = dat_facts /\ dat_strata' = dat_strata
  BY DEF Rules!Inv, Rules!Shape, Rules!FirstRound, Rules!Fixed, Rules!round
<1>1. Rules!Accepted /\ Rules!Accepted' /\ dat_chosen \subseteq DOMAIN Rulebook
          /\ dat_rels = [x \in Rules!Rels |-> dat_rels[x]]
      /\ dat_si \in Nat /\ dat_si <= Len(dat_strata)
          /\ \A x \in RuleInputs : dat_facts[x] \subseteq dat_rels[x]
  BY <1>0, RulesAccepted DEF Rules!Inv, Rules!Shape
<1>2. Len(dat_strata) \in Nat
  BY <1>1, RuleLayers
<1>3. Rules!Shape'
  BY <1>0, <1>1, <1>2 DEF Rules!Inv, Rules!Shape
<1>4. Rules!Current' = Rules!Current /\ Rules!RulesOf(Rules!Current)' = Rules!RulesOf(Rules!Current)
  BY <1>0 DEF Rules!Current, Rules!RulesOf
<1>5. \A f \in dat_fires' : f.rule \in Rules!RulesOf(Rules!Current)
  BY <1>0 DEF Rules!FirstFires
<1>6. Rules!Reading'
  BY <1>0, <1>1, <1>4, <1>5 DEF Rules!Reading
<1>7. Rules!Settled'
  BY <1>0 DEF Rules!Inv, Rules!Settled, Rules!RulesOf, Rules!Heads
<1>8. Rules!Owed'
  <2> SUFFICES ASSUME dat_pc' = "fire", NEW i \in Rules!RulesOf(Rules!Current),
          NEW m \in Rules!Picks(Rulebook[i].atoms, Rules!Whole(Rulebook[i], dat_rels))
               PROVE  \E f \in dat_fires' : f.rule = i
                          /\ m \in Rules!Picks(Rulebook[i].atoms, Rules!Ranges(Rulebook[i], f.delta,
                              Rules!Current)')
    BY <1>0, <1>4 DEF Rules!Owed
  <2>1. [rule |-> i, delta |-> 0] \in dat_fires'
    BY <1>0 DEF Rules!FirstFires
  <2>2. Rules!Ranges(Rulebook[i], 0, Rules!Current)' = Rules!Whole(Rulebook[i], dat_rels)
    BY <1>0 DEF Rules!Ranges, Rules!Whole
  <2> QED BY <2>1, <2>2
<1>9. Rules!Proved'
  <2>1. \A s \in DOMAIN dat_strata : s \in Nat
    BY <1>1, RuleLayers
  <2> SUFFICES ASSUME dat_pc' = "fire", NEW p \in DOMAIN dat_prov
               PROVE  LET i == dat_prov[p].rule
                      IN /\ i \in dat_chosen /\ Rulebook[i].rel = p[1]
                         /\ \E s \in DOMAIN dat_strata : Rulebook[i].rel \in dat_strata[s]
                             /\ s <= dat_si + 1
                         /\ \E m \in Rules!Picks(Rulebook[i].atoms, Rules!Whole(Rulebook[i],
                             dat_rels)) : Rules!Derives(Rulebook[i], m, p)
    BY <1>0 DEF Rules!Proved, Rules!Derives
  <2>2. \E s \in DOMAIN dat_strata : Rulebook[dat_prov[p].rule].rel \in dat_strata[s] /\ s <= dat_si
    BY <1>0 DEF Rules!Inv, Rules!Proved
  <2>3. \E s \in DOMAIN dat_strata : Rulebook[dat_prov[p].rule].rel \in dat_strata[s] /\ s <= dat_si + 1
    BY <2>1, <2>2, <1>1
  <2> QED BY <1>0, <2>3 DEF Rules!Inv, Rules!Proved
<1>10. Rules!Explained' /\ Rules!Typed'
  BY <1>0, RulesKept
<1>11. Rules!Counted'
  <2>1. dat_iters <= dat_si + Cardinality(DOMAIN dat_prov)
    BY <1>0, RulesFinite, RulesCardinality DEF Rules!Inv, Rules!Counted
  <2>2. {p \in DOMAIN dat_prov' : p[2] \in dat_cur'[p[1]]} = DOMAIN dat_prov
            /\ Cardinality(DOMAIN dat_prov) \in Nat
    BY <1>0, RulesDerived
  <2>3. dat_iters' <= dat_si + 1 + Cardinality(DOMAIN dat_prov)
            /\ dat_iters' <= Len(dat_strata) + Cardinality(DOMAIN dat_prov) + 1
    BY <1>0, <1>1, <1>2, <2>1, <2>2
  <2> QED BY <1>0, <2>2, <2>3, RulesFinite, RulesCardinality DEF Rules!Counted
<1> QED BY <1>3, <1>6, <1>7, <1>8, <1>9, <1>10, <1>11 DEF Rules!Inv

\* The tuples derived by the time a round begins are fewer when it has added one.
LEMMA RulesPaid ==
  ASSUME Rules!Inv, dat_pc = "fire", NEW x \in Rules!Current, Rules!Current \subseteq Rules!Rels,
             dat_rels[x] # dat_cur[x]
  PROVE  LET Paid == Cardinality({p \in DOMAIN dat_prov : p[2] \in dat_cur[p[1]]})
         IN Paid \in Nat /\ Paid + 1 <= Cardinality(DOMAIN dat_prov)
<1> DEFINE D == {p \in DOMAIN dat_prov : p[2] \in dat_cur[p[1]]}
<1>1. PICK t \in dat_rels[x] : t \notin dat_cur[x]
  BY DEF Rules!Inv, Rules!Reading
<1>2. <<x, t>> \in DOMAIN dat_prov
  BY <1>1, RulesFinite, RulesCardinality DEF Rules!Inv, Rules!Explained, Rules!Reading
<1>3. D \in SUBSET DOMAIN dat_prov /\ D # DOMAIN dat_prov
  BY <1>1, <1>2
<1>4. IsFiniteSet(DOMAIN dat_prov)
  BY RulesFinite, RulesCardinality DEF Rules!Inv, Rules!Explained
<1> HIDE DEF D
<1>5. IsFiniteSet(D) /\ Cardinality(D) <= Cardinality(DOMAIN dat_prov)
          /\ Cardinality(D) # Cardinality(DOMAIN dat_prov)
  BY <1>3, <1>4, FS_Subset
<1>6. Cardinality(D) \in Nat /\ Cardinality(DOMAIN dat_prov) \in Nat
  BY <1>4, <1>5, FS_CardinalityType
<1>7. Cardinality(D) + 1 <= Cardinality(DOMAIN dat_prov)
  BY <1>5, <1>6
<1> QED BY <1>6, <1>7 DEF D

LEMMA RulesNextRound ==
  ASSUME Rules!Inv, Rules!NextRound
  PROVE  Rules!Inv'
<1>0. /\ dat_pc = "fire" /\ dat_pc' \in {"fire", "limit"} /\ dat_fires = {} /\ dat_iters' = dat_iters + 1
          /\ dat_iters \in Nat
      /\ dat_prev' = dat_cur /\ dat_cur' = dat_rels
          /\ dat_fires' = Rules!DeltaFires(Rules!Current, dat_cur, dat_rels)
      /\ dat_rels' = dat_rels /\ dat_prov' = dat_prov /\ dat_si' = dat_si /\ dat_chosen' = dat_chosen
          /\ dat_facts' = dat_facts /\ dat_strata' = dat_strata
  BY DEF Rules!Inv, Rules!Shape, Rules!NextRound, Rules!Fixed, Rules!round
<1>1. Rules!Accepted /\ Rules!Accepted' /\ dat_chosen \subseteq DOMAIN Rulebook
          /\ dat_rels = [x \in Rules!Rels |-> dat_rels[x]]
      /\ dat_si \in Nat /\ dat_si < Len(dat_strata)
          /\ \A x \in RuleInputs : dat_facts[x] \subseteq dat_rels[x]
  BY <1>0, RulesAccepted DEF Rules!Inv, Rules!Shape
<1>2. Len(dat_strata) \in Nat /\ Rules!Current \subseteq Rules!Rels
  BY <1>1, RuleLayers, RuleStrata DEF Rules!Current
<1>3. Rules!Shape'
  BY <1>0, <1>1, <1>2 DEF Rules!Inv, Rules!Shape
<1>4. Rules!Current' = Rules!Current /\ Rules!RulesOf(Rules!Current)' = Rules!RulesOf(Rules!Current)
  BY <1>0 DEF Rules!Current, Rules!RulesOf
<1>5. \A f \in dat_fires' : f.rule \in Rules!RulesOf(Rules!Current)
  BY <1>0 DEF Rules!DeltaFires
<1>6. Rules!Reading'
  BY <1>0, <1>1, <1>4, <1>5 DEF Rules!Inv, Rules!Reading
<1>7. Rules!Settled'
  BY <1>0 DEF Rules!Inv, Rules!Settled, Rules!RulesOf, Rules!Heads
<1>8. Rules!Owed'
  <2> SUFFICES ASSUME dat_pc' = "fire", NEW i \in Rules!RulesOf(Rules!Current),
          NEW m \in Rules!Picks(Rulebook[i].atoms, Rules!Whole(Rulebook[i], dat_rels))
               PROVE  \/ Rules!Heads(Rulebook[i], m, dat_rels) \subseteq dat_rels[Rulebook[i].rel]
                      \/ \E f \in dat_fires' : f.rule = i
                          /\ m \in Rules!Picks(Rulebook[i].atoms, Rules!Ranges(Rulebook[i], f.delta,
                              Rules!Current)')
    BY <1>0, <1>4 DEF Rules!Owed, Rules!Heads
  <2> DEFINE atoms == Rulebook[i].atoms
             K == {k \in DOMAIN atoms : m[k] \notin dat_cur[atoms[k].rel]}
  <2>1. m = [k \in DOMAIN atoms |-> m[k]] /\ \A k \in DOMAIN atoms : m[k] \in dat_rels[atoms[k].rel]
    BY RulePicks DEF Rules!Whole
  <2>2. CASE K = {}
    <3>1. \A k \in DOMAIN atoms : m[k] \in Rules!Whole(Rulebook[i], dat_cur)[k]
      BY <2>2 DEF Rules!Whole
    <3>2. m \in Rules!Picks(atoms, Rules!Whole(Rulebook[i], dat_cur))
      BY <2>1, <3>1, RulePicks
    <3> QED BY <1>0, <3>2 DEF Rules!Inv, Rules!Owed
  <2>3. CASE K # {}
    <3>0. DOMAIN atoms \subseteq Nat \ {0} /\ i \in DOMAIN Rulebook /\ i \in dat_chosen
      BY <1>1, RulesAssumption, RulePlaces, RulesFinite, RulesCardinality DEF Rules!WellFormed,
           Rules!RulesOf
    <3>1. PICK k \in K : \A j \in K : k <= j
      BY <2>3, <3>0, LeastNatural
    <3>2. \A j \in DOMAIN atoms : j < k => m[j] \in dat_cur[atoms[j].rel]
      BY <3>0, <3>1
    <3>3. m[k] \in dat_rels[atoms[k].rel] /\ m[k] \notin dat_cur[atoms[k].rel]
      BY <2>1, <3>1
    <3>4. atoms[k].rel \in Rules!Rels
      BY <3>0, <3>1, <1>1, RuleReads DEF Rules!Accepted, Rules!ReadsPos
    <3>5. atoms[k].rel \in Rules!Current
      BY <1>0, <3>3, <3>4 DEF Rules!Inv, Rules!Reading
    <3>6. [rule |-> i, delta |-> k] \in dat_fires'
      BY <1>0, <3>1, <3>3, <3>5 DEF Rules!DeltaFires
    <3>7. \A j \in DOMAIN atoms : m[j] \in Rules!Ranges(Rulebook[i], k, Rules!Current)'[j]
      <4> SUFFICES ASSUME NEW j \in DOMAIN atoms
                   PROVE  m[j] \in (IF k = 0 \/ atoms[j].rel \notin Rules!Current
                              \/ j > k THEN dat_rels[atoms[j].rel]
                                    ELSE IF j = k THEN dat_rels[atoms[j].rel] \ dat_cur[atoms[j].rel] ELSE dat_cur[atoms[j].rel])
        BY <1>0, <1>4 DEF Rules!Ranges
      <4>1. j \in Nat /\ k \in Nat
        BY <3>0, <3>1
      <4>2. CASE j < k
        BY <2>1, <3>2, <4>1, <4>2
      <4>3. CASE j = k
        BY <3>3, <4>1, <4>3
      <4>4. CASE j > k
        BY <2>1, <4>4
      <4> QED BY <4>1, <4>2, <4>3, <4>4
    <3>8. m \in Rules!Picks(atoms, Rules!Ranges(Rulebook[i], k, Rules!Current)')
      BY <2>1, <3>7, RulePicks
    <3> QED BY <3>6, <3>8
  <2> QED BY <2>2, <2>3
<1>9. Rules!Proved'
  BY <1>0, <1>1 DEF Rules!Inv, Rules!Proved, Rules!Derives
<1>10. Rules!Explained' /\ Rules!Typed'
  BY <1>0, RulesKept
<1>11. Rules!Counted'
  <2> DEFINE Paid == Cardinality({p \in DOMAIN dat_prov : p[2] \in dat_cur[p[1]]})
  <2>1. dat_iters <= dat_si + 1 + Paid
    BY <1>0, RulesFinite, RulesCardinality DEF Rules!Inv, Rules!Counted
  <2>2. {p \in DOMAIN dat_prov' : p[2] \in dat_cur'[p[1]]} = DOMAIN dat_prov
            /\ Cardinality(DOMAIN dat_prov) \in Nat
    BY <1>0, RulesDerived
  <2>3. Paid \in Nat /\ Paid + 1 <= Cardinality(DOMAIN dat_prov)
    BY <1>0, <1>2, RulesPaid DEF Rules!NextRound
  <2> HIDE DEF Paid
  <2>4. dat_iters' <= dat_si + 1 + Cardinality(DOMAIN dat_prov)
            /\ dat_iters' <= Len(dat_strata) + Cardinality(DOMAIN dat_prov) + 1
    BY <1>0, <1>1, <1>2, <2>1, <2>2, <2>3
  <2> QED BY <1>0, <2>2, <2>4, RulesFinite, RulesCardinality DEF Rules!Counted
<1> QED BY <1>3, <1>6, <1>7, <1>8, <1>9, <1>10, <1>11 DEF Rules!Inv

LEMMA RulesStratumDone ==
  ASSUME Rules!Inv, Rules!StratumDone
  PROVE  Rules!Inv'
<1>0. /\ dat_pc = "fire" /\ dat_pc' = "round" /\ dat_fires = {} /\ dat_iters' = dat_iters
          /\ dat_iters \in Nat /\ dat_si' = dat_si + 1
      /\ dat_rels' = dat_rels /\ dat_prov' = dat_prov /\ dat_chosen' = dat_chosen
          /\ dat_facts' = dat_facts /\ dat_strata' = dat_strata
  BY DEF Rules!Inv, Rules!Shape, Rules!StratumDone, Rules!Fixed
<1>1. Rules!Accepted /\ Rules!Accepted' /\ dat_chosen \subseteq DOMAIN Rulebook
          /\ dat_rels = [x \in Rules!Rels |-> dat_rels[x]]
      /\ dat_si \in Nat /\ dat_si < Len(dat_strata)
          /\ \A x \in RuleInputs : dat_facts[x] \subseteq dat_rels[x]
  BY <1>0, RulesAccepted DEF Rules!Inv, Rules!Shape
<1>2. Len(dat_strata) \in Nat /\ Rules!Current \subseteq Rules!Rels
  BY <1>1, RuleLayers, RuleStrata DEF Rules!Current
<1>3. Rules!Shape'
  BY <1>0, <1>1, <1>2 DEF Rules!Inv, Rules!Shape
<1>4. Rules!Reading' /\ Rules!Owed'
  BY <1>0 DEF Rules!Reading, Rules!Owed
<1>5. Rules!Settled'
  <2> SUFFICES ASSUME NEW s \in 1 .. dat_si + 1, NEW i \in Rules!RulesOf(dat_strata[s]),
          NEW m \in Rules!Picks(Rulebook[i].atoms, Rules!Whole(Rulebook[i], dat_rels))
               PROVE  Rules!Heads(Rulebook[i], m, dat_rels) \subseteq dat_rels[Rulebook[i].rel]
    BY <1>0 DEF Rules!Settled, Rules!Heads, Rules!RulesOf
  <2>1. CASE s \in 1 .. dat_si
    BY <1>0, <2>1 DEF Rules!Inv, Rules!Settled
  <2>2. CASE s = dat_si + 1
    <3>1. dat_strata[s] = Rules!Current
      BY <2>2 DEF Rules!Current
    <3>2. i \in dat_chosen /\ i \in Rules!RulesOf(Rules!Current) /\ Rules!rule(Rulebook[i])
      BY <3>1, <1>1 DEF Rules!RulesOf, Rules!Accepted
    <3>3. ASSUME NEW k \in DOMAIN Rulebook[i].atoms
          PROVE  dat_cur[Rulebook[i].atoms[k].rel] = dat_rels[Rulebook[i].atoms[k].rel]
      <4>1. Rulebook[i].atoms[k].rel \in Rules!ReadsPos(Rulebook[i])
                /\ Rulebook[i].atoms[k].rel \in Rules!Rels
        BY <3>2, RuleReads DEF Rules!ReadsPos
      <4>2. CASE Rulebook[i].atoms[k].rel \notin Rules!Current
        BY <4>1, <4>2, <1>0 DEF Rules!Inv, Rules!Reading
      <4>3. CASE Rulebook[i].atoms[k].rel \in Rules!Current
        <5>1. Rules!recursive(Rules!Current)
          BY <4>1, <4>3, <3>2 DEF Rules!recursive
        <5> QED BY <5>1, <4>3 DEF Rules!StratumDone
      <4> QED BY <4>2, <4>3
    <3>4. Rules!Whole(Rulebook[i], dat_cur) = Rules!Whole(Rulebook[i], dat_rels)
      BY <3>3 DEF Rules!Whole
    <3> QED BY <1>0, <3>2, <3>4 DEF Rules!Inv, Rules!Owed
  <2> QED BY <2>1, <2>2, <1>1
<1>6. Rules!Proved'
  BY <1>0, <1>1 DEF Rules!Inv, Rules!Proved, Rules!Derives
<1>7. Rules!Explained' /\ Rules!Typed'
  BY <1>0, RulesKept
<1>8. Rules!Counted'
  <2> DEFINE D == {p \in DOMAIN dat_prov : p[2] \in dat_cur[p[1]]}
  <2>1. dat_iters <= dat_si + 1 + Cardinality(D)
    BY <1>0, RulesFinite, RulesCardinality DEF Rules!Inv, Rules!Counted
  <2>2. D \in SUBSET DOMAIN dat_prov /\ IsFiniteSet(DOMAIN dat_prov)
    BY RulesFinite, RulesCardinality DEF Rules!Inv, Rules!Explained
  <2> HIDE DEF D
  <2>3. Cardinality(D) <= Cardinality(DOMAIN dat_prov) /\ Cardinality(D) \in Nat
            /\ Cardinality(DOMAIN dat_prov) \in Nat
    BY <2>2, FS_Subset, FS_CardinalityType
  <2>4. dat_iters <= dat_si + 1 + Cardinality(DOMAIN dat_prov)
    BY <2>1, <2>3, <1>0, <1>1
  <2> QED BY <1>0, <2>4, RulesFinite, RulesCardinality DEF Rules!Counted
<1> QED BY <1>3, <1>4, <1>5, <1>6, <1>7, <1>8 DEF Rules!Inv

LEMMA RulesFinish ==
  ASSUME Rules!Inv, Rules!Finish
  PROVE  Rules!Inv'
<1>0. /\ dat_pc = "round" /\ dat_pc' = "done" /\ dat_iters' = dat_iters /\ dat_iters \in Nat
          /\ dat_si' = dat_si /\ dat_si = Len(dat_strata)
      /\ dat_rels' = dat_rels /\ dat_prov' = dat_prov /\ dat_chosen' = dat_chosen
          /\ dat_facts' = dat_facts /\ dat_strata' = dat_strata
  BY DEF Rules!Inv, Rules!Shape, Rules!Finish, Rules!Fixed
<1>1. Rules!Accepted /\ Rules!Accepted' /\ dat_chosen \subseteq DOMAIN Rulebook /\ Len(dat_strata) \in Nat
  BY <1>0, RulesAccepted, RuleLayers DEF Rules!Inv, Rules!Shape
<1>2. Rules!Shape'
  BY <1>0, <1>1 DEF Rules!Inv, Rules!Shape
<1>3. Rules!Reading' /\ Rules!Owed'
  BY <1>0 DEF Rules!Reading, Rules!Owed
<1>4. Rules!Settled'
  BY <1>0 DEF Rules!Inv, Rules!Settled, Rules!Heads, Rules!RulesOf
<1>5. Rules!Proved'
  BY <1>0 DEF Rules!Inv, Rules!Proved, Rules!Derives
<1>6. Rules!Explained' /\ Rules!Typed'
  BY <1>0, RulesKept
<1>7. Rules!Counted'
  BY <1>0, RulesFinite, RulesCardinality DEF Rules!Inv, Rules!Counted
<1> QED BY <1>2, <1>3, <1>4, <1>5, <1>6, <1>7 DEF Rules!Inv

LEMMA RulesFire ==
  ASSUME Rules!Inv, Rules!fire
  PROVE  Rules!Inv'
<1>0. /\ dat_pc = "fire" /\ dat_si' = dat_si /\ dat_prev' = dat_prev /\ dat_cur' = dat_cur
          /\ dat_iters' = dat_iters
      /\ dat_chosen' = dat_chosen /\ dat_facts' = dat_facts /\ dat_strata' = dat_strata
  BY DEF Rules!fire, Rules!Fixed
<1>1. PICK f \in dat_fires : dat_fires' = dat_fires \ {f} /\ Rules!Fires(f)
  BY DEF Rules!fire
<1> DEFINE r == Rulebook[f.rule]
           rg == Rules!Ranges(r, f.delta, Rules!Current)
           J == Rules!join(r, rg, dat_rels)
           derived == {Rules!headOf(r, q.bind) : q \in J}
           told == {<<r.rel, t>> : t \in {d \in derived : ~Rules!Kept(r.rel, d)}}
           first(t) == CHOOSE q \in J : Rules!headOf(r, q.bind) = t
<1>2. /\ dat_rels' = [dat_rels EXCEPT ![r.rel] = @ \cup derived]
      /\ dat_prov' = [p \in told \cup DOMAIN dat_prov |->
                    IF p \in told THEN [rule |-> f.rule, at |-> Cardinality(DOMAIN dat_prov),
                        kids |-> first(p[2]).kids] ELSE dat_prov[p]]
      /\ dat_pc' \in {"fire", "limit"}
  BY <1>1, RulesFinite, RulesCardinality DEF Rules!Fires
<1>3. Rules!Accepted /\ Rules!Accepted' /\ dat_chosen \subseteq DOMAIN Rulebook
          /\ dat_rels = [x \in Rules!Rels |-> dat_rels[x]]
      /\ dat_si \in Nat /\ dat_iters \in Nat /\ dat_si < Len(dat_strata) /\ dat_facts \in RuleFacts
          /\ \A x \in RuleInputs : dat_facts[x] \subseteq dat_rels[x]
  BY <1>0, RulesAccepted DEF Rules!Inv, Rules!Shape
<1>4. /\ Len(dat_strata) \in Nat /\ DOMAIN dat_strata = 1 .. Len(dat_strata)
          /\ dat_si + 1 \in DOMAIN dat_strata /\ Rules!Current \subseteq Rules!Rels
      /\ Rules!Current = dat_strata[dat_si + 1]
  BY <1>3, RuleLayers, RuleStrata DEF Rules!Current
<1>5. f.rule \in Rules!RulesOf(Rules!Current) /\ f.rule \in dat_chosen /\ f.rule \in DOMAIN Rulebook
          /\ r.rel \in Rules!Current /\ r.rel \in Rules!Rels /\ Rules!rule(r)
  BY <1>0, <1>1, <1>3, <1>4 DEF Rules!Inv, Rules!Reading, Rules!RulesOf, Rules!Accepted
<1>6. Rules!Current' = Rules!Current /\ \A s : Rules!RulesOf(s)' = Rules!RulesOf(s)
  BY <1>0 DEF Rules!Current, Rules!RulesOf
\* Relations only grow, and only the one that the rule derives.
<1>7. /\ \A x \in Rules!Rels : dat_rels[x] \subseteq dat_rels'[x]
      /\ \A x \in Rules!Rels \ Rules!Current : dat_rels'[x] = dat_rels[x]
      /\ dat_rels'[r.rel] = dat_rels[r.rel] \cup derived
          /\ \A x \in Rules!Rels \ {r.rel} : dat_rels'[x] = dat_rels[x]
      /\ dat_rels' = [x \in Rules!Rels |-> dat_rels'[x]]
  <2> HIDE DEF derived, r
  <2> QED BY <1>2, <1>3, <1>5
\* What a rule up to this stratum negates or aggregates stays.
<1>8. ASSUME NEW i \in dat_chosen, NEW s \in DOMAIN dat_strata, Rulebook[i].rel \in dat_strata[s],
                 s <= dat_si + 1, NEW m
      PROVE  Rules!Firing(Rulebook[i], m, dat_rels') = Rules!Firing(Rulebook[i], m, dat_rels)
  <2>1. ASSUME NEW x \in Rules!ReadsNeg(Rulebook[i]) \cup Rules!ReadsAgg(Rulebook[i])
        PROVE  dat_rels'[x] = dat_rels[x]
    <3>1. x \in Rules!Rels
      BY <1>3, RuleReads DEF Rules!Accepted
    <3>2. x \notin Rules!Current
      <4> SUFFICES ASSUME x \in dat_strata[dat_si + 1] PROVE FALSE
        BY <1>4
      <4>1. dat_si + 1 <= s
        BY <1>3, <1>4, <1>8, RuleLayers
      <4>2. s = dat_si + 1
        BY <4>1, <1>3, <1>4, <1>8
      <4> QED BY <4>2, <1>3, <1>4, <1>8, RuleLayers
    <3> QED BY <3>1, <3>2, <1>7
  <2> QED BY <2>1, RuleFiringLocal
\* The tuples a rule can pick stay pickable.
<1>9. ASSUME NEW i \in dat_chosen, NEW m \in Rules!Picks(Rulebook[i].atoms, Rules!Whole(Rulebook[i],
                 dat_rels))
      PROVE  m \in Rules!Picks(Rulebook[i].atoms, Rules!Whole(Rulebook[i], dat_rels'))
  <2>1. \A k \in DOMAIN Rulebook[i].atoms : Rulebook[i].atoms[k].rel \in Rules!Rels
    BY <1>3, RuleReads DEF Rules!Accepted, Rules!ReadsPos
  <2>2. m = [k \in DOMAIN Rulebook[i].atoms |-> m[k]]
            /\ \A k \in DOMAIN Rulebook[i].atoms : m[k] \in Rules!Whole(Rulebook[i], dat_rels)[k]
    BY RulePicks
  <2>3. \A k \in DOMAIN Rulebook[i].atoms : m[k] \in Rules!Whole(Rulebook[i], dat_rels')[k]
    BY <2>1, <2>2, <1>7 DEF Rules!Whole
  <2> QED BY <2>2, <2>3, RulePicks
\* A round reads tuples that are there.
<1>10. \A k \in DOMAIN r.atoms : r.atoms[k].rel \in Rules!Rels /\ rg[k] \subseteq dat_rels[r.atoms[k].rel]
  <2>1. \A k \in DOMAIN r.atoms : r.atoms[k].rel \in Rules!Rels
    BY <1>5, RuleReads DEF Rules!ReadsPos
  <2>2. \A x \in Rules!Rels : dat_prev[x] \subseteq dat_cur[x] /\ dat_cur[x] \subseteq dat_rels[x]
    BY <1>0 DEF Rules!Inv, Rules!Reading
  <2> HIDE DEF r
  <2> QED BY <2>1, <2>2 DEF Rules!Ranges
<1>11. ASSUME NEW m \in Rules!Picks(r.atoms, rg) PROVE m \in Rules!Picks(r.atoms, Rules!Whole(r, dat_rels))
  <2> HIDE DEF r, rg
  <2>1. m = [k \in DOMAIN r.atoms |-> m[k]] /\ \A k \in DOMAIN r.atoms : m[k] \in rg[k]
    BY RulePicks
  <2>2. \A k \in DOMAIN r.atoms : m[k] \in Rules!Whole(r, dat_rels)[k]
    BY <2>1, <1>10 DEF Rules!Whole
  <2> QED BY <2>1, <2>2, RulePicks
<1>12. \A q : q \in J <=> \E m \in Rules!Picks(r.atoms, rg) : q \in Rules!Firing(r, m, dat_rels)
  BY DEF Rules!join
<1>13. \A t \in derived : first(t) \in J /\ Rules!headOf(r, first(t).bind) = t
  <2> HIDE DEF J
  <2> QED OBVIOUS
<1>14. \A p \in told : p = <<r.rel, p[2]>> /\ p[1] = r.rel /\ p[2] \in derived
           /\ p[2] \notin dat_rels[r.rel]
  <2> HIDE DEF derived
  <2> QED BY DEF Rules!Kept
<1>15. told \cap DOMAIN dat_prov = {}
  <2> HIDE DEF told, derived, r
  <2> QED BY <1>14, RulesFinite, RulesCardinality DEF Rules!Inv, Rules!Explained
<1>16. /\ DOMAIN dat_prov' = told \cup DOMAIN dat_prov
       /\ \A p \in DOMAIN dat_prov : dat_prov'[p] = dat_prov[p]
       /\ \A p \in told : dat_prov'[p] = [rule |-> f.rule, at |-> Cardinality(DOMAIN dat_prov),
           kids |-> first(p[2]).kids]
  <2> HIDE DEF told, first
  <2> QED BY <1>2, <1>15
<1> HIDE DEF told, derived, first, J, rg
<1>17. Rules!Shape'
  BY <1>0, <1>2, <1>3, <1>7 DEF Rules!Inv, Rules!Shape
<1>18. Rules!Reading'
  <2>1. \A g \in dat_fires' : g.rule \in Rules!RulesOf(Rules!Current)
    BY <1>0, <1>1 DEF Rules!Inv, Rules!Reading
  <2>2. \A x \in Rules!Rels : dat_prev[x] \subseteq dat_cur[x] /\ dat_cur[x] \subseteq dat_rels'[x]
    BY <1>0, <1>7 DEF Rules!Inv, Rules!Reading
  <2>3. \A x \in Rules!Rels \ Rules!Current : dat_cur[x] = dat_rels'[x]
    BY <1>0, <1>7 DEF Rules!Inv, Rules!Reading
  <2> QED BY <1>0, <1>6, <2>1, <2>2, <2>3 DEF Rules!Inv, Rules!Reading
<1>19. Rules!Settled'
  <2> SUFFICES ASSUME NEW s \in 1 .. dat_si, NEW i \in Rules!RulesOf(dat_strata[s]),
          NEW m \in Rules!Picks(Rulebook[i].atoms, Rules!Whole(Rulebook[i], dat_rels'))
               PROVE  Rules!Heads(Rulebook[i], m, dat_rels') \subseteq dat_rels'[Rulebook[i].rel]
    BY <1>0, <1>6 DEF Rules!Settled, Rules!Heads
  <2>1. i \in dat_chosen /\ Rulebook[i].rel \in dat_strata[s] /\ s \in DOMAIN dat_strata
            /\ s <= dat_si + 1 /\ s <= dat_si
    BY <1>3, <1>4 DEF Rules!RulesOf
  <2>2. ASSUME NEW x \in Rules!ReadsPos(Rulebook[i]) PROVE x \in Rules!Rels /\ x \notin Rules!Current
    <3>1. x \in Rules!Rels
      BY <2>1, <1>3, RuleReads DEF Rules!Accepted
    <3>2. x \in dat_strata[dat_si + 1] => dat_si + 1 <= s
      BY <2>1, <1>3, <1>4, RuleLayers
    <3>3. x \notin dat_strata[dat_si + 1]
      BY <3>2, <2>1, <1>3
    <3> QED BY <3>1, <3>3, <1>4
  <2>3. Rules!Whole(Rulebook[i], dat_rels') = Rules!Whole(Rulebook[i], dat_rels)
    BY <2>2, <1>7 DEF Rules!Whole, Rules!ReadsPos
  <2>4. Rules!Heads(Rulebook[i], m, dat_rels') = Rules!Heads(Rulebook[i], m, dat_rels)
    BY <2>1, <1>8 DEF Rules!Heads
  <2>5. Rules!Heads(Rulebook[i], m, dat_rels) \subseteq dat_rels[Rulebook[i].rel]
    BY <1>0, <2>3 DEF Rules!Inv, Rules!Settled
  <2>6. Rulebook[i].rel \in Rules!Rels
    BY <2>1, <1>3, RuleReads DEF Rules!Accepted
  <2> QED BY <2>4, <2>5, <2>6, <1>7
<1>20. Rules!Owed'
  <2>0. /\ \A i, d : Rules!Ranges(Rulebook[i], d, Rules!Current)' = Rules!Ranges(Rulebook[i], d,
            Rules!Current)
        /\ Rules!RulesOf(Rules!Current)' = Rules!RulesOf(Rules!Current)
        /\ \A i, m : Rules!Heads(Rulebook[i], m, dat_rels)' = Rules!Heads(Rulebook[i], m, dat_rels')
    BY <1>0, <1>6 DEF Rules!Ranges, Rules!Heads
  <2> SUFFICES ASSUME NEW i \in Rules!RulesOf(Rules!Current)', NEW m \in Rules!Picks(Rulebook[i].atoms,
          Rules!Whole(Rulebook[i], dat_cur))'
               PROVE  \/ Rules!Heads(Rulebook[i], m, dat_rels)' \subseteq dat_rels'[Rulebook[i].rel]
                      \/ \E g \in dat_fires' : g.rule = i
                          /\ m \in Rules!Picks(Rulebook[i].atoms, Rules!Ranges(Rulebook[i], g.delta,
                              Rules!Current)')
    BY DEF Rules!Owed
  <2>6. i \in Rules!RulesOf(Rules!Current)
            /\ m \in Rules!Picks(Rulebook[i].atoms, Rules!Whole(Rulebook[i], dat_cur))
    BY <1>0, <2>0
  <2>7. SUFFICES \/ Rules!Heads(Rulebook[i], m, dat_rels') \subseteq dat_rels'[Rulebook[i].rel]
                 \/ \E g \in dat_fires' : g.rule = i
                     /\ m \in Rules!Picks(Rulebook[i].atoms, Rules!Ranges(Rulebook[i], g.delta,
                         Rules!Current))
    BY <2>0
  <2>1. i \in dat_chosen /\ Rulebook[i].rel \in Rules!Current /\ Rulebook[i].rel \in Rules!Rels
    BY <2>6, <1>4 DEF Rules!RulesOf
  <2>2. Rules!Heads(Rulebook[i], m, dat_rels') = Rules!Heads(Rulebook[i], m, dat_rels)
    <3>1. dat_si + 1 <= dat_si + 1 /\ Rulebook[i].rel \in dat_strata[dat_si + 1]
      BY <2>1, <1>3, <1>4
    <3>2. Rules!Firing(Rulebook[i], m, dat_rels') = Rules!Firing(Rulebook[i], m, dat_rels)
      BY <2>1, <3>1, <1>4, <1>8
    <3> QED BY <3>2 DEF Rules!Heads
  <2>3. CASE Rules!Heads(Rulebook[i], m, dat_rels) \subseteq dat_rels[Rulebook[i].rel]
    BY <2>1, <2>2, <2>3, <1>7
  <2>4. ASSUME NEW g \in dat_fires, g.rule = i, m \in Rules!Picks(Rulebook[i].atoms,
                   Rules!Ranges(Rulebook[i], g.delta, Rules!Current))
        PROVE  \/ Rules!Heads(Rulebook[i], m, dat_rels') \subseteq dat_rels'[Rulebook[i].rel]
               \/ \E h \in dat_fires' : h.rule = i
                   /\ m \in Rules!Picks(Rulebook[i].atoms, Rules!Ranges(Rulebook[i], h.delta,
                       Rules!Current))
    <3>1. CASE g # f
      BY <3>1, <2>4, <1>1
    <3>2. CASE g = f
      <4>1. m \in Rules!Picks(r.atoms, rg) /\ Rulebook[i] = r
        BY <2>4, <3>2 DEF rg
      <4>2. Rules!Heads(r, m, dat_rels) \subseteq derived
        BY <4>1, <1>12 DEF Rules!Heads, derived
      <4> QED BY <4>1, <4>2, <2>2, <1>7
    <3> QED BY <3>1, <3>2
  <2>5. \/ Rules!Heads(Rulebook[i], m, dat_rels) \subseteq dat_rels[Rulebook[i].rel]
        \/ \E g \in dat_fires : g.rule = i
            /\ m \in Rules!Picks(Rulebook[i].atoms, Rules!Ranges(Rulebook[i], g.delta, Rules!Current))
    BY <2>6, <1>0 DEF Rules!Inv, Rules!Owed
  <2> QED BY <2>3, <2>4, <2>5
<1>21. Rules!Proved'
  <2> SUFFICES ASSUME dat_pc' = "fire", NEW p \in DOMAIN dat_prov'
               PROVE  LET i == dat_prov'[p].rule
                      IN /\ i \in dat_chosen /\ Rulebook[i].rel = p[1]
                         /\ \E s \in DOMAIN dat_strata : Rulebook[i].rel \in dat_strata[s]
                             /\ s <= dat_si + 1
                         /\ \E m \in Rules!Picks(Rulebook[i].atoms, Rules!Whole(Rulebook[i], dat_rels')) :
                              \E q \in Rules!Firing(Rulebook[i], m,
                                  dat_rels') : q.kids = dat_prov'[p].kids
                                      /\ Rules!headOf(Rulebook[i], q.bind) = p[2]
    <3>1. \A i, m, p : (\E q \in Rules!Firing(Rulebook[i], m, dat_rels') : q.kids = dat_prov'[p].kids
              /\ Rules!headOf(Rulebook[i], q.bind) = p[2])
                       => Rules!Derives(Rulebook[i], m, p)'
      BY DEF Rules!Derives
    <3>2. dat_pc' # "fire" => Rules!Proved'
      BY <1>2 DEF Rules!Proved
    <3>3. \A i : Rules!Whole(Rulebook[i], dat_rels)' = Rules!Whole(Rulebook[i], dat_rels')
      OBVIOUS
    <3> HIDE DEF r
    <3> QED BY <3>1, <3>2, <3>3, <1>0 DEF Rules!Proved
  <2>1. CASE p \in DOMAIN dat_prov
    <3> DEFINE i == dat_prov[p].rule
    <3>1. dat_prov'[p] = dat_prov[p]
      BY <2>1, <1>16
    <3>2. i \in dat_chosen /\ Rulebook[i].rel = p[1]
      BY <2>1, <1>0 DEF Rules!Inv, Rules!Proved
    <3>3. PICK s \in DOMAIN dat_strata : Rulebook[i].rel \in dat_strata[s] /\ s <= dat_si + 1
      BY <2>1, <1>0 DEF Rules!Inv, Rules!Proved
    <3>4. PICK m \in Rules!Picks(Rulebook[i].atoms, Rules!Whole(Rulebook[i],
                   dat_rels)) : Rules!Derives(Rulebook[i], m, p)
      BY <2>1, <1>0 DEF Rules!Inv, Rules!Proved
    <3> HIDE DEF i
    <3>5. PICK q \in Rules!Firing(Rulebook[i], m, dat_rels) : q.kids = dat_prov[p].kids
                   /\ Rules!headOf(Rulebook[i], q.bind) = p[2]
      BY <3>4 DEF Rules!Derives
    <3>6. m \in Rules!Picks(Rulebook[i].atoms, Rules!Whole(Rulebook[i], dat_rels'))
      BY <3>2, <1>9
    <3>7. q \in Rules!Firing(Rulebook[i], m, dat_rels')
      BY <3>2, <3>3, <1>8
    <3>8. dat_prov'[p].rule = i
      BY <3>1 DEF i
    <3> QED BY <3>1, <3>2, <3>3, <3>5, <3>6, <3>7, <3>8
  <2>2. CASE p \in told
    <3>1. dat_prov'[p].rule = f.rule /\ dat_prov'[p].kids = first(p[2]).kids
      BY <2>2, <1>16
    <3>2. p[1] = r.rel /\ p[2] \in derived
      BY <2>2, <1>14
    <3> DEFINE q == first(p[2])
    <3>3. q \in J /\ Rules!headOf(r, q.bind) = p[2]
      BY <3>2, <1>13
    <3> HIDE DEF q
    <3>4. PICK m \in Rules!Picks(r.atoms, rg) : q \in Rules!Firing(r, m, dat_rels)
      BY <3>3, <1>12
    <3>5. m \in Rules!Picks(r.atoms, Rules!Whole(r, dat_rels'))
      BY <1>5, <1>9, <1>11
    <3>6. q \in Rules!Firing(r, m, dat_rels')
      <4>1. Rules!Firing(Rulebook[f.rule], m, dat_rels') = Rules!Firing(Rulebook[f.rule], m, dat_rels)
        <5>1. f.rule \in dat_chosen /\ dat_si + 1 \in DOMAIN dat_strata
                  /\ Rulebook[f.rule].rel \in dat_strata[dat_si + 1] /\ dat_si + 1 <= dat_si + 1
          BY <1>3, <1>4, <1>5
        <5> QED BY <5>1, <1>8
      <4> QED BY <4>1, <3>4
    <3>7. r.rel \in dat_strata[dat_si + 1] /\ dat_si + 1 \in DOMAIN dat_strata
      BY <1>4, <1>5
    <3>8. \E s \in DOMAIN dat_strata : r.rel \in dat_strata[s] /\ s <= dat_si + 1
      BY <3>7, <1>3
    <3>9. dat_prov'[p].kids = q.kids
      BY <3>1 DEF q
    <3> QED BY <3>1, <3>2, <3>3, <3>5, <3>6, <3>8, <3>9, <1>5
  <2> QED BY <2>1, <2>2, <1>16
<1>22. IsFiniteSet(derived) /\ IsFiniteSet(told)
  <2>1. \A k \in DOMAIN r.atoms : IsFiniteSet(rg[k])
    <3>1. \A k \in DOMAIN r.atoms : IsFiniteSet(dat_rels[r.atoms[k].rel])
              /\ rg[k] \in SUBSET dat_rels[r.atoms[k].rel]
      BY <1>10, RulesFinite, RulesCardinality DEF Rules!Inv, Rules!Explained
    <3> QED BY <3>1, FS_Subset
  <2>2. IsFiniteSet(J)
    BY <2>1, <1>5, RuleJoinFinite DEF J
  <2>3. IsFiniteSet(derived)
    BY <2>2, RuleHeadsFinite DEF derived
  <2> DEFINE Fresh == {d \in derived : ~Rules!Kept(r.rel, d)}
             g == [d \in Fresh |-> <<r.rel, d>>]
  <2>4. IsFiniteSet(Fresh)
    <3>1. Fresh \in SUBSET derived
      OBVIOUS
    <3> HIDE DEF Fresh
    <3> QED BY <2>3, <3>1, FS_Subset
  <2>5. DOMAIN g = Fresh /\ g = [d \in Fresh |-> g[d]] /\ told = {g[d] : d \in Fresh}
    BY DEF told
  <2> HIDE DEF g, Fresh
  <2>6. IsFiniteSet(told)
    BY <2>4, <2>5, FiniteImage
  <2> QED BY <2>3, <2>6
<1>23. /\ IsFiniteSet(DOMAIN dat_prov') /\ DOMAIN dat_prov \in SUBSET DOMAIN dat_prov'
       /\ Cardinality(DOMAIN dat_prov) \in Nat /\ Cardinality(DOMAIN dat_prov') \in Nat
       /\ Cardinality(DOMAIN dat_prov) <= Cardinality(DOMAIN dat_prov')
       /\ told # {} => Cardinality(DOMAIN dat_prov) < Cardinality(DOMAIN dat_prov')
  <2>1. IsFiniteSet(DOMAIN dat_prov)
    BY RulesFinite, RulesCardinality DEF Rules!Inv, Rules!Explained
  <2>2. IsFiniteSet(DOMAIN dat_prov') /\ DOMAIN dat_prov \in SUBSET DOMAIN dat_prov'
    BY <2>1, <1>16, <1>22, FS_Union
  <2>3. told # {} => DOMAIN dat_prov # DOMAIN dat_prov'
    BY <1>15, <1>16
  <2>4. Cardinality(DOMAIN dat_prov) \in Nat /\ Cardinality(DOMAIN dat_prov') \in Nat
    BY <2>1, <2>2, FS_CardinalityType
  <2>5. /\ Cardinality(DOMAIN dat_prov) <= Cardinality(DOMAIN dat_prov')
        /\ told # {} => Cardinality(DOMAIN dat_prov) # Cardinality(DOMAIN dat_prov')
    BY <2>2, <2>3, FS_Subset
  <2> QED BY <2>2, <2>4, <2>5
<1>24. Rules!Explained'
  <2>1. ASSUME NEW p \in DOMAIN dat_prov'
        PROVE  /\ p = <<p[1], p[2]>> /\ p[1] \in Rules!Rels /\ p[2] \in dat_rels'[p[1]]
               /\ dat_prov'[p].at \in Nat /\ dat_prov'[p].at < Cardinality(DOMAIN dat_prov')
               /\ \A k \in dat_prov'[p].kids : /\ k = <<k[1], k[2]>> /\ k[1] \in Rules!Rels
                   /\ k[2] \in dat_rels'[k[1]]
                                           /\ IF k \in DOMAIN dat_prov' THEN dat_prov'[k].at < dat_prov'[p].at ELSE k[2] \in dat_facts[k[1]]
    <3>0. ASSUME NEW k, k = <<k[1], k[2]>>, k[2] \in dat_rels[k[1]], k[1] \in Rules!Rels
          PROVE  k[2] \in dat_rels'[k[1]] /\ k \notin told
      BY <3>0, <1>7, <1>14
    <3>1. CASE p \in DOMAIN dat_prov
      <4>1. dat_prov'[p] = dat_prov[p]
        BY <3>1, <1>16
      <4>2. p = <<p[1], p[2]>> /\ p[1] \in Rules!Rels /\ p[2] \in dat_rels[p[1]] /\ dat_prov[p].at \in Nat
                /\ dat_prov[p].at < Cardinality(DOMAIN dat_prov)
        BY <3>1, RulesFinite, RulesCardinality DEF Rules!Inv, Rules!Explained
      <4>3. dat_prov'[p].at \in Nat /\ dat_prov'[p].at < Cardinality(DOMAIN dat_prov')
        BY <4>1, <4>2, <1>23
      <4>4. ASSUME NEW k \in dat_prov[p].kids
            PROVE  /\ k = <<k[1], k[2]>> /\ k[1] \in Rules!Rels /\ k[2] \in dat_rels'[k[1]]
                   /\ IF k \in DOMAIN dat_prov' THEN dat_prov'[k].at < dat_prov[p].at ELSE k[2] \in dat_facts[k[1]]
        <5>1. /\ k = <<k[1], k[2]>> /\ k[1] \in Rules!Rels /\ k[2] \in dat_rels[k[1]]
              /\ IF k \in DOMAIN dat_prov THEN dat_prov[k].at < dat_prov[p].at ELSE k[2] \in dat_facts[k[1]]
          BY <3>1, RulesFinite, RulesCardinality DEF Rules!Inv, Rules!Explained
        <5>2. k[2] \in dat_rels'[k[1]] /\ k \notin told
          BY <3>0, <5>1
        <5> QED BY <5>1, <5>2, <1>16
      <4>5. p[2] \in dat_rels'[p[1]]
        BY <4>2, <1>7
      <4> QED BY <4>1, <4>2, <4>3, <4>4, <4>5
    <3>2. CASE p \in told
      <4>1. dat_prov'[p].at = Cardinality(DOMAIN dat_prov) /\ dat_prov'[p].kids = first(p[2]).kids
        BY <3>2, <1>16
      <4>2. p = <<p[1], p[2]>> /\ p[1] = r.rel /\ p[2] \in derived
        BY <3>2, <1>14
      <4>3. p[1] \in Rules!Rels /\ p[2] \in dat_rels'[p[1]]
        BY <4>2, <1>5, <1>7
      <4>4. dat_prov'[p].at \in Nat /\ dat_prov'[p].at < Cardinality(DOMAIN dat_prov')
        BY <3>2, <4>1, <1>23
      <4> DEFINE q == first(p[2])
      <4>5. q \in J
        BY <4>2, <1>13
      <4>6. PICK m \in Rules!Picks(r.atoms, rg) : q \in Rules!Firing(r, m, dat_rels)
        <5> HIDE DEF q
        <5> QED BY <4>5, <1>12
      <4>7. q.kids = {<<r.atoms[k].rel, m[k]>> : k \in DOMAIN r.atoms}
        <5> HIDE DEF q, r
        <5> QED BY <4>6, RuleMatches
      <4>8. ASSUME NEW j \in DOMAIN r.atoms
            PROVE  LET k == <<r.atoms[j].rel, m[j]>>
                   IN /\ k = <<k[1], k[2]>> /\ k[1] \in Rules!Rels /\ k[2] \in dat_rels'[k[1]]
                      /\ IF k \in DOMAIN dat_prov' THEN dat_prov'[k].at < Cardinality(DOMAIN dat_prov) ELSE k[2] \in dat_facts[k[1]]
        <5> DEFINE k == <<r.atoms[j].rel, m[j]>>
        <5>1. m[j] \in dat_rels[r.atoms[j].rel] /\ r.atoms[j].rel \in Rules!Rels
          BY <1>10, RulePicks
        <5>2. k = <<k[1], k[2]>> /\ k[1] \in Rules!Rels /\ k[2] \in dat_rels[k[1]]
          BY <5>1
        <5> HIDE DEF k
        <5>3. k[2] \in dat_rels'[k[1]] /\ k \notin told
          BY <3>0, <5>2
        <5>4. k \in DOMAIN dat_prov => dat_prov[k].at < Cardinality(DOMAIN dat_prov)
          BY RulesFinite, RulesCardinality DEF Rules!Inv, Rules!Explained
        <5>5. k \notin DOMAIN dat_prov => k[2] \in dat_facts[k[1]]
          BY <5>2, RulesFinite, RulesCardinality DEF Rules!Inv, Rules!Explained
        <5>6. IF k \in DOMAIN dat_prov' THEN dat_prov'[k].at < Cardinality(DOMAIN dat_prov) ELSE k[2] \in dat_facts[k[1]]
          BY <5>3, <5>4, <5>5, <1>16
        <5> QED BY <5>2, <5>3, <5>6 DEF k
      <4>9. ASSUME NEW k \in dat_prov'[p].kids
            PROVE  /\ k = <<k[1], k[2]>> /\ k[1] \in Rules!Rels /\ k[2] \in dat_rels'[k[1]]
                   /\ IF k \in DOMAIN dat_prov' THEN dat_prov'[k].at < dat_prov'[p].at ELSE k[2] \in dat_facts[k[1]]
        <5>1. PICK j \in DOMAIN r.atoms : k = <<r.atoms[j].rel, m[j]>>
          BY <4>1, <4>7
        <5> QED BY <5>1, <4>1, <4>8
      <4> QED BY <4>2, <4>3, <4>4, <4>9
    <3> QED BY <3>1, <3>2, <1>16
  <2>2. ASSUME NEW x \in Rules!Rels
        PROVE  /\ IsFiniteSet(dat_rels'[x])
               /\ \A t \in dat_rels'[x] : <<x, t>> \in DOMAIN dat_prov' \/ (x \in RuleInputs
                   /\ t \in dat_facts[x])
    <3>1. IsFiniteSet(dat_rels[x]) /\ \A t \in dat_rels[x] : <<x, t>> \in DOMAIN dat_prov
              \/ (x \in RuleInputs /\ t \in dat_facts[x])
      BY RulesFinite, RulesCardinality DEF Rules!Inv, Rules!Explained
    <3>2. CASE x # r.rel
      BY <3>1, <3>2, <1>7, <1>16
    <3>3. CASE x = r.rel
      <4>1. IsFiniteSet(dat_rels'[x])
        <5>1. dat_rels'[x] = dat_rels[x] \cup derived
          BY <3>3, <1>7
        <5> QED BY <5>1, <3>1, <1>22, FS_Union
      <4>2. ASSUME NEW t \in derived, t \notin dat_rels[x] PROVE <<x, t>> \in told
        BY <3>3, <4>2 DEF told, Rules!Kept
      <4> QED BY <3>1, <3>3, <4>1, <4>2, <1>7, <1>16
    <3> QED BY <3>2, <3>3
  <2> QED BY <1>0, <1>23, <2>1, <2>2, RulesFinite, RulesCardinality DEF Rules!Explained
<1>25. Rules!Typed'
  <2>1. Rules!Used' = Rules!Used
    BY <1>0 DEF Rules!Used, Rules!Program
  <2>2. ASSUME NEW t \in derived
        PROVE  DOMAIN t = DOMAIN RuleDecls[r.rel]
                   /\ \A j \in DOMAIN RuleDecls[r.rel] : RuleDecls[r.rel][j] = "symbol"
                       => t[j] \in Rules!Used
    <3>1. PICK q \in J : t = Rules!headOf(r, q.bind)
      BY DEF derived
    <3>2. PICK m \in Rules!Picks(r.atoms, rg) : q \in Rules!Firing(r, m, dat_rels)
      BY <1>12
    <3>3. Rules!Typed
      BY DEF Rules!Inv
    <3> QED BY <3>1, <3>2, <3>3, <1>5, <1>10, RuleHeadTyped
  <2>3. ASSUME NEW x \in Rules!Rels, NEW t \in dat_rels'[x]
        PROVE  DOMAIN t = DOMAIN RuleDecls[x] /\ \A j \in DOMAIN RuleDecls[x] : RuleDecls[x][j] = "symbol"
                   => t[j] \in Rules!Used
    <3>1. CASE t \in dat_rels[x]
      BY <3>1 DEF Rules!Inv, Rules!Typed
    <3>2. CASE x = r.rel /\ t \in derived
      BY <3>2, <2>2
    <3> QED BY <3>1, <3>2, <1>7
  <2> QED BY <2>1, <2>3 DEF Rules!Typed
<1>26. Rules!Counted'
  <2> DEFINE D == {p \in DOMAIN dat_prov : p[2] \in dat_cur[p[1]]}
             E == {p \in DOMAIN dat_prov' : p[2] \in dat_cur[p[1]]}
  <2>1. dat_iters <= dat_si + 1 + Cardinality(D)
    BY <1>0, RulesFinite, RulesCardinality DEF Rules!Inv, Rules!Counted
  <2>2. D \in SUBSET E /\ E \in SUBSET DOMAIN dat_prov'
    BY <1>23
  <2>3. E = {p \in DOMAIN dat_prov : p[2] \in dat_cur[p[1]]}' /\ dat_iters' = dat_iters
            /\ dat_si' = dat_si /\ dat_strata' = dat_strata
    BY <1>0
  <2> HIDE DEF D, E
  <2>4. IsFiniteSet(E) /\ Cardinality(E) <= Cardinality(DOMAIN dat_prov')
    BY <2>2, <1>23, FS_Subset
  <2>5. IsFiniteSet(D) /\ Cardinality(D) <= Cardinality(E)
    BY <2>2, <2>4, FS_Subset
  <2>6. Cardinality(D) \in Nat /\ Cardinality(E) \in Nat
    BY <2>4, <2>5, FS_CardinalityType
  <2>7. dat_iters <= dat_si + 1 + Cardinality(E)
            /\ dat_iters <= Len(dat_strata) + Cardinality(DOMAIN dat_prov') + 1
    BY <2>1, <2>4, <2>5, <2>6, <1>3, <1>4, <1>23
  <2> QED BY <1>2, <2>3, <2>7, RulesFinite, RulesCardinality DEF Rules!Counted
<1> QED BY <1>17, <1>18, <1>19, <1>20, <1>21, <1>24, <1>25, <1>26 DEF Rules!Inv

LEMMA RulesStutter ==
  ASSUME Rules!Inv, UNCHANGED Rules!vars
  PROVE  Rules!Inv'
<1> USE DEF Rules!vars
<1>1. Rules!Accepted' = Rules!Accepted
  BY RulesAccepted
<1>2. Rules!Shape'
  BY <1>1 DEF Rules!Inv, Rules!Shape
<1>3. Rules!Reading'
  BY DEF Rules!Inv, Rules!Reading, Rules!Current, Rules!RulesOf
<1>4. Rules!Settled'
  BY DEF Rules!Inv, Rules!Settled, Rules!RulesOf, Rules!Heads
<1>5. Rules!Owed'
  <2>1. \A i, d : Rules!Ranges(Rulebook[i], d, Rules!Current)' = Rules!Ranges(Rulebook[i], d, Rules!Current)
    BY DEF Rules!Ranges, Rules!Current
  <2>2. Rules!Current' = Rules!Current /\ Rules!RulesOf(Rules!Current)' = Rules!RulesOf(Rules!Current)
    BY DEF Rules!Current, Rules!RulesOf
  <2> QED BY <2>1, <2>2 DEF Rules!Inv, Rules!Owed, Rules!Heads
<1>6. Rules!Proved'
  BY DEF Rules!Inv, Rules!Proved, Rules!Derives
<1>7. Rules!Explained' /\ Rules!Typed'
  BY RulesKept
<1>8. Rules!Counted'
  BY RulesFinite, RulesCardinality DEF Rules!Inv, Rules!Counted
<1> QED BY <1>2, <1>3, <1>4, <1>5, <1>6, <1>7, <1>8 DEF Rules!Inv

LEMMA RulesStep ==
  ASSUME Rules!Inv, [Rules!Next]_(Rules!vars)
  PROVE  Rules!Inv'
<1>1. CASE \E i \in DOMAIN Rulebook : Rules!Write(i)
  BY <1>1, RulesWrite
<1>2. CASE Rules!compile
  BY <1>2, RulesCompile
<1>3. CASE Rules!load
  BY <1>3, RulesLoad
<1>4. CASE Rules!FirstRound
  BY <1>4, RulesFirstRound
<1>5. CASE Rules!NextRound
  BY <1>5, RulesNextRound
<1>6. CASE Rules!StratumDone
  BY <1>6, RulesStratumDone
<1>7. CASE Rules!Finish
  BY <1>7, RulesFinish
<1>8. CASE Rules!fire
  BY <1>8, RulesFire
<1>9. CASE UNCHANGED Rules!vars
  BY <1>9, RulesStutter
<1> QED BY <1>1, <1>2, <1>3, <1>4, <1>5, <1>6, <1>7, <1>8, <1>9 DEF Rules!Next

LEMMA RulesHold ==
  ASSUME Rules!Inv
  PROVE  Rules!Closed /\ Rules!Supported /\ Rules!ExplainEnds /\ Rules!ActiveDomain /\ Rules!RoundsBounded
<1>1. Rules!Closed
  <2> SUFFICES ASSUME dat_pc = "done", NEW i \in dat_chosen, NEW q \in Rules!join(Rulebook[i],
          Rules!Whole(Rulebook[i], dat_rels), dat_rels)
               PROVE  Rules!headOf(Rulebook[i], q.bind) \in dat_rels[Rulebook[i].rel]
    BY DEF Rules!Closed
  <2>1. Rules!Accepted /\ dat_chosen \subseteq DOMAIN Rulebook /\ dat_si = Len(dat_strata)
    BY DEF Rules!Inv, Rules!Shape
  <2>2. PICK s \in 1 .. dat_si : Rulebook[i].rel \in dat_strata[s]
    BY <2>1, RuleLayers
  <2>3. i \in Rules!RulesOf(dat_strata[s])
    BY <2>2 DEF Rules!RulesOf
  <2>4. PICK m \in Rules!Picks(Rulebook[i].atoms, Rules!Whole(Rulebook[i],
                 dat_rels)) : q \in Rules!Firing(Rulebook[i], m, dat_rels)
    BY DEF Rules!join
  <2>5. Rules!headOf(Rulebook[i], q.bind) \in Rules!Heads(Rulebook[i], m, dat_rels)
    BY <2>4 DEF Rules!Heads
  <2> QED BY <2>3, <2>5 DEF Rules!Inv, Rules!Settled
<1>2. Rules!Supported
  <2> SUFFICES ASSUME dat_pc = "done", NEW p \in DOMAIN dat_prov
               PROVE  LET r == Rulebook[dat_prov[p].rule]
                      IN r.rel = p[1]
                          /\ \E q \in Rules!join(r, Rules!Whole(r, dat_rels),
                              dat_rels) : q.kids = dat_prov[p].kids /\ Rules!headOf(r, q.bind) = p[2]
    BY DEF Rules!Supported
  <2>1. Rulebook[dat_prov[p].rule].rel = p[1]
            /\ \E m \in Rules!Picks(Rulebook[dat_prov[p].rule].atoms,
                Rules!Whole(Rulebook[dat_prov[p].rule],
                    dat_rels)) : Rules!Derives(Rulebook[dat_prov[p].rule], m, p)
    BY DEF Rules!Inv, Rules!Proved
  <2> QED BY <2>1 DEF Rules!Derives, Rules!join
<1>3. Rules!ExplainEnds
  BY RulesFinite, RulesCardinality DEF Rules!Inv, Rules!Explained, Rules!ExplainEnds
<1>4. Rules!ActiveDomain
  BY DEF Rules!Inv, Rules!Typed, Rules!ActiveDomain
<1>5. Rules!RoundsBounded
  <2>1. dat_pc = "done" => dat_iters <= Len(dat_strata) + Cardinality(DOMAIN dat_prov)
    BY RulesFinite, RulesCardinality DEF Rules!Inv, Rules!Counted
  <2>2. dat_pc = "limit" => dat_iters <= Len(dat_strata) + Cardinality(DOMAIN dat_prov) + 1
    BY RulesFinite, RulesCardinality DEF Rules!Inv, Rules!Counted
  <2>3. CASE dat_pc = "done"
    <3>1. Len(dat_strata) \in Nat /\ Cardinality(DOMAIN dat_prov) \in Nat
      BY <2>3, RuleLayers, RulesDerived DEF Rules!Inv, Rules!Shape
    <3> QED BY <2>1, <2>3, <3>1, RulesFinite, RulesCardinality DEF Rules!RoundsBounded
  <2>4. CASE dat_pc = "limit"
    BY <2>2, <2>4, RulesFinite, RulesCardinality DEF Rules!RoundsBounded
  <2> QED BY <2>3, <2>4, RulesFinite, RulesCardinality DEF Rules!RoundsBounded
<1> QED BY <1>1, <1>2, <1>3, <1>4, <1>5

----------------------------------------------------------------------------
Select == INSTANCE GateSelect WITH Base <- {}, MaxChanges <- 3, artifacts <- sel_artifacts, impl <-
  sel_impl, staged <- sel_staged, changes <- sel_changes
Handoff == INSTANCE GateSelect WITH Base <- Finished, MaxChanges <- 3, artifacts <- sel_artifacts,
  impl <- sel_impl, staged <- sel_staged, changes <- sel_changes
RatchetRules == INSTANCE Ratchet WITH Parts <- {"g4", "gy"}, Damage <- FALSE, Flaky <- TRUE, Edges
  <- {"e"}, Files <- {"f1", "f2"}, Findings <- {"r1", "r2"}, NeedImpl <- {"r2"}, FlakyFindings <-
  {"r1"}, Tokens <- {"t"}, MaxCount <- 2, Subjects <- {"s"}, MaxEdits <- 5, MaxRuns <- 3, files <-
  rat_files, rule <- rat_rule, findings <- rat_findings, omitted <- rat_omitted, limit <- rat_limit,
  tokens <- rat_tokens, open <- rat_open, def <- rat_def, ledgerOK <- rat_ledgerOK, ratchet <-
  rat_ratchet, granted <- rat_granted, edits <- rat_edits, runs <- rat_runs
RatchetFacts == INSTANCE Ratchet WITH Parts <- {"gl", "gz"}, Damage <- FALSE, Flaky <- FALSE, Edges
  <- {"e"}, Files <- {"f1", "f2"}, Findings <- {"r1", "r2"}, NeedImpl <- {"r2"}, FlakyFindings <-
  {"r1"}, Tokens <- {"t"}, MaxCount <- 2, Subjects <- {"s"}, MaxEdits <- 5, MaxRuns <- 3, files <-
  rat_files, rule <- rat_rule, findings <- rat_findings, omitted <- rat_omitted, limit <- rat_limit,
  tokens <- rat_tokens, open <- rat_open, def <- rat_def, ledgerOK <- rat_ledgerOK, ratchet <-
  rat_ratchet, granted <- rat_granted, edits <- rat_edits, runs <- rat_runs
RatchetDamage == INSTANCE Ratchet WITH Parts <- {"g4", "gy"}, Damage <- TRUE, Flaky <- FALSE, Edges
  <- {"e"}, Files <- {"f1", "f2"}, Findings <- {"r1", "r2"}, NeedImpl <- {"r2"}, FlakyFindings <-
  {"r1"}, Tokens <- {"t"}, MaxCount <- 2, Subjects <- {"s"}, MaxEdits <- 5, MaxRuns <- 3, files <-
  rat_files, rule <- rat_rule, findings <- rat_findings, omitted <- rat_omitted, limit <- rat_limit,
  tokens <- rat_tokens, open <- rat_open, def <- rat_def, ledgerOK <- rat_ledgerOK, ratchet <-
  rat_ratchet, granted <- rat_granted, edits <- rat_edits, runs <- rat_runs
Linted == INSTANCE MachineLint WITH MaxEdits <- AuthorEdits, Editing <- "routes", hand <- lint_hand,
  invokes <- lint_invokes, ignores <- lint_ignores, refusal <- lint_refusal, exhaustive <-
  lint_exhaustive, tags <- lint_tags, delay <- lint_delay, law <- lint_law, matrix <- lint_matrix,
  edits <- lint_edits, pc <- lint_pc, at <- lint_at, idle <- lint_idle, spins <- lint_spins, loose
  <- lint_loose, last <- lint_last
Attested == INSTANCE Attestation WITH Claims <- ReviewClaims, Paths <- ReviewPaths, Entries <-
  ReviewEntries, Inside <- ReviewInside, MaxEdits <- ReviewEdits, MaxRows <- ReviewRows, design <-
  att_design, impl <- att_impl, version <- att_version, rows <- att_rows, writes <- att_writes,
  edits <- att_edits, clean <- att_clean, held <- att_held, result <- att_result
LintedMatrix == INSTANCE MachineLint WITH MaxEdits <- AuthorEdits, Editing <- "matrix", hand <-
  lint_hand, invokes <- lint_invokes, ignores <- lint_ignores, refusal <- lint_refusal, exhaustive
  <- lint_exhaustive, tags <- lint_tags, delay <- lint_delay, law <- lint_law, matrix <-
  lint_matrix, edits <- lint_edits, pc <- lint_pc, at <- lint_at, idle <- lint_idle, spins <-
  lint_spins, loose <- lint_loose, last <- lint_last

Components == {"datalog", "select", "handoff", "ratchet rules", "ratchet facts", "ratchet damage", "lint", "attest", "lint matrix"}
ASSUME ActiveAssumption == Active \subseteq Components

Init == /\ which \in Active
        /\ (IF which = "datalog" THEN Rules!Init ELSE datIdle)
        /\ (IF which = "select" THEN Select!Init ELSE IF which = "handoff" THEN Handoff!Init ELSE selIdle)
        /\ (IF which = "ratchet rules" THEN RatchetRules!Init ELSE IF which = "ratchet facts" THEN RatchetFacts!Init ELSE IF which = "ratchet damage" THEN RatchetDamage!Init ELSE ratIdle)
        /\ (IF which = "lint" THEN Linted!Init ELSE IF which = "lint matrix" THEN LintedMatrix!Init ELSE lintIdle)
        /\ (IF which = "attest" THEN Attested!Init ELSE attIdle)
Next ==
  \/ which = "datalog" /\ Rules!Next /\ UNCHANGED datRest
  \/ which = "select" /\ Select!Next /\ UNCHANGED selRest
  \/ which = "handoff" /\ Handoff!Next /\ UNCHANGED selRest
  \/ which = "ratchet rules" /\ RatchetRules!Next /\ UNCHANGED ratRest
  \/ which = "ratchet facts" /\ RatchetFacts!Next /\ UNCHANGED ratRest
  \/ which = "ratchet damage" /\ RatchetDamage!Next /\ UNCHANGED ratRest
  \/ which = "lint" /\ Linted!Next /\ UNCHANGED lintRest
  \/ which = "attest" /\ Attested!Next /\ UNCHANGED attRest
  \/ which = "lint matrix" /\ LintedMatrix!Next /\ UNCHANGED lintRest
Spec == Init /\ [][Next]_vars

----------------------------------------------------------------------------
(* Properties: what the components promise, each in its own terms.          *)

\* The stop hook and the command select the same gates up to the known three,
\* narrowing to one gate drops no other's work, and what the closing gate
\* accepts was checked by the gates of every phase.
GatesAgree ==
  /\ which = "select" => Select!NarrowingKeeps /\ Select!NothingExtra /\ Select!Agreement
  /\ which = "handoff" => Handoff!HandoffChecked /\ Handoff!NarrowingKeeps

\* A machine that the lint accepts runs as its author decided: it stays in the
\* states that were found reachable, swallows no event, timer or failure that
\* nobody decided on, settles unless an eventless cycle goes through a compound
\* state (which lint.go:602-603 says must be caught and is not), and never reaches
\* success unchecked unless by a transition that an ancestor declares
\* (failclosed.go:148-197).  A review that Gv-attest accepts is of the artifacts as
\* the gate captured them; if an implementation is given, the design and the
\* record still stood so when the gate ended, and a current review is of the
\* implementation as it was then.  Without one nothing is looked at again
\* (suite.go:133).  What machinery attest renders is accepted as long as nothing
\* changed.
AcceptedDesignsHold ==
  /\ which = "lint" => /\ Linted!StaysInGraph /\ Linted!NothingSwallowed /\ Linted!TimersDecided
                       /\ Linted!LawKept /\ Linted!Settles /\ Linted!FailsClosed
  /\ which = "attest" => /\ Attested!HeldAsJudged /\ Attested!CurrentAsJudged
                         /\ Attested!Covered /\ Attested!RenderedPasses

\* A machine that is accepted with a matrix has, for each source, trigger,
\* guard and target, as many branches as the matrix has rows (ReconcileMatrix).
MatrixReconciles ==
  which = "lint matrix" => LintedMatrix!MatrixTrue /\ LintedMatrix!StaysInGraph

\* While nobody damages the ratchet file, recorded debt only shrinks: a gate
\* tolerates what was granted and nothing that grew, changed or came back, and a
\* handoff sees all of it.  Of a damaged file this holds for import edges only: a
\* recording of G4 alone drops the other sections of a file that it cannot read,
\* and a later run records them anew (cmd/machinery/baseline.go:105-119), although
\* "it grows only with --grow" (baseline.go:175 there, README.md:491).
DebtShrinks ==
  /\ which = "ratchet rules" =>
       RatchetRules!EdgesDoNotGrow /\ RatchetRules!DebtGranted /\ RatchetRules!ResolvedWhole /\ RatchetRules!HandoffSeesAll
  /\ which = "ratchet facts" => RatchetFacts!DebtGranted /\ RatchetFacts!ThreatRearmed /\ RatchetFacts!HandoffSeesAll
  /\ which = "ratchet damage" => RatchetDamage!EdgesDoNotGrow

\* What the rule engine computes and explains is the perfect model of the
\* program: closed, supported, explained in finitely many steps.
PerfectModel ==
  which = "datalog" => Rules!Closed /\ Rules!Supported /\ Rules!ExplainEnds /\ Rules!ActiveDomain /\ Rules!RoundsBounded

\* A damaged ratchet leaves the import gate armed (baseline.go:335-341), and
\* recording one section of an undamaged file keeps the others.
RatchetSteps ==
  [][/\ which = "ratchet damage" => RatchetDamage!StaysArmed
     /\ which = "ratchet rules" => RatchetRules!SectionsKept]_vars

----------------------------------------------------------------------------
(* Proofs: what the components promise for every value of their constants    *)
(* holds in the behaviours of this suite that move them.                     *)

RatchetInv ==
  /\ which = "ratchet rules" => RatchetRules!Inv
  /\ which = "ratchet facts" => RatchetFacts!Inv
  /\ which = "ratchet damage" => RatchetDamage!Inv

LEMMA RatchetInit == Init => RatchetInv
<1> SUFFICES ASSUME Init PROVE RatchetInv
  OBVIOUS
<1>1. ASSUME which = "ratchet rules" PROVE RatchetRules!Inv
  BY <1>1, RatchetRules!InitInv DEF Init
<1>2. ASSUME which = "ratchet facts" PROVE RatchetFacts!Inv
  BY <1>2, RatchetFacts!InitInv DEF Init
<1>3. ASSUME which = "ratchet damage" PROVE RatchetDamage!Inv
  BY <1>3, RatchetDamage!InitInv DEF Init
<1> QED BY <1>1, <1>2, <1>3 DEF RatchetInv

LEMMA RatchetMoves ==
  ASSUME [Next]_vars
  PROVE  /\ which' = which
         /\ which = "ratchet rules" => [RatchetRules!Next]_(RatchetRules!vars)
         /\ which = "ratchet facts" => [RatchetFacts!Next]_(RatchetFacts!vars)
         /\ which = "ratchet damage" => [RatchetDamage!Next]_(RatchetDamage!vars)
<1>1. CASE Next
  BY <1>1 DEF Next, selRest, ratRest, datRest, lintRest, attRest
<1>2. CASE UNCHANGED vars
  BY <1>2 DEF vars, rat, RatchetRules!vars, RatchetFacts!vars, RatchetDamage!vars,
              RatchetRules!design, RatchetFacts!design, RatchetDamage!design
<1> QED BY <1>1, <1>2

LEMMA RatchetStep == ASSUME RatchetInv, [Next]_vars PROVE RatchetInv'
<1>w. /\ which' = which
      /\ which = "ratchet rules" => [RatchetRules!Next]_(RatchetRules!vars)
      /\ which = "ratchet facts" => [RatchetFacts!Next]_(RatchetFacts!vars)
      /\ which = "ratchet damage" => [RatchetDamage!Next]_(RatchetDamage!vars)
  BY RatchetMoves
<1>1. ASSUME which = "ratchet rules" PROVE RatchetRules!Inv'
  BY <1>w, <1>1, RatchetRules!StepInv DEF RatchetInv
<1>2. ASSUME which = "ratchet facts" PROVE RatchetFacts!Inv'
  BY <1>w, <1>2, RatchetFacts!StepInv DEF RatchetInv
<1>3. ASSUME which = "ratchet damage" PROVE RatchetDamage!Inv'
  BY <1>w, <1>3, RatchetDamage!StepInv DEF RatchetInv
<1> QED BY <1>w, <1>1, <1>2, <1>3 DEF RatchetInv

\* Recorded debt only shrinks in every behaviour of the suite in which the file is
\* not damaged, and the import edges of it in those in which it is (Ratchet,
\* Tolerated).
THEOREM DebtOnlyShrinks == Spec => []DebtShrinks
<1>1. Init => RatchetInv
  BY RatchetInit
<1>2. RatchetInv /\ [Next]_vars => RatchetInv'
  BY RatchetStep
<1>3. ASSUME RatchetInv PROVE DebtShrinks
  <2>1. ASSUME which = "ratchet rules"
        PROVE  RatchetRules!EdgesDoNotGrow /\ RatchetRules!DebtGranted /\ RatchetRules!ResolvedWhole /\ RatchetRules!HandoffSeesAll
    BY <1>3, <2>1, RatchetRules!Tolerated DEF RatchetInv
  <2>2. ASSUME which = "ratchet facts"
        PROVE  RatchetFacts!DebtGranted /\ RatchetFacts!ThreatRearmed /\ RatchetFacts!HandoffSeesAll
    BY <1>3, <2>2, RatchetFacts!Tolerated DEF RatchetInv
  <2>3. ASSUME which = "ratchet damage"
        PROVE  RatchetDamage!EdgesDoNotGrow
    BY <1>3, <2>3, RatchetDamage!Tolerated DEF RatchetInv
  <2> QED BY <2>1, <2>2, <2>3 DEF DebtShrinks
<1> QED BY <1>1, <1>2, <1>3, PTL DEF Spec

\* A damaged ratchet leaves the import gate armed, and recording one section of an
\* undamaged one keeps the others, in every behaviour of the suite (Ratchet,
\* StepKeeps).
THEOREM RecordingsKeep == Spec => RatchetSteps
<1>1. Init => RatchetInv
  BY RatchetInit
<1>2. RatchetInv /\ [Next]_vars => RatchetInv'
  BY RatchetStep
<1>3. ASSUME RatchetInv, [Next]_vars
      PROVE  /\ which = "ratchet damage" => RatchetDamage!StaysArmed
             /\ which = "ratchet rules" => RatchetRules!SectionsKept
  <2>0. {"g4", "gy"} \subseteq RatchetDamage!AllParts /\ {"g4", "gy"} \subseteq RatchetRules!AllParts
    BY DEF RatchetDamage!AllParts, RatchetRules!AllParts
  <2>w. /\ which = "ratchet rules" => [RatchetRules!Next]_(RatchetRules!vars)
        /\ which = "ratchet damage" => [RatchetDamage!Next]_(RatchetDamage!vars)
    BY <1>3, RatchetMoves
  <2>1. ASSUME which = "ratchet damage" PROVE RatchetDamage!StaysArmed
    BY <1>3, <2>0, <2>w, <2>1, RatchetDamage!StepKeeps DEF RatchetInv
  <2>2. ASSUME which = "ratchet rules" PROVE RatchetRules!SectionsKept
    BY <1>3, <2>0, <2>w, <2>2, RatchetRules!StepKeeps DEF RatchetInv
  <2> QED BY <2>1, <2>2
<1> QED BY <1>1, <1>2, <1>3, PTL DEF Spec, RatchetSteps

(* Which gates run.  The agreement needs no invariant: it holds for every    *)
(* set of artifacts, every staged list and either implementation setting.    *)

LEMMA SelectKeeps == Select!NarrowingKeeps /\ Handoff!NarrowingKeeps
<1>1. Select!NarrowingKeeps
  BY DEF Select!NarrowingKeeps, Select!CheckRuns, Select!DefaultSelection, Select!Narrowing
<1>2. Handoff!NarrowingKeeps
  BY DEF Handoff!NarrowingKeeps, Handoff!CheckRuns, Handoff!DefaultSelection, Handoff!Narrowing
<1> QED BY <1>1, <1>2

\* The hook looks for the source that the command looks for, but for six gates.
LEMMA SelectPlain ==
  ASSUME NEW g \in Select!Gates \ {"g2", "g3", "gx", "gu", "gv", "gr"}
  PROVE  Select!HookSelects(g) = Select!Applies(g)
BY DEF Select!HookSelects, Select!Gates

\* The sources of the gates on which the two may differ.
LEMMA SelectSources ==
  /\ Select!Applies("g2") = TRUE /\ Select!Applies("g3") = TRUE /\ Select!Applies("gx") = TRUE
  /\ Select!Applies("gd") = ("machines" \in sel_artifacts)
  /\ Select!Applies("gr") = ("reads" \in sel_artifacts)
  /\ Select!Applies("gu") = ("targetSurfaces" \in sel_artifacts \/ "humanActions" \in sel_artifacts)
  /\ Select!HookSelects("g3") = ("machines" \in sel_artifacts)
  /\ Select!HookSelects("gx") = ("machines" \in sel_artifacts /\ "modelith" \in sel_artifacts)
  /\ Select!HookSelects("gd") = ("machines" \in sel_artifacts)
  /\ Select!HookSelects("gr") = FALSE
  /\ Select!HookSelects("gu") = ("targetSurfaces" \in sel_artifacts)
BY DEF Select!Applies, Select!HookSelects, Select!Has

\* Apart from the known differences the two selections agree.
LEMMA SelectAgrees == Select!Agreement
<1>1. CASE sel_staged # {}
  BY <1>1 DEF Select!Agreement, Select!HookRuns, Select!HookSelection, Select!LandingRuns, Select!CheckRuns
<1>2. CASE sel_staged = {}
  <2> SUFFICES ASSUME NEW g \in Select!Gates, g \notin Select!Progressive, g \notin Select!Apart
               PROVE  g \in Select!HookRuns <=> g \in Select!LandingRuns
    BY <1>2 DEF Select!Agreement
  <2>1. g \in Select!HookRuns <=> Select!HookSelects(g) /\ g \notin {"gv", "ga"}
    BY <1>2 DEF Select!HookRuns, Select!HookSelection, Select!CheckpointOnlyGates
  <2>2. g \in Select!LandingRuns <=> g \in Select!DefaultSelection /\ Select!Applies(g) /\ g \notin {"gv", "ga"}
    BY <1>2 DEF Select!LandingRuns, Select!CheckRuns, Select!DefaultSelection, Select!Narrowing, Select!CheckpointOnlyGates
  <2>3. Select!Applies(g) /\ g \notin {"gv", "ga"} => g \in Select!DefaultSelection
    BY SelectSources DEF Select!DefaultSelection, Select!Narrowing, Select!Narrowed, Select!Apart, Select!Progressive, Select!Has
  <2>4. g \notin {"gv", "ga"} => (Select!HookSelects(g) <=> Select!Applies(g))
    BY SelectSources, SelectPlain DEF Select!Apart, Select!Progressive, Select!Has
  <2> QED BY <2>1, <2>2, <2>3, <2>4
<1> QED BY <1>1, <1>2

\* The hook selects nothing that the command leaves out.
LEMMA SelectNothingExtra == Select!NothingExtra
<1>1. CASE sel_staged # {}
  BY <1>1 DEF Select!NothingExtra, Select!HookRuns, Select!HookSelection, Select!LandingRuns, Select!CheckRuns
<1>2. CASE sel_staged = {}
  <2> SUFFICES ASSUME NEW g \in Select!HookRuns, g \notin Select!LandingRuns
               PROVE  Select!Narrowed /\ g = "gt"
    BY DEF Select!NothingExtra
  <2>1. g \in Select!Gates /\ Select!HookSelects(g) /\ g \notin {"gv", "ga"}
    BY <1>2 DEF Select!HookRuns, Select!HookSelection, Select!CheckpointOnlyGates
  <2>2. Select!Applies(g)
    BY <2>1, SelectSources, SelectPlain
  <2>3. g \notin Select!DefaultSelection
    BY <1>2, <2>1, <2>2 DEF Select!LandingRuns, Select!CheckRuns, Select!CheckpointOnlyGates
  <2>4. Select!Narrowed /\ g \in {"g3", "gd", "gx", "gt"}
    BY <2>1, <2>2, <2>3 DEF Select!DefaultSelection, Select!Narrowing
  <2> QED BY <2>1, <2>4, SelectSources DEF Select!Narrowed, Select!Has
<1> QED BY <1>1, <1>2

\* What the closing gate accepts was checked.
LEMMA SelectHandoff == Handoff!HandoffChecked
<1> SUFFICES ASSUME sel_staged = {}, Handoff!Handoff
             PROVE  /\ {"gc", "gz", "g2", "gl", "gb", "ga", "gv"} \subseteq Handoff!CompleteRuns
                    /\ Handoff!Has("machines") => {"g3", "gd", "gx", "gy"} \subseteq Handoff!CompleteRuns
                    /\ Handoff!Has("decomposition") => "g5" \in Handoff!CompleteRuns
                    /\ Handoff!Has("humanActions") => "gu" \in Handoff!CompleteRuns
  BY DEF Handoff!HandoffChecked
<1>1. /\ Handoff!Applies("gc") /\ Handoff!Applies("gz") /\ Handoff!Applies("g2") /\ Handoff!Applies("gl")
      /\ Handoff!Applies("gb") /\ Handoff!Applies("ga") /\ Handoff!Applies("gv")
      /\ Handoff!Has("machines") =>
           Handoff!Applies("g3") /\ Handoff!Applies("gd") /\ Handoff!Applies("gx") /\ Handoff!Applies("gy")
      /\ Handoff!Has("decomposition") => Handoff!Applies("g5")
      /\ Handoff!Has("humanActions") => Handoff!Applies("gu")
  BY DEF Handoff!Handoff, Handoff!Applies, Handoff!Has, Handoff!AcceptanceActive, Handoff!RulesActive
<1>2. ASSUME NEW g \in Handoff!Gates, Handoff!Applies(g), g \in {"g3", "gd", "gx"} => Handoff!Has("machines"), g # "gt"
      PROVE  g \in Handoff!CompleteRuns
  BY <1>2 DEF Handoff!CompleteRuns, Handoff!CheckRuns, Handoff!DefaultSelection, Handoff!Narrowing, Handoff!Narrowed
<1>3. {"gc", "gz", "g2", "gl", "gb", "ga", "gv", "g3", "gd", "gx", "gy", "g5", "gu"} \subseteq Handoff!Gates
  BY DEF Handoff!Gates
<1> QED BY <1>1, <1>2, <1>3

\* The hook and the command agree, narrowing keeps the other gates and the
\* handoff was checked, for every design (GateSelect; suite.go, selectGates).
THEOREM SelectionsAgree == Spec => []GatesAgree
<1>1. GatesAgree
  BY SelectKeeps, SelectAgrees, SelectNothingExtra, SelectHandoff DEF GatesAgree
<1> QED BY <1>1, PTL

(* The machines that the lint accepts.  An accepted design does not change   *)
(* while it runs, so what is left to show is what one step of the machine    *)
(* does, that six steps close the reachable set of six states, and that the  *)
(* states behind an unguarded eventless walk are pairwise different.         *)

LintNames == {"A", "C", "F", "b", "Z", "C.D"}
LintTargets == {Linted!Internal} \cup {Linted!Sib(n) : n \in LintNames} \cup {Linted!Id(n) : n \in LintNames}
LintBranches == [guard : {"-", "x"}, to : LintTargets]
LintListed(f) == /\ f \in [Linted!States -> [Linted!Keys -> Seq(LintBranches)]]
                 /\ \A s \in Linted!States, k \in Linted!Keys : Len(f[s][k]) <= 2
LintLists == LintListed(lint_hand)

LEMMA LintTree ==
  /\ Linted!Leaves \subseteq Linted!States /\ Linted!Finals \subseteq Linted!Leaves /\ Linted!None \notin Linted!States
  /\ \A p \in Linted!States : /\ p \in Linted!ancestorChain(p) /\ Linted!ancestorChain(p) \subseteq Linted!States
                              /\ Linted!Entry(p) \in Linted!Leaves /\ Linted!enters(p) \subseteq Linted!States
                              /\ \A q \in Linted!ancestorChain(p) : Linted!ancestorChain(q) \subseteq Linted!ancestorChain(p)
                              /\ Linted!ancestorChain(Linted!Entry(p)) \subseteq Linted!ancestorChain(p) \cup Linted!initialChain(p)
<1>1. \A p \in Linted!States : /\ p \in Linted!ancestorChain(p) /\ Linted!ancestorChain(p) \subseteq Linted!States
                               /\ \A q \in Linted!ancestorChain(p) : Linted!ancestorChain(q) \subseteq Linted!ancestorChain(p)
  BY DEF Linted!States, Linted!ancestorChain, Linted!Parent
<1>2. Linted!Leaves \subseteq Linted!States /\ Linted!Finals \subseteq Linted!Leaves /\ Linted!None \notin Linted!States
  BY DEF Linted!States, Linted!Leaves, Linted!Finals, Linted!Compound, Linted!None
<1>3. \A p \in Linted!States : Linted!Entry(p) \in Linted!Leaves /\ Linted!enters(p) \subseteq Linted!States
  BY DEF Linted!States, Linted!Leaves, Linted!Compound, Linted!Entry, Linted!enters, Linted!Initial
<1>4. \A p \in Linted!States : Linted!ancestorChain(Linted!Entry(p)) \subseteq Linted!ancestorChain(p) \cup Linted!initialChain(p)
  BY DEF Linted!States, Linted!Compound, Linted!Entry, Linted!Initial, Linted!ancestorChain, Linted!Parent, Linted!initialChain
<1> QED BY <1>1, <1>2, <1>3, <1>4

LEMMA LintResolves ==
  ASSUME NEW s \in Linted!States, NEW t
  PROVE  Linted!resolve(t, s) \in Linted!States \cup {Linted!None}
<1>1. Linted!Initial["m"] \in Linted!States
  BY DEF Linted!Initial, Linted!States
<1>2. CASE t = Linted!Internal
  BY <1>2 DEF Linted!resolve
<1>3. CASE t # Linted!Internal /\ t[1] = "sibling"
  <2> DEFINE S == {p \in Linted!States : Linted!Parent[p] = Linted!Parent[s] /\ Linted!Name[p] = t[2]}
  <2>1. Linted!resolve(t, s) = IF S = {} THEN Linted!None ELSE CHOOSE p \in S : TRUE
    BY <1>3 DEF Linted!resolve
  <2>2. S # {} => (CHOOSE p \in S : TRUE) \in S
    OBVIOUS
  <2> QED BY <2>1, <2>2
<1>4. CASE t # Linted!Internal /\ t[1] # "sibling"
  BY <1>1, <1>4 DEF Linted!resolve
<1> QED BY <1>2, <1>3, <1>4

\* A branch that is admitted is chosen.
LEMMA LintChooses ==
  ASSUME LintLists, NEW s \in Linted!States, NEW k \in Linted!Keys, NEW gx, Linted!Admitted(s, k, gx) # {}
  PROVE  /\ [key |-> k, guard |-> Linted!Chosen(s, k, gx).guard, to |-> Linted!Chosen(s, k, gx).to] \in Linted!TransitionsOf(s)
<1> DEFINE A == Linted!Admitted(s, k, gx)
<1>1. A \subseteq DOMAIN lint_hand[s][k] /\ DOMAIN lint_hand[s][k] \subseteq {1, 2}
  BY DEF LintLists, LintListed, Linted!Admitted
<1>2. \E i \in A : \A j \in A : i <= j
  BY <1>1
<1>3. (CHOOSE i \in A : \A j \in A : i <= j) \in A
  BY <1>2
<1>4. PICK i \in DOMAIN lint_hand[s][k] : Linted!Chosen(s, k, gx) = lint_hand[s][k][i]
  BY <1>1, <1>3 DEF Linted!Chosen
<1> QED BY <1>4 DEF Linted!TransitionsOf

\* A transition of the machine: the state that declares it is the innermost one
\* that answers.
LintMoves(k, s, tr) ==
  LET dest == Linted!resolve(tr.to, s)
  IN /\ lint_at' = (IF tr.to = Linted!Internal \/ dest = Linted!None THEN lint_at ELSE Linted!Entry(dest))
     /\ lint_idle' = FALSE
     /\ lint_spins' = (IF k = "always" /\ tr.guard = Linted!Unguarded THEN lint_spins + 1 ELSE 0)
     /\ lint_loose' = (k = "always" /\ (lint_loose \/ s # lint_at \/ lint_at' # dest))
     /\ lint_last' = [kind |-> IF dest = Linted!None THEN "dangling" ELSE "moved", on |-> k, by |-> s, from |-> lint_at]

LEMMA LintFires ==
  ASSUME LintLists, lint_at \in Linted!Leaves, NEW k \in Linted!Keys, NEW gx, Linted!Fire(k, gx)
  PROVE  \E s \in Linted!ancestorChain(lint_at) : \E tr \in Linted!TransitionsOf(s) : tr.key = k /\ LintMoves(k, s, tr)
<1> DEFINE s == Linted!Innermost(Linted!Answers(k, gx))
<1>1. lint_at \in Linted!States
  BY LintTree
<1>2. Linted!Answers(k, gx) # {} /\ Linted!Answers(k, gx) \subseteq Linted!ancestorChain(lint_at)
  BY DEF Linted!Fire, Linted!Answers
<1>3. s \in Linted!Answers(k, gx)
  BY <1>2 DEF Linted!Innermost, Linted!ancestorChain
<1>4. s \in Linted!ancestorChain(lint_at) /\ s \in Linted!States /\ Linted!Admitted(s, k, gx) # {}
  BY <1>1, <1>2, <1>3, LintTree DEF Linted!Answers
<1> DEFINE tr == [key |-> k, guard |-> Linted!Chosen(s, k, gx).guard, to |-> Linted!Chosen(s, k, gx).to]
<1>5. tr \in Linted!TransitionsOf(s)
  BY <1>4, LintChooses
<1>6. LintMoves(k, s, tr)
  BY DEF Linted!Fire, LintMoves
<1> QED BY <1>4, <1>5, <1>6

\* Six states: six steps close a set of them.
LEMMA LintSix == IsFiniteSet(Linted!States) /\ Cardinality(Linted!States) = 6
<1>1. IsFiniteSet({}) /\ Cardinality({}) = 0
  BY FS_EmptySet
<1>2. IsFiniteSet({"A"}) /\ Cardinality({"A"}) = 1
  BY FS_Singleton
<1>3. IsFiniteSet({"A", "C"}) /\ Cardinality({"A", "C"}) = 2
  <2>1. {"A"} \cup {"C"} = {"A", "C"} /\ "C" \notin {"A"}
    OBVIOUS
  <2> QED BY <1>2, <2>1, FS_AddElement
<1>4. IsFiniteSet({"A", "C", "C.D"}) /\ Cardinality({"A", "C", "C.D"}) = 3
  <2>1. {"A", "C"} \cup {"C.D"} = {"A", "C", "C.D"} /\ "C.D" \notin {"A", "C"}
    OBVIOUS
  <2> QED BY <1>3, <2>1, FS_AddElement
<1>5. IsFiniteSet({"A", "C", "C.D", "C.F"}) /\ Cardinality({"A", "C", "C.D", "C.F"}) = 4
  <2>1. {"A", "C", "C.D"} \cup {"C.F"} = {"A", "C", "C.D", "C.F"} /\ "C.F" \notin {"A", "C", "C.D"}
    OBVIOUS
  <2> QED BY <1>4, <2>1, FS_AddElement
<1>6. IsFiniteSet({"A", "C", "C.D", "C.F", "b"}) /\ Cardinality({"A", "C", "C.D", "C.F", "b"}) = 5
  <2>1. {"A", "C", "C.D", "C.F"} \cup {"b"} = {"A", "C", "C.D", "C.F", "b"} /\ "b" \notin {"A", "C", "C.D", "C.F"}
    OBVIOUS
  <2> QED BY <1>5, <2>1, FS_AddElement
<1>7. {"A", "C", "C.D", "C.F", "b"} \cup {"Z"} = Linted!States /\ "Z" \notin {"A", "C", "C.D", "C.F", "b"}
  BY DEF Linted!States
<1>8. /\ IsFiniteSet({"A", "C", "C.D", "C.F", "b"} \cup {"Z"})
      /\ Cardinality({"A", "C", "C.D", "C.F", "b"} \cup {"Z"}) = 6
  <2> DEFINE T == {"A", "C", "C.D", "C.F", "b"}
  <2>1. IsFiniteSet(T) /\ Cardinality(T) = 5 /\ "Z" \notin T
    BY <1>6, <1>7
  <2> HIDE DEF T
  <2>2. IsFiniteSet(T \cup {"Z"}) /\ Cardinality(T \cup {"Z"}) = Cardinality(T) + 1
    BY <2>1, FS_AddElement
  <2>3. IsFiniteSet(T \cup {"Z"}) /\ Cardinality(T \cup {"Z"}) = 6
    BY <2>1, <2>2
  <2> USE DEF T
  <2> QED BY <2>3
<1> QED BY <1>7, <1>8

LEMMA LintStep ==
  ASSUME NEW R \in SUBSET (Linted!States \X Linted!States), NEW S \in SUBSET Linted!States
  PROVE  /\ Linted!Step(R, S) \in SUBSET Linted!States /\ S \subseteq Linted!Step(R, S)
         /\ Cardinality(S) \in Nat /\ Cardinality(Linted!Step(R, S)) \in Nat
         /\ Linted!Step(R, S) = S \/ Cardinality(Linted!Step(R, S)) >= Cardinality(S) + 1
<1>1. Linted!Step(R, S) \in SUBSET Linted!States /\ S \subseteq Linted!Step(R, S)
  BY DEF Linted!Step
<1>2. IsFiniteSet(Linted!Step(R, S)) /\ IsFiniteSet(S)
  BY <1>1, LintSix, FS_Subset
<1>3. Cardinality(Linted!Step(R, S)) \in Nat /\ Cardinality(S) \in Nat
  BY <1>2, FS_CardinalityType
<1>4. /\ Cardinality(S) <= Cardinality(Linted!Step(R, S))
      /\ Cardinality(Linted!Step(R, S)) = Cardinality(S) => Linted!Step(R, S) = S
  BY <1>1, <1>2, FS_Subset
<1> QED BY <1>1, <1>3, <1>4

LEMMA LintClosure ==
  ASSUME NEW R \in SUBSET (Linted!States \X Linted!States), NEW S \in SUBSET Linted!States, S # {}
  PROVE  /\ S \subseteq Linted!Closure(R, S) /\ Linted!Closure(R, S) \subseteq Linted!States
         /\ \A e \in R : e[1] \in Linted!Closure(R, S) => e[2] \in Linted!Closure(R, S)
<1> DEFINE S1 == Linted!Step(R, S)
           S2 == Linted!Step(R, S1)
           S3 == Linted!Step(R, S2)
           S4 == Linted!Step(R, S3)
           S5 == Linted!Step(R, S4)
           S6 == Linted!Step(R, S5)
           S7 == Linted!Step(R, S6)
<1>0. Linted!Closure(R, S) = S6
  BY DEF Linted!Closure
<1>1. S1 \in SUBSET Linted!States /\ S \subseteq S1 /\ (S1 = S \/ Cardinality(S1) >= Cardinality(S) + 1)
      /\ Cardinality(S) \in Nat /\ Cardinality(S1) \in Nat
  BY LintStep
<1> HIDE DEF S1
<1>2. S2 \in SUBSET Linted!States /\ S1 \subseteq S2 /\ (S2 = S1 \/ Cardinality(S2) >= Cardinality(S1) + 1) /\ Cardinality(S2) \in Nat
  BY <1>1, LintStep
<1> HIDE DEF S2
<1>3. S3 \in SUBSET Linted!States /\ S2 \subseteq S3 /\ (S3 = S2 \/ Cardinality(S3) >= Cardinality(S2) + 1) /\ Cardinality(S3) \in Nat
  BY <1>2, LintStep
<1> HIDE DEF S3
<1>4. S4 \in SUBSET Linted!States /\ S3 \subseteq S4 /\ (S4 = S3 \/ Cardinality(S4) >= Cardinality(S3) + 1) /\ Cardinality(S4) \in Nat
  BY <1>3, LintStep
<1> HIDE DEF S4
<1>5. S5 \in SUBSET Linted!States /\ S4 \subseteq S5 /\ (S5 = S4 \/ Cardinality(S5) >= Cardinality(S4) + 1) /\ Cardinality(S5) \in Nat
  BY <1>4, LintStep
<1> HIDE DEF S5
<1>6. S6 \in SUBSET Linted!States /\ S5 \subseteq S6 /\ (S6 = S5 \/ Cardinality(S6) >= Cardinality(S5) + 1) /\ Cardinality(S6) \in Nat
  BY <1>5, LintStep
<1> HIDE DEF S6
<1>7. S7 \in SUBSET Linted!States /\ S6 \subseteq S7 /\ (S7 = S6 \/ Cardinality(S7) >= Cardinality(S6) + 1) /\ Cardinality(S7) \in Nat
  BY <1>6, LintStep
<1> HIDE DEF S7
<1>8. /\ S2 = Linted!Step(R, S1) /\ S3 = Linted!Step(R, S2) /\ S4 = Linted!Step(R, S3) /\ S5 = Linted!Step(R, S4)
      /\ S6 = Linted!Step(R, S5) /\ S7 = Linted!Step(R, S6) /\ S1 = Linted!Step(R, S)
  BY DEF S1, S2, S3, S4, S5, S6, S7
<1>9. Cardinality(S) >= 1 /\ Cardinality(S7) <= 6
  <2>1. IsFiniteSet(S) /\ IsFiniteSet(S7) /\ Cardinality(S7) <= 6
    BY <1>7, LintSix, FS_Subset
  <2>2. Cardinality(S) # 0
    BY <2>1, FS_EmptySet
  <2> QED BY <1>1, <2>1, <2>2
<1>10. S7 = S6
  <2> SUFFICES ASSUME S7 # S6 PROVE FALSE
    OBVIOUS
  <2>1. S6 # S5
    BY <1>8
  <2>2. S5 # S4
    BY <1>8, <2>1
  <2>3. S4 # S3
    BY <1>8, <2>2
  <2>4. S3 # S2
    BY <1>8, <2>3
  <2>5. S2 # S1
    BY <1>8, <2>4
  <2>6. S1 # S
    BY <1>8, <2>5
  <2> QED BY <1>1, <1>2, <1>3, <1>4, <1>5, <1>6, <1>7, <1>9, <2>1, <2>2, <2>3, <2>4, <2>5, <2>6
<1>11. \A e \in R : e[1] \in S6 => e[2] \in S6
  BY <1>8, <1>10 DEF Linted!Step
<1> QED BY <1>0, <1>1, <1>2, <1>3, <1>4, <1>5, <1>6, <1>11

\* What a transition out of a reached state enters is reached.
LEMMA LintReached ==
  /\ Linted!enters("A") \subseteq Linted!Reached /\ Linted!Reached \subseteq Linted!States
  /\ \A p \in Linted!Reached : \A s \in Linted!ancestorChain(p) : \A tr \in Linted!TransitionsOf(s) :
       Linted!resolve(tr.to, s) # Linted!None => Linted!enters(Linted!resolve(tr.to, s)) \subseteq Linted!Reached
<1> DEFINE dests == [a \in Linted!States |-> {Linted!resolve(tr.to, a) : tr \in Linted!TransitionsOf(a)} \ {Linted!None}]
           To(p) == UNION {UNION {Linted!enters(d) : d \in dests[a]} : a \in Linted!ancestorChain(p)}
           R == UNION {UNION {{p} \X UNION {Linted!enters(d) : d \in dests[a]} : a \in Linted!ancestorChain(p)} : p \in Linted!States}
<1>1. Linted!Reached = Linted!Closure(R, Linted!enters("A"))
  BY DEF Linted!Reached, Linted!Initial
<1>2. \A a \in Linted!States : dests[a] \subseteq Linted!States
  BY LintResolves
<1>3. R \in SUBSET (Linted!States \X Linted!States)
  <2> SUFFICES ASSUME NEW x \in R PROVE x \in Linted!States \X Linted!States
    OBVIOUS
  <2>1. PICK p \in Linted!States : x \in UNION {{p} \X UNION {Linted!enters(d) : d \in dests[a]} : a \in Linted!ancestorChain(p)}
    OBVIOUS
  <2>2. PICK a \in Linted!ancestorChain(p) : x \in {p} \X UNION {Linted!enters(d) : d \in dests[a]}
    BY <2>1
  <2>3. a \in Linted!States
    BY LintTree
  <2>4. UNION {Linted!enters(d) : d \in dests[a]} \subseteq Linted!States
    BY <1>2, <2>3, LintTree
  <2> QED BY <2>2, <2>4
<1>4. Linted!enters("A") \in SUBSET Linted!States /\ Linted!enters("A") # {}
  BY LintTree DEF Linted!States, Linted!enters
<1> HIDE DEF R
<1>5. /\ Linted!enters("A") \subseteq Linted!Reached /\ Linted!Reached \subseteq Linted!States
      /\ \A e \in R : e[1] \in Linted!Reached => e[2] \in Linted!Reached
  BY <1>1, <1>3, <1>4, LintClosure
<1>6. ASSUME NEW p \in Linted!Reached, NEW s \in Linted!ancestorChain(p), NEW tr \in Linted!TransitionsOf(s),
             Linted!resolve(tr.to, s) # Linted!None, NEW q \in Linted!enters(Linted!resolve(tr.to, s))
      PROVE  q \in Linted!Reached
  <2>1. p \in Linted!States /\ s \in Linted!States
    BY <1>5, LintTree
  <2>2. Linted!resolve(tr.to, s) \in dests[s]
    BY <1>6, <2>1
  <2>3. <<p, q>> \in {p} \X UNION {Linted!enters(d) : d \in dests[s]}
    BY <2>2
  <2>4. <<p, q>> \in R
    BY <2>1, <2>3 DEF R
  <2> QED BY <1>5, <2>4
<1> QED BY <1>5, <1>6

\* The states behind an unguarded eventless walk.
LintBehind(x) == {y \in Linted!States : y # x /\ x \in Linted!Closure(Linted!alwaysNext, {y})}

LEMMA LintWalk ==
  ASSUME Linted!NoDangling, Linted!NoAlwaysCycle, NEW a, NEW b, <<a, b>> \in Linted!alwaysNext
  PROVE  /\ a \in Linted!States /\ b \in Linted!States
         /\ Cardinality(LintBehind(a)) \in Nat /\ Cardinality(LintBehind(b)) \in Nat
         /\ Cardinality(LintBehind(b)) >= Cardinality(LintBehind(a)) + 1
<1>1. Linted!alwaysNext \in SUBSET (Linted!States \X Linted!States)
  <2> SUFFICES ASSUME NEW s \in Linted!States, NEW tr \in Linted!TransitionsOf(s) PROVE <<s, Linted!resolve(tr.to, s)>> \in Linted!States \X Linted!States
    BY DEF Linted!alwaysNext
  <2> QED BY LintResolves DEF Linted!NoDangling
<1>2. a \in Linted!States /\ b \in Linted!States
  BY <1>1
<1>3. a \notin Linted!Closure(Linted!alwaysNext, {b})
  <2>1. \A e \in Linted!alwaysNext : e[1] \notin Linted!Closure(Linted!alwaysNext, {e[2]})
    BY DEF Linted!NoAlwaysCycle
  <2> QED BY <2>1
<1>4. \A y \in Linted!States : /\ y \in Linted!Closure(Linted!alwaysNext, {y})
                               /\ a \in Linted!Closure(Linted!alwaysNext, {y}) => b \in Linted!Closure(Linted!alwaysNext, {y})
  <2> SUFFICES ASSUME NEW y \in Linted!States
               PROVE  /\ y \in Linted!Closure(Linted!alwaysNext, {y})
                      /\ a \in Linted!Closure(Linted!alwaysNext, {y}) => b \in Linted!Closure(Linted!alwaysNext, {y})
    OBVIOUS
  <2>1. /\ {y} \subseteq Linted!Closure(Linted!alwaysNext, {y})
        /\ \A e \in Linted!alwaysNext : e[1] \in Linted!Closure(Linted!alwaysNext, {y}) => e[2] \in Linted!Closure(Linted!alwaysNext, {y})
    BY <1>1, LintClosure
  <2> QED BY <2>1
<1>5. LintBehind(a) \cup {a} \subseteq LintBehind(b) /\ a \notin LintBehind(a)
  <2>1. a \notin LintBehind(a)
    BY DEF LintBehind
  <2>2. ASSUME NEW y \in LintBehind(a) PROVE y \in LintBehind(b)
    <3>1. y \in Linted!States /\ a \in Linted!Closure(Linted!alwaysNext, {y})
      BY DEF LintBehind
    <3>2. y # b
      BY <1>3, <3>1
    <3> QED BY <1>4, <3>1, <3>2 DEF LintBehind
  <2>3. a \in LintBehind(b)
    <3>1. a # b
      BY <1>2, <1>3, <1>4
    <3> QED BY <1>2, <1>4, <3>1 DEF LintBehind
  <2> QED BY <2>1, <2>2, <2>3
<1>6. IsFiniteSet(LintBehind(a)) /\ IsFiniteSet(LintBehind(b))
  BY LintSix, FS_Subset DEF LintBehind
<1>7. Cardinality(LintBehind(a) \cup {a}) = Cardinality(LintBehind(a)) + 1
  BY <1>5, <1>6, FS_AddElement
<1>8. Cardinality(LintBehind(a) \cup {a}) <= Cardinality(LintBehind(b))
  BY <1>5, <1>6, FS_Subset
<1>9. Cardinality(LintBehind(a)) \in Nat /\ Cardinality(LintBehind(b)) \in Nat
  BY <1>6, FS_CardinalityType
<1> QED BY <1>2, <1>7, <1>8, <1>9

LEMMA LintFew == ASSUME NEW x PROVE Cardinality(LintBehind(x)) \in Nat /\ Cardinality(LintBehind(x)) <= 6
<1>1. LintBehind(x) \in SUBSET Linted!States
  BY DEF LintBehind
<1>2. IsFiniteSet(LintBehind(x)) /\ Cardinality(LintBehind(x)) <= 6
  BY <1>1, LintSix, FS_Subset
<1> QED BY <1>2, FS_CardinalityType

(* The invariant: while authors edit nothing has run, and afterwards the     *)
(* accepted design stands.                                                   *)

LintRuns == /\ Linted!LintMachine /\ lint_at \in Linted!Leaves /\ lint_at \in Linted!Reached /\ lint_last.kind # "dangling"
            /\ lint_spins \in Nat /\ lint_loose \in BOOLEAN
            /\ lint_loose \/ lint_spins <= Cardinality(LintBehind(lint_at))
LintInv == /\ LintLists
           /\ (lint_pc = "edit" /\ lint_last = Linted!Quiet /\ lint_spins = 0 /\ lint_loose = FALSE) \/ (lint_pc = "run" /\ LintRuns)
           /\ Linted!NothingSwallowed /\ Linted!TimersDecided /\ Linted!LawKept /\ Linted!FailsClosed

\* What holds of a step holds of the state that it leads to, because the
\* design stays as it is.
LintAfter == /\ lint_last'.kind \in {"moved", "absorbed"}
             /\ lint_last'.kind = "absorbed" =>
                  /\ lint_last'.on \in Linted!Events /\ Linted!RestingLeaf(lint_last'.from) =>
                       \/ Linted!ignored(lint_last'.from, lint_last'.on)
                       \/ \E q \in Linted!ancestorChain(lint_last'.from) : <<q, lint_last'.on>> \in lint_refusal
                  /\ lint_last'.on \in {"after", "onError"} =>
                       \E q \in Linted!ancestorChain(lint_last'.from) : <<q, lint_last'.on>> \in lint_refusal
                  /\ lint_law /\ lint_last'.on = "g" => ~Linted!ignored(lint_last'.from, "g") \/ Linted!handled(lint_last'.from, "g")
             /\ lint_last'.kind = "moved" /\ lint_at' # lint_last'.from /\ (\E a \in Linted!ancestorChain(lint_last'.by) : Linted!notChecked(a)) =>
                  \A e \in Linted!ancestorChain(lint_at') \ Linted!ancestorChain(lint_last'.from) : ~Linted!accepting(e)

LEMMA LintSays ==
  ASSUME LintAfter, UNCHANGED Linted!design
  PROVE  (Linted!NothingSwallowed /\ Linted!TimersDecided /\ Linted!LawKept /\ Linted!FailsClosed)'
<1>1. Linted!NothingSwallowed'
  BY DEF LintAfter, Linted!design, Linted!NothingSwallowed, Linted!RestingLeaf, Linted!ignored, Linted!Has
<1>2. Linted!TimersDecided'
  BY DEF LintAfter, Linted!design, Linted!TimersDecided
<1>3. Linted!LawKept'
  BY DEF LintAfter, Linted!design, Linted!LawKept, Linted!ignored, Linted!handled, Linted!Has
<1>4. Linted!FailsClosed'
  BY DEF LintAfter, Linted!design, Linted!FailsClosed, Linted!notChecked, Linted!accepting
<1> QED BY <1>1, <1>2, <1>3, <1>4

\* The verdict on a design that stays as it is stays as it is.
LEMMA LintStands ==
  ASSUME UNCHANGED Linted!design
  PROVE  /\ Linted!LintMachine => Linted!LintMachine'
         /\ Linted!Reached' = Linted!Reached /\ Linted!alwaysNext' = Linted!alwaysNext
<1>0. /\ lint_hand' = lint_hand /\ lint_invokes' = lint_invokes /\ lint_ignores' = lint_ignores /\ lint_refusal' = lint_refusal
      /\ lint_exhaustive' = lint_exhaustive /\ lint_tags' = lint_tags /\ lint_delay' = lint_delay /\ lint_law' = lint_law
  BY DEF Linted!design
<1>1. \A s : Linted!TransitionsOf(s)' = Linted!TransitionsOf(s)
  BY <1>0 DEF Linted!TransitionsOf
<1>2. Linted!Reached' = Linted!Reached /\ Linted!alwaysNext' = Linted!alwaysNext
  BY <1>0 DEF Linted!Reached, Linted!alwaysNext, Linted!TransitionsOf
<1>3. (Linted!FinalSilent /\ Linted!OnDoneFires /\ Linted!InvokesHandled /\ Linted!DelaysDeclared) =>
        (Linted!FinalSilent /\ Linted!OnDoneFires /\ Linted!InvokesHandled /\ Linted!DelaysDeclared)'
  BY <1>0 DEF Linted!FinalSilent, Linted!OnDoneFires, Linted!InvokesHandled, Linted!DelaysDeclared, Linted!Has
<1>4. \A s \in Linted!States : Linted!checkGuardFalse(s) /\ Linted!checkShadow(s) /\ Linted!AlwaysEscapes(s) =>
        (Linted!checkGuardFalse(s) /\ Linted!checkShadow(s) /\ Linted!AlwaysEscapes(s))'
  BY <1>0 DEF Linted!checkGuardFalse, Linted!checkShadow, Linted!AlwaysEscapes, Linted!FullyGuarded, Linted!Has
<1>5. (Linted!IgnoresConsistent /\ Linted!EventsComplete /\ Linted!lintInvariants) => (Linted!IgnoresConsistent /\ Linted!EventsComplete /\ Linted!lintInvariants)'
  BY <1>0 DEF Linted!IgnoresConsistent, Linted!EventsComplete, Linted!lintInvariants, Linted!allEvents, Linted!handled, Linted!ignored, Linted!RestingLeaf, Linted!Has
<1>6. (Linted!NoDangling /\ Linted!NoDeadEnd /\ Linted!NoAlwaysCycle /\ Linted!AllReachable) => (Linted!NoDangling /\ Linted!NoDeadEnd /\ Linted!NoAlwaysCycle /\ Linted!AllReachable)'
  BY <1>1, <1>2 DEF Linted!NoDangling, Linted!NoDeadEnd, Linted!Exits, Linted!NoAlwaysCycle, Linted!AllReachable
<1>7. Linted!lintFailClosed => Linted!lintFailClosed'
  BY <1>0, <1>1 DEF Linted!lintFailClosed, Linted!notChecked, Linted!accepting
<1> QED BY <1>2, <1>3, <1>4, <1>5, <1>6, <1>7 DEF Linted!LintMachine

\* A transition keeps the machine in the graph and tells what it entered.
LEMMA LintMoveKeeps ==
  ASSUME LintLists, LintRuns, UNCHANGED Linted!design, NEW k \in Linted!Keys, NEW gx, Linted!Fire(k, gx)
  PROVE  LintRuns' /\ LintAfter
<1>0. PICK s \in Linted!ancestorChain(lint_at) : \E tr \in Linted!TransitionsOf(s) : tr.key = k /\ LintMoves(k, s, tr)
  BY LintFires DEF LintRuns
<1>1. PICK tr \in Linted!TransitionsOf(s) : tr.key = k /\ LintMoves(k, s, tr)
  BY <1>0
<1> DEFINE dest == Linted!resolve(tr.to, s)
<1>2. lint_at \in Linted!States /\ s \in Linted!States /\ dest # Linted!None /\ dest \in Linted!States
  <2>1. lint_at \in Linted!States /\ s \in Linted!States
    BY LintTree DEF LintRuns
  <2>2. dest # Linted!None
    BY <2>1 DEF LintRuns, Linted!LintMachine, Linted!NoDangling
  <2> QED BY <2>1, <2>2, LintResolves
<1>3. /\ lint_at' = (IF tr.to = Linted!Internal THEN lint_at ELSE Linted!Entry(dest))
      /\ lint_spins' = (IF k = "always" /\ tr.guard = Linted!Unguarded THEN lint_spins + 1 ELSE 0)
      /\ lint_loose' = (k = "always" /\ (lint_loose \/ s # lint_at \/ lint_at' # dest))
      /\ lint_last' = [kind |-> "moved", on |-> k, by |-> s, from |-> lint_at]
  BY <1>1, <1>2 DEF LintMoves
<1>4. lint_at' \in Linted!Leaves
  BY <1>2, <1>3, LintTree DEF LintRuns
<1>5. lint_at' \in Linted!Reached
  <2>1. Linted!Entry(dest) \in Linted!enters(dest)
    BY DEF Linted!enters
  <2>2. Linted!enters(dest) \subseteq Linted!Reached
    BY <1>2, LintReached DEF LintRuns
  <2> QED BY <1>3, <2>1, <2>2 DEF LintRuns
<1>6. lint_spins' \in Nat /\ lint_loose' \in BOOLEAN
  BY <1>3 DEF LintRuns
<1>7. lint_loose' \/ lint_spins' <= Cardinality(LintBehind(lint_at'))
  <2>1. CASE ~(k = "always" /\ tr.guard = Linted!Unguarded)
    BY <1>3, <2>1, LintFew
  <2>2. CASE k = "always" /\ tr.guard = Linted!Unguarded
    <3> SUFFICES ASSUME ~lint_loose' PROVE lint_spins' <= Cardinality(LintBehind(lint_at'))
      OBVIOUS
    <3>1. ~lint_loose /\ s = lint_at /\ lint_at' = dest
      BY <1>3, <2>2 DEF LintRuns
    <3>2. <<s, dest>> \in Linted!alwaysNext
      BY <1>1, <1>2, <2>2 DEF Linted!alwaysNext
    <3>3. /\ Cardinality(LintBehind(s)) \in Nat /\ Cardinality(LintBehind(dest)) \in Nat
          /\ Cardinality(LintBehind(dest)) >= Cardinality(LintBehind(s)) + 1
      <4>1. Linted!NoDangling /\ Linted!NoAlwaysCycle
        BY DEF LintRuns, Linted!LintMachine
      <4> QED BY <3>2, <4>1, LintWalk
    <3>4. lint_spins \in Nat /\ lint_spins <= Cardinality(LintBehind(s)) /\ lint_spins' = lint_spins + 1
      BY <1>3, <2>2, <3>1 DEF LintRuns
    <3> QED BY <3>1, <3>3, <3>4
  <2> QED BY <2>1, <2>2
<1>8. LintAfter
  <2>1. ASSUME lint_at' # lint_at, NEW a \in Linted!ancestorChain(s), Linted!notChecked(a),
               NEW e \in Linted!ancestorChain(lint_at') \ Linted!ancestorChain(lint_at)
        PROVE  ~Linted!accepting(e)
    <3>1. tr.to # Linted!Internal /\ lint_at' = Linted!Entry(dest)
      BY <1>3, <2>1
    <3>2. Linted!ancestorChain(s) \subseteq Linted!ancestorChain(lint_at)
      BY <1>2, LintTree
    <3>3. e \in Linted!ancestorChain(dest) \ Linted!ancestorChain(s) \/ e \in Linted!initialChain(dest)
      BY <1>2, <3>1, <3>2, <2>1, LintTree
    <3>4. e \in Linted!entered(s, tr)
      BY <3>3 DEF Linted!entered
    <3> QED BY <1>2, <2>1, <3>1, <3>4 DEF LintRuns, Linted!LintMachine, Linted!lintFailClosed
  <2> QED BY <1>3, <2>1 DEF LintAfter
<1>9. Linted!LintMachine' /\ Linted!Reached' = Linted!Reached /\ LintBehind(lint_at)' = LintBehind(lint_at')
  BY LintStands DEF LintRuns, LintBehind
<1>10. lint_last'.kind # "dangling"
  BY <1>3
<1>11. Cardinality(LintBehind(lint_at))' = Cardinality(LintBehind(lint_at'))
  BY <1>9
<1> QED BY <1>4, <1>5, <1>6, <1>7, <1>8, <1>9, <1>10, <1>11 DEF LintRuns

\* What is not answered was decided by the author.
LEMMA LintAbsorbs ==
  ASSUME LintRuns, NEW k \in Linted!allEvents \cup {"after", "onDone", "onError"}, NEW gx,
         k \in {"onDone", "onError"} => lint_at \in lint_invokes, k = "after" => Linted!handled(lint_at, "after"),
         Linted!Answers(k, gx) = {}, lint_last' = [kind |-> "absorbed", on |-> k, by |-> Linted!None, from |-> lint_at]
  PROVE  LintAfter
<1>0. lint_at \in Linted!States /\ lint_at \in Linted!ancestorChain(lint_at) /\ Linted!ancestorChain(lint_at) \subseteq Linted!States
  BY LintTree DEF LintRuns
<1>1. ASSUME NEW q \in Linted!ancestorChain(lint_at), Linted!Has(q, k), k \in Linted!Keys, k # "always"
      PROVE  <<q, k>> \in lint_refusal
  <2>1. Linted!Admitted(q, k, gx) = {}
    BY DEF Linted!Answers
  <2>2. Linted!FullyGuarded(q, k)
    BY <1>1, <2>1 DEF Linted!FullyGuarded, Linted!Admitted
  <2>3. Linted!checkGuardFalse(q)
    BY <1>0 DEF LintRuns, Linted!LintMachine
  <2> QED BY <1>1, <2>2, <2>3 DEF Linted!checkGuardFalse
<1>2. ASSUME k \in Linted!Events, Linted!RestingLeaf(lint_at)
      PROVE  Linted!ignored(lint_at, k) \/ \E q \in Linted!ancestorChain(lint_at) : <<q, k>> \in lint_refusal
  <2>1. k \in Linted!allEvents /\ k \in Linted!Keys /\ k # "always"
    BY <1>2 DEF Linted!Events, Linted!Keys
  <2>2. Linted!handled(lint_at, k) \/ Linted!ignored(lint_at, k)
    BY <1>0, <1>2, <2>1 DEF LintRuns, Linted!LintMachine, Linted!EventsComplete
  <2> QED BY <1>1, <2>1, <2>2 DEF Linted!handled
<1>3. ASSUME k \in {"after", "onError"}
      PROVE  \E q \in Linted!ancestorChain(lint_at) : <<q, k>> \in lint_refusal
  <2>1. k \in Linted!Keys /\ k # "always"
    BY <1>3 DEF Linted!Keys
  <2>2. \E q \in Linted!ancestorChain(lint_at) : Linted!Has(q, k)
    BY <1>0, <1>3 DEF Linted!handled, LintRuns, Linted!LintMachine, Linted!InvokesHandled
  <2> QED BY <1>1, <2>1, <2>2
<1>4. lint_law => ~Linted!ignored(lint_at, "g") \/ Linted!handled(lint_at, "g")
  BY <1>0 DEF LintRuns, Linted!LintMachine, Linted!lintInvariants
<1> QED BY <1>2, <1>3, <1>4 DEF LintAfter

LEMMA LintOne ==
  ASSUME NEW S, NEW b \in S
  PROVE  <<b>> \in Seq(S) /\ Len(<<b>>) = 1
OBVIOUS

LEMMA LintTwo ==
  ASSUME NEW S, NEW b \in S, NEW c \in S
  PROVE  <<b, c>> \in Seq(S) /\ Len(<<b, c>>) = 2
OBVIOUS

LEMMA LintPut ==
  ASSUME NEW f, LintListed(f), NEW s \in Linted!States, NEW k \in Linted!Keys, NEW l \in Seq(LintBranches), Len(l) <= 2
  PROVE  LintListed(Linted!Put(f, s, k, l))
BY DEF LintListed, Linted!Put

LEMMA LintInit == Linted!Init => LintInv
<1> SUFFICES ASSUME Linted!Init PROVE LintInv
  OBVIOUS
<1>1. LintLists
  <2> DEFINE f1 == Linted!Put(Linted!Empty, "A", "e", <<Linted!Branch("-", Linted!Sib("C"))>>)
             f2 == Linted!Put(f1, "C", "g", <<Linted!Branch("-", Linted!Sib("b"))>>)
             f3 == Linted!Put(f2, "C", "stateDone", <<Linted!Branch("-", Linted!Sib("Z"))>>)
             f4 == Linted!Put(f3, "C.D", "e", <<Linted!Branch("x", Linted!Sib("F")), Linted!Branch("-", Linted!Internal)>>)
             f5 == Linted!Put(f4, "b", "onDone", <<Linted!Branch("-", Linted!Id("C.D"))>>)
             f6 == Linted!Put(f5, "b", "onError", <<Linted!Branch("-", Linted!Sib("A"))>>)
             f7 == Linted!Put(f6, "b", "after", <<Linted!Branch("-", Linted!Sib("A"))>>)
  <2>0. Linted!Seed = f7
    BY DEF Linted!Seed, Linted!Put
  <2>1. /\ \A n \in LintNames : \A g \in {"-", "x"} : Linted!Branch(g, Linted!Sib(n)) \in LintBranches /\ Linted!Branch(g, Linted!Id(n)) \in LintBranches
        /\ Linted!Branch("-", Linted!Internal) \in LintBranches
    <3>1. /\ \A n \in LintNames : Linted!Sib(n) \in LintTargets /\ Linted!Id(n) \in LintTargets
          /\ Linted!Internal \in LintTargets
      BY DEF LintTargets
    <3> QED BY <3>1 DEF Linted!Branch, LintBranches
  <2>a. /\ \A n \in LintNames : /\ <<Linted!Branch("-", Linted!Sib(n))>> \in Seq(LintBranches) /\ Len(<<Linted!Branch("-", Linted!Sib(n))>>) <= 2
                                /\ <<Linted!Branch("-", Linted!Id(n))>> \in Seq(LintBranches) /\ Len(<<Linted!Branch("-", Linted!Id(n))>>) <= 2
    BY <2>1, LintOne
  <2>b. LintNames = {"A", "C", "F", "b", "Z", "C.D"}
    BY DEF LintNames
  <2>c. /\ <<Linted!Branch("x", Linted!Sib("F")), Linted!Branch("-", Linted!Internal)>> \in Seq(LintBranches)
        /\ Len(<<Linted!Branch("x", Linted!Sib("F")), Linted!Branch("-", Linted!Internal)>>) <= 2
    BY <2>1, <2>b, LintTwo
  <2>2. LintListed(Linted!Empty)
    BY DEF Linted!Empty, LintListed
  <2>3. {"A", "C", "C.D", "b"} \subseteq Linted!States /\ {"e", "g", "stateDone", "onDone", "onError", "after"} \subseteq Linted!Keys
    BY DEF Linted!States, Linted!Keys, Linted!Events
  <2>4. LintListed(f1)
    BY <2>a, <2>b, <2>2, <2>3, LintPut
  <2> HIDE DEF f1
  <2>5. LintListed(f2)
    BY <2>a, <2>b, <2>4, <2>3, LintPut
  <2> HIDE DEF f2
  <2>6. LintListed(f3)
    BY <2>a, <2>b, <2>5, <2>3, LintPut
  <2> HIDE DEF f3
  <2>7. LintListed(f4)
    BY <2>c, <2>6, <2>3, LintPut
  <2> HIDE DEF f4
  <2>8. LintListed(f5)
    BY <2>a, <2>b, <2>7, <2>3, LintPut
  <2> HIDE DEF f5
  <2>9. LintListed(f6)
    BY <2>a, <2>b, <2>8, <2>3, LintPut
  <2> HIDE DEF f6
  <2>10. LintListed(f7)
    BY <2>a, <2>b, <2>9, <2>3, LintPut
  <2> QED BY <2>0, <2>10 DEF Linted!Init, LintLists
<1>2. lint_pc = "edit" /\ lint_last = Linted!Quiet /\ lint_spins = 0 /\ lint_loose = FALSE
  BY DEF Linted!Init
<1>3. lint_last.kind = "quiet"
  BY <1>2 DEF Linted!Quiet
<1>4. Linted!NothingSwallowed /\ Linted!TimersDecided /\ Linted!LawKept /\ Linted!FailsClosed
  BY <1>3 DEF Linted!NothingSwallowed, Linted!TimersDecided, Linted!LawKept, Linted!FailsClosed
<1> QED BY <1>1, <1>2, <1>4 DEF LintInv

\* Authors keep the lists short, and nothing runs while they edit.
LEMMA LintEdits ==
  ASSUME LintInv, Linted!EditMachine \/ Linted!Author((Linted!WriteMatrix \/ Linted!EditMatrix) /\ UNCHANGED Linted!design)
  PROVE  LintInv'
<1>1. lint_pc = "edit" /\ lint_last = Linted!Quiet /\ lint_spins = 0 /\ lint_loose = FALSE /\ LintLists
  BY DEF LintInv, Linted!EditMachine, Linted!Author
<1>2. UNCHANGED <<lint_pc, lint_last, lint_spins, lint_loose>>
  BY DEF Linted!EditMachine, Linted!Author, Linted!running
<1>3. LintLists'
  <2>1. CASE UNCHANGED lint_hand
    BY <1>1, <2>1 DEF LintLists
  <2>2. CASE Linted!AddBranch
    <3>1. PICK s \in Linted!Edited, k \in Linted!Keys, g \in {"-", "x"}, t \in Linted!NewTargets :
            Len(lint_hand[s][k]) < 2 /\ lint_hand' = Linted!Put(lint_hand, s, k, Append(lint_hand[s][k], Linted!Branch(g, t)))
      BY <2>2 DEF Linted!AddBranch
    <3>2. s \in Linted!States
      BY DEF Linted!Edited, Linted!States
    <3>3. Linted!Branch(g, t) \in LintBranches
      <4>1. t \in LintTargets
        BY DEF Linted!NewTargets, LintTargets, LintNames
      <4> QED BY <4>1 DEF Linted!Branch, LintBranches
    <3>4. lint_hand[s][k] \in Seq(LintBranches)
      BY <1>1, <3>2 DEF LintLists, LintListed
    <3>5. Append(lint_hand[s][k], Linted!Branch(g, t)) \in Seq(LintBranches) /\ Len(Append(lint_hand[s][k], Linted!Branch(g, t))) <= 2
      BY <3>1, <3>3, <3>4
    <3> QED BY <1>1, <3>1, <3>2, <3>5, LintPut DEF LintLists
  <2>3. CASE Linted!RemoveBranch
    <3>1. PICK s \in Linted!States, k \in Linted!Keys : \E i \in DOMAIN lint_hand[s][k] : lint_hand' = Linted!Put(lint_hand, s, k, Linted!RemoveAt(lint_hand[s][k], i))
      BY <2>3 DEF Linted!RemoveBranch
    <3>2. PICK i \in DOMAIN lint_hand[s][k] : lint_hand' = Linted!Put(lint_hand, s, k, Linted!RemoveAt(lint_hand[s][k], i))
      BY <3>1
    <3> DEFINE q == lint_hand[s][k]
    <3>3. q \in Seq(LintBranches) /\ Len(q) \in Nat /\ Len(q) <= 2 /\ i \in 1..Len(q)
      BY <1>1 DEF LintLists, LintListed
    <3> HIDE DEF q
    <3>4. SubSeq(q, 1, i - 1) \in Seq(LintBranches) /\ Len(SubSeq(q, 1, i - 1)) = i - 1
      BY <3>3
    <3>5. SubSeq(q, i + 1, Len(q)) \in Seq(LintBranches) /\ Len(SubSeq(q, i + 1, Len(q))) = Len(q) - i
      BY <3>3
    <3>6. Linted!RemoveAt(q, i) \in Seq(LintBranches) /\ Len(Linted!RemoveAt(q, i)) <= 2
      <4>1. Linted!RemoveAt(q, i) = SubSeq(q, 1, i - 1) \o SubSeq(q, i + 1, Len(q))
        BY DEF Linted!RemoveAt
      <4> QED BY <3>3, <3>4, <3>5, <4>1, ConcatProperties
    <3> QED BY <1>1, <3>2, <3>6, LintPut DEF LintLists, q
  <2>4. Linted!AddBranch \/ Linted!RemoveBranch \/ UNCHANGED lint_hand
    BY DEF Linted!EditMachine, Linted!Author, Linted!design
  <2> QED BY <2>1, <2>2, <2>3, <2>4
<1>4. lint_last'.kind = "quiet"
  BY <1>1, <1>2 DEF Linted!Quiet
<1>5. (Linted!NothingSwallowed /\ Linted!TimersDecided /\ Linted!LawKept /\ Linted!FailsClosed)'
  BY <1>4 DEF Linted!NothingSwallowed, Linted!TimersDecided, Linted!LawKept, Linted!FailsClosed
<1> QED BY <1>1, <1>2, <1>3, <1>5 DEF LintInv

\* The lint accepts, and the machine starts in the first leaf.
LEMMA LintStarts ==
  ASSUME LintInv, Linted!Start
  PROVE  LintInv'
<1>0. /\ lint_pc' = "run" /\ lint_at' = Linted!Entry(Linted!Initial["m"]) /\ UNCHANGED Linted!design
      /\ UNCHANGED <<lint_spins, lint_loose, lint_last>> /\ Linted!LintMachine
  BY DEF Linted!Start, Linted!Lint
<1>1. lint_last = Linted!Quiet /\ lint_spins = 0 /\ lint_loose = FALSE /\ LintLists
  BY DEF LintInv, Linted!Start
<1>2. LintLists'
  BY <1>0, <1>1 DEF LintLists, Linted!design
<1>3. Linted!LintMachine' /\ Linted!Reached' = Linted!Reached
  BY <1>0, LintStands
<1>4. lint_at' = "A" /\ "A" \in Linted!Leaves /\ "A" \in Linted!enters("A")
  BY <1>0 DEF Linted!Entry, Linted!Initial, Linted!Leaves, Linted!States, Linted!Compound, Linted!enters
<1>5. lint_at' \in Linted!Reached'
  BY <1>3, <1>4, LintReached
<1>6. lint_last'.kind = "quiet"
  BY <1>0, <1>1 DEF Linted!Quiet
<1>7. Cardinality(LintBehind(lint_at)') \in Nat
  <2>1. LintBehind(lint_at)' \in SUBSET Linted!States
    BY DEF LintBehind
  <2>2. IsFiniteSet(LintBehind(lint_at)')
    BY <2>1, LintSix, FS_Subset
  <2> QED BY <2>2, FS_CardinalityType
<1>8. lint_spins' = 0 /\ lint_loose' = FALSE
  BY <1>0, <1>1
<1>a. Cardinality(LintBehind(lint_at))' = Cardinality(LintBehind(lint_at)')
  OBVIOUS
<1>b. (lint_loose \/ lint_spins <= Cardinality(LintBehind(lint_at)))'
  BY <1>7, <1>8, <1>a
<1>9. LintRuns'
  BY <1>3, <1>4, <1>5, <1>6, <1>8, <1>b DEF LintRuns
<1>10. (Linted!NothingSwallowed /\ Linted!TimersDecided /\ Linted!LawKept /\ Linted!FailsClosed)'
  BY <1>6 DEF Linted!NothingSwallowed, Linted!TimersDecided, Linted!LawKept, Linted!FailsClosed
<1> QED BY <1>0, <1>2, <1>9, <1>10 DEF LintInv

\* A machine that runs keeps the design, and what its step says stays true.
LEMMA LintRunsOn ==
  ASSUME LintInv, lint_pc = "run", UNCHANGED Linted!design, UNCHANGED lint_pc,
         \/ \E k \in Linted!Keys, gx \in BOOLEAN : Linted!Fire(k, gx)
         \/ lint_spins' = 0 /\ lint_loose' = FALSE /\ UNCHANGED <<lint_at, lint_last>>
         \/ LintAfter /\ lint_last'.kind = "absorbed" /\ UNCHANGED <<lint_at, lint_spins, lint_loose>>
         \/ UNCHANGED <<lint_at, lint_spins, lint_loose, lint_last>>
  PROVE  LintInv'
<1>0. LintLists /\ LintRuns
  BY DEF LintInv
<1>1. LintLists'
  BY <1>0 DEF LintLists, Linted!design
<1>2. Linted!LintMachine' /\ Linted!Reached' = Linted!Reached /\ Linted!alwaysNext' = Linted!alwaysNext
  BY <1>0, LintStands DEF LintRuns
<1>3. CASE \E k \in Linted!Keys, gx \in BOOLEAN : Linted!Fire(k, gx)
  <2>1. PICK k \in Linted!Keys, gx \in BOOLEAN : Linted!Fire(k, gx)
    BY <1>3
  <2>2. LintRuns' /\ LintAfter
    BY <1>0, <2>1, LintMoveKeeps
  <2> QED BY <1>1, <2>2, LintSays DEF LintInv
<1>4. ASSUME UNCHANGED lint_at, lint_last'.kind # "dangling",
             (lint_spins' = 0 /\ lint_loose' = FALSE) \/ UNCHANGED <<lint_spins, lint_loose>>
      PROVE  LintRuns'
  <2>1. LintBehind(lint_at)' = LintBehind(lint_at)
    BY <1>2, <1>4 DEF LintBehind
  <2>2. Cardinality(LintBehind(lint_at)) \in Nat
    BY LintFew
  <2>3. Cardinality(LintBehind(lint_at))' = Cardinality(LintBehind(lint_at))
    BY <2>1
  <2>4. (lint_loose \/ lint_spins <= Cardinality(LintBehind(lint_at)))'
    BY <1>0, <1>4, <2>2, <2>3 DEF LintRuns
  <2>5. lint_spins' \in Nat /\ lint_loose' \in BOOLEAN
    <3>0. lint_spins \in Nat /\ lint_loose \in BOOLEAN
      BY <1>0 DEF LintRuns
    <3>1. CASE lint_spins' = 0 /\ lint_loose' = FALSE
      BY <3>1
    <3>2. CASE UNCHANGED <<lint_spins, lint_loose>>
      <4>1. lint_spins' = lint_spins /\ lint_loose' = lint_loose
        BY <3>2
      <4> QED BY <3>0, <4>1
    <3> QED BY <1>4, <3>1, <3>2
  <2>6. lint_at' \in Linted!Leaves /\ lint_at' \in Linted!Reached'
    BY <1>0, <1>2, <1>4 DEF LintRuns
  <2> QED BY <1>2, <1>4, <2>4, <2>5, <2>6 DEF LintRuns
<1>5. ASSUME UNCHANGED <<lint_at, lint_last>>
      PROVE  (Linted!NothingSwallowed /\ Linted!TimersDecided /\ Linted!LawKept /\ Linted!FailsClosed)'
  <2>0. Linted!NothingSwallowed /\ Linted!TimersDecided /\ Linted!LawKept /\ Linted!FailsClosed
    BY DEF LintInv
  <2>1. (Linted!NothingSwallowed /\ Linted!TimersDecided)'
    BY <1>5, <2>0 DEF Linted!design, Linted!NothingSwallowed, Linted!TimersDecided, Linted!RestingLeaf, Linted!ignored, Linted!Has
  <2>2. Linted!LawKept'
    BY <1>5, <2>0 DEF Linted!design, Linted!LawKept, Linted!ignored, Linted!handled, Linted!Has
  <2>3. Linted!FailsClosed'
    BY <1>5, <2>0 DEF Linted!design, Linted!FailsClosed, Linted!notChecked, Linted!accepting
  <2> QED BY <2>1, <2>2, <2>3
<1>6. CASE lint_spins' = 0 /\ lint_loose' = FALSE /\ UNCHANGED <<lint_at, lint_last>>
  <2>1. LintRuns'
    BY <1>0, <1>4, <1>6 DEF LintRuns
  <2> QED BY <1>1, <1>5, <1>6, <2>1 DEF LintInv
<1>7. CASE LintAfter /\ lint_last'.kind = "absorbed" /\ UNCHANGED <<lint_at, lint_spins, lint_loose>>
  <2>1. LintRuns'
    BY <1>4, <1>7
  <2> QED BY <1>1, <1>7, <2>1, LintSays DEF LintInv
<1>8. CASE UNCHANGED <<lint_at, lint_spins, lint_loose, lint_last>>
  <2>1. LintRuns'
    BY <1>0, <1>4, <1>8 DEF LintRuns
  <2> QED BY <1>1, <1>5, <1>8, <2>1 DEF LintInv
<1> QED BY <1>3, <1>6, <1>7, <1>8

LEMMA LintKeeps ==
  ASSUME LintInv, [Linted!Next]_(Linted!vars)
  PROVE  LintInv'
<1>0. {"always", "stateDone", "after", "onDone", "onError"} \subseteq Linted!Keys /\ Linted!allEvents \subseteq Linted!Keys
  BY DEF Linted!Keys, Linted!allEvents
<1>1. CASE Linted!EditMachine \/ Linted!Author((Linted!WriteMatrix \/ Linted!EditMatrix) /\ UNCHANGED Linted!design)
  BY <1>1, LintEdits
<1>2. CASE Linted!Start
  BY <1>2, LintStarts
<1>3. CASE Linted!Eventless
  <2>1. lint_pc = "run" /\ UNCHANGED Linted!design /\ UNCHANGED lint_pc
    BY <1>3 DEF Linted!Eventless
  <2>2. \/ \E k \in Linted!Keys, gx \in BOOLEAN : Linted!Fire(k, gx)
        \/ lint_spins' = 0 /\ lint_loose' = FALSE /\ UNCHANGED <<lint_at, lint_last>>
    BY <1>0, <1>3 DEF Linted!Eventless
  <2> QED BY <2>1, <2>2, LintRunsOn
<1>4. CASE Linted!Completes
  <2>1. lint_pc = "run" /\ UNCHANGED Linted!design /\ UNCHANGED lint_pc
    BY <1>4 DEF Linted!Completes
  <2>2. \E k \in Linted!Keys, gx \in BOOLEAN : Linted!Fire(k, gx)
    BY <1>0, <1>4 DEF Linted!Completes
  <2> QED BY <2>1, <2>2, LintRunsOn
<1>5. CASE Linted!Arrives
  <2>1. lint_pc = "run" /\ UNCHANGED Linted!design /\ UNCHANGED lint_pc
    BY <1>5 DEF Linted!Arrives
  <2>2. PICK k \in Linted!allEvents \cup {"after", "onDone", "onError"}, gx \in BOOLEAN :
          /\ k \in {"onDone", "onError"} => lint_at \in lint_invokes
          /\ k = "after" => Linted!handled(lint_at, "after")
          /\ \/ Linted!Fire(k, gx)
             \/ /\ Linted!Answers(k, gx) = {}
                /\ lint_last' = [kind |-> "absorbed", on |-> k, by |-> Linted!None, from |-> lint_at]
                /\ UNCHANGED <<lint_at, lint_idle, lint_spins, lint_loose>>
    BY <1>5 DEF Linted!Arrives
  <2>3. CASE Linted!Fire(k, gx)
    <3>1. \E m \in Linted!Keys, g \in BOOLEAN : Linted!Fire(m, g)
      BY <1>0, <2>3
    <3> QED BY <2>1, <3>1, LintRunsOn
  <2>4. CASE /\ Linted!Answers(k, gx) = {}
             /\ lint_last' = [kind |-> "absorbed", on |-> k, by |-> Linted!None, from |-> lint_at]
             /\ UNCHANGED <<lint_at, lint_idle, lint_spins, lint_loose>>
    <3>1. LintRuns
      BY <2>1 DEF LintInv
    <3>2. LintAfter
      BY <2>2, <2>4, <3>1, LintAbsorbs
    <3>3. lint_last'.kind = "absorbed" /\ UNCHANGED <<lint_at, lint_spins, lint_loose>>
      BY <2>4
    <3> QED BY <2>1, <3>2, <3>3, LintRunsOn
  <2> QED BY <2>2, <2>3, <2>4
<1>6. CASE UNCHANGED Linted!vars
  <2>1. UNCHANGED Linted!design /\ UNCHANGED <<lint_pc, lint_at, lint_spins, lint_loose, lint_last>>
    BY <1>6 DEF Linted!vars, Linted!running
  <2>2. CASE lint_pc = "run"
    BY <2>1, <2>2, LintRunsOn
  <2>3. CASE lint_pc # "run"
    <3>1. lint_pc = "edit" /\ lint_last = Linted!Quiet /\ lint_spins = 0 /\ lint_loose = FALSE /\ LintLists
      BY <2>3 DEF LintInv
    <3>2. LintLists'
      BY <2>1, <3>1 DEF LintLists, Linted!design
    <3>3. lint_last'.kind = "quiet"
      BY <2>1, <3>1 DEF Linted!Quiet
    <3>4. (Linted!NothingSwallowed /\ Linted!TimersDecided /\ Linted!LawKept /\ Linted!FailsClosed)'
      BY <3>3 DEF Linted!NothingSwallowed, Linted!TimersDecided, Linted!LawKept, Linted!FailsClosed
    <3> QED BY <2>1, <3>1, <3>2, <3>4 DEF LintInv
  <2> QED BY <2>2, <2>3
<1> QED BY <1>1, <1>2, <1>3, <1>4, <1>5, <1>6 DEF Linted!Next

\* What a row of the record owes to its reviewer: the digests that it covers
\* are of what the reviewer saw, and so is the digest of its inventory.
AttGood(x) ==
  /\ \A p \in DOMAIN x.covers : p \in DOMAIN x.sawFiles /\ x.covers[p] = x.sawFiles[p]
  /\ x.manifest # Attested!Nothing => x.manifest.hash = x.sawTree /\ x.sawTree.root = x.sawRoot

\* A row as machinery attest renders it from the design and the tree as they are.
AttRendered(x) ==
  /\ x.kind \in {"plan", "current", "historical"} /\ Attested!Compatible(x.claim, x.kind)
  /\ x.covers = Attested!Hashed(Attested!attestationRequiredPaths(x.claim, att_design))
  /\ Attested!attestationRequiredPaths(x.claim, att_design) # {}
  /\ \A p \in Attested!attestationRequiredPaths(x.claim, att_design) : att_design[p] # 0
  /\ x.manifest = IF x.kind = "current" THEN Attested!captureAttestationSubject(x.sawRoot) ELSE Attested!Nothing
  /\ x.sawRoot \in Attested!Roots
AttClean == att_version = 2 /\ \E i \in Attested!Slots : Attested!Listed(att_rows) = {i} /\ AttRendered(att_rows[i])

\* What a running gate holds: rows of that kind, a fresh inventory that names
\* itself, and, while nothing was written, the record and the tree as they are.
AttHeld ==
  /\ \A i \in Attested!Listed(att_held.rows) : AttGood(att_held.rows[i])
  /\ att_held.root # Attested!None => att_held.fresh.hash = att_held.fresh.entries /\ att_held.fresh.entries.root = att_held.root
  /\ att_held.writes \in Int /\ att_held.writes <= att_writes
  /\ att_held.writes = att_writes => att_held.rows = att_rows /\ att_held.version = att_version
  /\ att_held.writes = att_writes /\ att_clean =>
       /\ att_held.design = att_design /\ att_held.rows = att_rows /\ att_held.version = att_version
       /\ att_held.root # Attested!None => att_held.fresh = Attested!captureAttestationSubject(att_held.root)

AttInv ==
  /\ DOMAIN att_rows = Attested!Slots /\ att_writes \in Int /\ att_clean \in BOOLEAN
  /\ \A i \in Attested!Listed(att_rows) : AttGood(att_rows[i])
  /\ att_clean => AttClean
  /\ att_held # Attested!Nothing => AttHeld
  /\ Attested!HeldAsJudged /\ Attested!CurrentAsJudged /\ Attested!Covered /\ Attested!RenderedPasses

LEMMA AttInit == Attested!Init => AttInv
<1> SUFFICES ASSUME Attested!Init PROVE AttInv
  OBVIOUS
<1>1. Attested!Listed(att_rows) = {}
  BY DEF Attested!Init, Attested!Listed
<1>2. Attested!HeldAsJudged /\ Attested!CurrentAsJudged /\ Attested!Covered /\ Attested!RenderedPasses
  BY DEF Attested!Init, Attested!HeldAsJudged, Attested!CurrentAsJudged, Attested!Covered, Attested!RenderedPasses, Attested!Passed
<1>3. att_clean = FALSE /\ att_held = Attested!Nothing /\ DOMAIN att_rows = Attested!Slots /\ att_writes \in Int
  BY DEF Attested!Init
<1> QED BY <1>1, <1>2, <1>3 DEF AttInv

\* The result of a gate stays until the next one starts.
LEMMA AttResult ==
  ASSUME AttInv, UNCHANGED att_result
  PROVE  (Attested!HeldAsJudged /\ Attested!CurrentAsJudged /\ Attested!Covered /\ Attested!RenderedPasses)'
<1>1. Attested!HeldAsJudged'
  BY DEF AttInv, Attested!HeldAsJudged, Attested!Passed, Attested!RowsOf, Attested!Listed
<1>2. Attested!CurrentAsJudged'
  BY DEF AttInv, Attested!CurrentAsJudged, Attested!Passed, Attested!RowsOf, Attested!Listed
<1>3. Attested!Covered'
  BY DEF AttInv, Attested!Covered, Attested!Passed, Attested!RowsOf, Attested!Listed
<1>4. Attested!RenderedPasses'
  BY DEF AttInv, Attested!RenderedPasses, Attested!RowsOf, Attested!Listed
<1> QED BY <1>1, <1>2, <1>3, <1>4

\* An edit that makes the record unclean leaves what the gate holds as it is.
LEMMA AttEdited ==
  ASSUME AttInv, Attested!Edit, att_clean' = FALSE, DOMAIN att_rows' = Attested!Slots, att_writes' \in Int, att_writes <= att_writes',
         \A i \in Attested!Listed(att_rows') : AttGood(att_rows'[i]),
         att_writes' # att_writes \/ UNCHANGED <<att_rows, att_version>>
  PROVE  AttInv'
<1>1. (Attested!HeldAsJudged /\ Attested!CurrentAsJudged /\ Attested!Covered /\ Attested!RenderedPasses)'
  BY AttResult DEF Attested!Edit
<1>2. att_held' # Attested!Nothing => AttHeld'
  BY DEF AttInv, AttHeld, Attested!Edit, Attested!Listed, AttGood
<1>3. \A i \in Attested!Listed(att_rows)' : AttGood(att_rows[i])'
  BY DEF Attested!Listed, AttGood
<1> QED BY <1>1, <1>2, <1>3 DEF AttInv

LEMMA AttKinds ==
  ASSUME NEW c, NEW kind, NEW S, NEW m, NEW r
  PROVE  /\ Attested!Row(c, kind, S, m, r) # Attested!Nothing
         /\ Attested!captureAttestationSubject(r) # Attested!Nothing
BY DEF Attested!Row, Attested!Nothing, Attested!captureAttestationSubject

LEMMA AttPut ==
  ASSUME AttInv, NEW v, NEW i \in Attested!Slots, NEW x, Attested!Put(v, i, x), AttGood(x)
  PROVE  /\ DOMAIN att_rows' = Attested!Slots /\ att_writes' \in Int /\ att_writes <= att_writes' /\ att_writes' # att_writes
         /\ \A j \in Attested!Listed(att_rows') : AttGood(att_rows'[j])
         /\ att_rows'[i] = x /\ \A j \in Attested!Slots \ {i} : att_rows'[j] = att_rows[j]
BY DEF AttInv, Attested!Put, Attested!Write, Attested!Listed

LEMMA AttNew ==
  ASSUME NEW c, NEW kind, NEW S, NEW r,
         NEW m, m \in {Attested!Nothing, Attested!captureAttestationSubject(r)}
  PROVE  AttGood(Attested!Row(c, kind, Attested!Hashed(S), m, r))
BY DEF AttGood, Attested!Row, Attested!Hashed, Attested!captureAttestationSubject, Attested!captured

LEMMA AttAttests ==
  ASSUME AttInv, Attested!Attest
  PROVE  AttInv'
<1>1. PICK c \in ReviewClaims, kind \in {"plan", "current", "historical"}, r \in Attested!Roots, i \in Attested!Slots :
         /\ Attested!Edit /\ Attested!Compatible(c, kind) /\ Attested!attestationRequiredPaths(c, att_design) # {}
         /\ \A p \in Attested!attestationRequiredPaths(c, att_design) : att_design[p] # 0
         /\ Attested!Put(2, i, Attested!Row(c, kind, Attested!Hashed(Attested!attestationRequiredPaths(c, att_design)), IF kind = "current" THEN Attested!captureAttestationSubject(r) ELSE Attested!Nothing, r))
         /\ att_clean' = (Attested!Listed(att_rows) \subseteq {i}) /\ UNCHANGED <<att_design, att_impl>>
  BY DEF Attested!Attest
<1> DEFINE S == Attested!attestationRequiredPaths(c, att_design)
           m == IF kind = "current" THEN Attested!captureAttestationSubject(r) ELSE Attested!Nothing
           x == Attested!Row(c, kind, Attested!Hashed(S), m, r)
<1>2. AttGood(x)
  <2>1. m \in {Attested!Nothing, Attested!captureAttestationSubject(r)}
    OBVIOUS
  <2> HIDE DEF S, m
  <2> QED BY <2>1, AttNew
<1>3. /\ DOMAIN att_rows' = Attested!Slots /\ att_writes' \in Int /\ att_writes <= att_writes' /\ att_writes' # att_writes
      /\ \A j \in Attested!Listed(att_rows') : AttGood(att_rows'[j])
      /\ att_rows'[i] = x /\ \A j \in Attested!Slots \ {i} : att_rows'[j] = att_rows[j]
  <2>1. Attested!Put(2, i, x)
    BY <1>1
  <2> HIDE DEF x
  <2> QED BY <1>2, <2>1, AttPut
<1>4. att_clean' => AttClean'
  <2> SUFFICES ASSUME att_clean' PROVE AttClean'
    OBVIOUS
  <2>1. Attested!Listed(att_rows) \subseteq {i}
    BY <1>1
  <2>2. x # Attested!Nothing
    <3> HIDE DEF S, m
    <3> QED BY AttKinds
  <2>3. Attested!Listed(att_rows)' = {i}
    <3> HIDE DEF x
    <3> QED BY <1>3, <2>1, <2>2 DEF Attested!Listed
  <2>4. att_version' = 2
    BY <1>1 DEF Attested!Put, Attested!Write
  <2>5. AttRendered(att_rows[i])'
    <3>1. x.claim = c /\ x.kind = kind /\ x.covers = Attested!Hashed(S) /\ x.manifest = m /\ x.sawRoot = r
      BY DEF Attested!Row
    <3>2. Attested!attestationRequiredPaths(c, att_design)' = S
      BY <1>1 DEF Attested!attestationRequiredPaths
    <3>3. Attested!Hashed(S)' = Attested!Hashed(S)
      BY <1>1, <3>2 DEF Attested!Hashed
    <3>4. Attested!captureAttestationSubject(r)' = Attested!captureAttestationSubject(r)
      BY <1>1 DEF Attested!captureAttestationSubject, Attested!captured
    <3>5. /\ kind \in {"plan", "current", "historical"} /\ Attested!Compatible(c, kind)
          /\ Attested!Hashed(S) = Attested!Hashed(Attested!attestationRequiredPaths(c, att_design))' /\ S # {} /\ (\A p \in S : att_design[p] # 0)
          /\ m = IF kind = "current" THEN Attested!captureAttestationSubject(r)' ELSE Attested!Nothing
      BY <1>1, <3>2, <3>3, <3>4 DEF Attested!Hashed
    <3>6. att_rows'[i] = x
      BY <1>3
    <3> HIDE DEF S, m, x
    <3> QED BY <1>1, <3>1, <3>2, <3>5, <3>6 DEF AttRendered
  <2> QED BY <2>3, <2>4, <2>5 DEF AttClean
<1>5. (Attested!HeldAsJudged /\ Attested!CurrentAsJudged /\ Attested!Covered /\ Attested!RenderedPasses)'
  BY <1>1, AttResult DEF Attested!Edit
<1>6. att_held' # Attested!Nothing => AttHeld'
  <2> HIDE DEF x
  <2> QED BY <1>1, <1>3 DEF AttInv, AttHeld, Attested!Edit, Attested!Listed, AttGood
<1>7. \A j \in Attested!Listed(att_rows)' : AttGood(att_rows[j])'
  BY <1>3 DEF Attested!Listed, AttGood
<1>8. att_clean' \in BOOLEAN
  BY <1>1
<1> QED BY <1>3, <1>4, <1>5, <1>6, <1>7, <1>8 DEF AttInv

LEMMA AttRewritten ==
  ASSUME NEW x, AttGood(x), NEW y \in Attested!Rewritings(x)
  PROVE  AttGood(y)
<1>1. CASE \E p \in ReviewPaths : y = Attested!JudgeAgain(x, p)
  <2>1. PICK p \in ReviewPaths : y = Attested!JudgeAgain(x, p)
    BY <1>1
  <2>2. y.covers = Attested!With(x.covers, p) /\ y.sawFiles = Attested!With(x.sawFiles, p) /\ y.manifest = x.manifest /\ y.sawTree = x.sawTree /\ y.sawRoot = x.sawRoot
    BY <2>1 DEF Attested!JudgeAgain
  <2> QED BY <2>2 DEF AttGood, Attested!With
<1>2. CASE \E p \in DOMAIN x.covers : y = Attested!LeaveOut(x, p)
  BY <1>2 DEF AttGood, Attested!LeaveOut
<1>3. CASE \E k : y = [x EXCEPT !.kind = k]
  BY <1>3 DEF AttGood
<1>4. CASE y = [x EXCEPT !.manifest = Attested!Nothing]
  BY <1>4 DEF AttGood
<1>5. CASE x.manifest # Attested!Nothing /\ \E e \in ReviewEntries : y = Attested!Correct(x, e)
  <2>1. PICK e \in ReviewEntries : y = Attested!Correct(x, e)
    BY <1>5
  <2>2. /\ y.covers = x.covers /\ y.sawFiles = x.sawFiles /\ y.sawTree = x.sawTree /\ y.sawRoot = x.sawRoot
        /\ y.manifest = Attested!Corrected(x.manifest, e)
    BY <2>1 DEF Attested!Correct
  <2>3. Attested!Corrected(x.manifest, e).hash = x.manifest.hash
    BY DEF Attested!Corrected
  <2> QED BY <1>5, <2>2, <2>3 DEF AttGood
<1> QED BY <1>1, <1>2, <1>3, <1>4, <1>5 DEF Attested!Rewritings

LEMMA AttStaysClean ==
  ASSUME AttInv, UNCHANGED <<att_design, att_impl, att_version, att_rows, att_clean>>, att_clean'
  PROVE  AttClean'
<1>1. PICK i \in Attested!Slots : att_version = 2 /\ Attested!Listed(att_rows) = {i} /\ AttRendered(att_rows[i])
  BY DEF AttInv, AttClean
<1>2. Attested!Listed(att_rows)' = {i}
  BY <1>1 DEF Attested!Listed
<1>3. /\ Attested!captureAttestationSubject(att_rows[i].sawRoot)' = Attested!captureAttestationSubject(att_rows[i].sawRoot)
      /\ Attested!Hashed(Attested!attestationRequiredPaths(att_rows[i].claim, att_design))' = Attested!Hashed(Attested!attestationRequiredPaths(att_rows[i].claim, att_design))
      /\ Attested!attestationRequiredPaths(att_rows[i].claim, att_design)' = Attested!attestationRequiredPaths(att_rows[i].claim, att_design)
  BY DEF Attested!captureAttestationSubject, Attested!captured, Attested!Hashed, Attested!attestationRequiredPaths
<1>4. AttRendered(att_rows[i])'
  BY <1>1, <1>3 DEF AttRendered
<1> QED BY <1>1, <1>2, <1>4 DEF AttClean

LEMMA AttCaptures ==
  ASSUME AttInv, Attested!Capture
  PROVE  AttInv'
<1>1. PICK r \in Attested!Roots \cup {Attested!None} :
         att_held' = [design |-> att_design, version |-> att_version, rows |-> att_rows, root |-> r, clean |-> att_clean, writes |-> att_writes,
                  fresh |-> IF r = Attested!None THEN Attested!Nothing ELSE Attested!captureAttestationSubject(r)]
  BY DEF Attested!Capture
<1>2. att_result' = Attested!Nothing /\ UNCHANGED <<att_design, att_impl, att_version, att_rows, att_writes, att_clean>>
  BY DEF Attested!Capture, Attested!docs
<1>3. (Attested!HeldAsJudged /\ Attested!CurrentAsJudged /\ Attested!Covered /\ Attested!RenderedPasses)'
  BY <1>2 DEF Attested!HeldAsJudged, Attested!CurrentAsJudged, Attested!Covered, Attested!RenderedPasses, Attested!Passed
<1>4. /\ att_held'.design = att_design' /\ att_held'.version = att_version' /\ att_held'.rows = att_rows' /\ att_held'.root = r /\ att_held'.writes = att_writes'
      /\ att_held'.fresh = IF r = Attested!None THEN Attested!Nothing ELSE Attested!captureAttestationSubject(r)
  BY <1>1, <1>2
<1>5. Attested!captureAttestationSubject(r)' = Attested!captureAttestationSubject(r)
  BY <1>2 DEF Attested!captureAttestationSubject, Attested!captured
<1>6. Attested!captureAttestationSubject(r).hash = Attested!captureAttestationSubject(r).entries /\ Attested!captureAttestationSubject(r).entries.root = r
  BY DEF Attested!captureAttestationSubject, Attested!captured
<1>7. \A i \in Attested!Listed(att_rows)' : AttGood(att_rows[i])'
  BY <1>2 DEF AttInv, Attested!Listed, AttGood
<1>8. AttHeld'
  <2>1. (\A i \in Attested!Listed(att_held.rows) : AttGood(att_held.rows[i]))'
    BY <1>4, <1>7 DEF Attested!Listed, AttGood
  <2>2. att_held'.root # Attested!None => att_held'.fresh.hash = att_held'.fresh.entries /\ att_held'.fresh.entries.root = att_held'.root
    BY <1>4, <1>6
  <2>3. att_held'.writes \in Int /\ att_held'.writes <= att_writes'
    BY <1>2, <1>4 DEF AttInv
  <2>4. (att_held.root # Attested!None => att_held.fresh = Attested!captureAttestationSubject(att_held.root))'
    BY <1>4, <1>5
  <2> QED BY <1>4, <2>1, <2>2, <2>3, <2>4 DEF AttHeld
<1>9. att_clean' => AttClean'
  BY <1>2, AttStaysClean
<1> QED BY <1>2, <1>3, <1>7, <1>8, <1>9 DEF AttInv

LEMMA AttJudges ==
  ASSUME AttInv, Attested!CheckAttestationsWithImplementation
  PROVE  (Attested!HeldAsJudged /\ Attested!CurrentAsJudged /\ Attested!Covered /\ Attested!RenderedPasses)'
<1>1. /\ att_held # Attested!Nothing /\ AttHeld
      /\ att_result'.pass = (Attested!checkAttestationsInSnapshot(att_held) /\ Attested!Stood(att_held)) /\ att_result'.at = att_held
      /\ att_result'.clean = (att_clean /\ att_held.clean /\ att_held.writes = att_writes)
      /\ att_result'.warns = (Attested!checkAttestationCoverage(att_held) # {} \/ Attested!PlanOnly(att_held) # {})
      /\ att_result'.stood = (att_design = att_held.design /\ att_version = att_held.version /\ att_rows = att_held.rows)
      /\ att_result'.now = IF att_held.root = Attested!None THEN Attested!Nothing ELSE Attested!captured(att_held.root)
  BY DEF Attested!CheckAttestationsWithImplementation, AttInv
<1>2. ASSUME att_result'.pass PROVE Attested!checkAttestationsInSnapshot(att_held) /\ Attested!Stood(att_held)
  BY <1>1, <1>2
<1>3. ASSUME att_result'.pass, NEW x \in Attested!RowsOf(att_held)
      PROVE  Attested!RowHolds(x, att_held) /\ AttGood(x)
  BY <1>1, <1>2, <1>3 DEF Attested!checkAttestationsInSnapshot, AttHeld, Attested!RowsOf
<1>4. Attested!HeldAsJudged'
  <2>1. ASSUME att_result'.pass, NEW x \in Attested!RowsOf(att_held), NEW p \in Attested!subjects(x.claim), att_held.design[p] # 0
        PROVE  p \in DOMAIN x.sawFiles /\ x.sawFiles[p] = att_held.design[p]
    <3>1. Attested!RowHolds(x, att_held) /\ AttGood(x)
      BY <1>3, <2>1
    <3>2. p \in DOMAIN x.covers
      BY <2>1, <3>1 DEF Attested!RowHolds, Attested!checkAttestationSubjects, Attested!attestationRequiredPaths
    <3> QED BY <3>1, <3>2 DEF Attested!RowHolds, Attested!checkAttestationFreshness, AttGood
  <2>2. ASSUME att_result'.pass, att_held.root # Attested!None PROVE att_result'.stood
    <3>1. att_design = att_held.design /\ att_writes = att_held.writes
      BY <1>2, <2>2 DEF Attested!Stood
    <3>2. att_held.rows = att_rows /\ att_held.version = att_version
      BY <1>1, <3>1 DEF AttHeld
    <3> QED BY <1>1, <3>1, <3>2
  <2> QED BY <1>1, <2>1, <2>2 DEF Attested!HeldAsJudged, Attested!Passed, Attested!RowsOf, Attested!Listed
<1>5. Attested!CurrentAsJudged'
  <2> SUFFICES ASSUME att_result'.pass, NEW x \in Attested!RowsOf(att_held), x.kind = "current"
               PROVE  x.sawTree = att_result'.now /\ x.sawRoot = att_held.root
    BY <1>1 DEF Attested!CurrentAsJudged, Attested!Passed, Attested!RowsOf, Attested!Listed
  <2>1. Attested!RowHolds(x, att_held) /\ AttGood(x) /\ Attested!Stood(att_held)
    BY <1>2, <1>3
  <2>2. att_held.version # 1 /\ x.manifest # Attested!Nothing
    BY <2>1 DEF Attested!RowHolds, Attested!parseAttestationRow, Attested!None
  <2>3. att_held.root # Attested!None /\ Attested!compareAttestationManifest(x.manifest, att_held.fresh)
    BY <2>1, <2>2 DEF Attested!RowHolds, Attested!kindOf
  <2>4. x.manifest.hash = att_held.fresh.hash
    BY <2>3 DEF Attested!compareAttestationManifest
  <2>5. att_held.fresh = Attested!captureAttestationSubject(att_held.root)
    BY <2>1, <2>3 DEF Attested!Stood
  <2>6. att_held.fresh.hash = Attested!captured(att_held.root) /\ Attested!captured(att_held.root).root = att_held.root
    BY <2>5 DEF Attested!captureAttestationSubject, Attested!captured
  <2>7. x.manifest.hash = x.sawTree /\ x.sawTree.root = x.sawRoot
    BY <2>1, <2>2 DEF AttGood
  <2> QED BY <1>1, <2>3, <2>4, <2>6, <2>7
<1>6. Attested!Covered'
  <2> SUFFICES ASSUME att_result'.pass, ~att_result'.warns, NEW c \in ReviewClaims, Attested!owed(c, att_held.design)
               PROVE  \E x \in Attested!RowsOf(att_held) : x.claim = c /\ (Attested!attestationClaimKinds(c) = "current" => x.kind = "current")
    BY <1>1 DEF Attested!Covered, Attested!Passed, Attested!RowsOf, Attested!Listed
  <2>1. Attested!checkAttestationCoverage(att_held) = {} /\ Attested!PlanOnly(att_held) = {}
    BY <1>1
  <2>2. PICK x \in Attested!RowsOf(att_held) : x.claim = c
    BY <2>1 DEF Attested!checkAttestationCoverage
  <2>3. ASSUME Attested!attestationClaimKinds(c) = "current" PROVE x.kind = "current"
    <3>1. Attested!RowHolds(x, att_held)
      BY <1>3
    <3>2. Attested!kindOf(x, att_held.version) = "current"
      BY <2>1, <2>2, <2>3 DEF Attested!PlanOnly
    <3> QED BY <2>2, <2>3, <3>1, <3>2 DEF Attested!RowHolds, Attested!kindOf
  <2> QED BY <2>2, <2>3
<1>7. Attested!RenderedPasses'
  <2> SUFFICES ASSUME att_result'.clean, \A x \in Attested!RowsOf(att_held) : x.kind = "current" => att_held.root = x.sawRoot
               PROVE  Attested!checkAttestationsInSnapshot(att_held) /\ Attested!Stood(att_held)
    BY <1>1 DEF Attested!RenderedPasses, Attested!RowsOf, Attested!Listed
  <2>1. att_clean /\ att_held.writes = att_writes
    BY <1>1
  <2>2. /\ att_held.design = att_design /\ att_held.rows = att_rows /\ att_held.version = att_version
        /\ att_held.root # Attested!None => att_held.fresh = Attested!captureAttestationSubject(att_held.root)
    BY <1>1, <2>1 DEF AttHeld
  <2>3. Attested!Stood(att_held)
    BY <2>1, <2>2 DEF Attested!Stood
  <2>4. PICK i \in Attested!Slots : att_version = 2 /\ Attested!Listed(att_rows) = {i} /\ AttRendered(att_rows[i])
    BY <2>1 DEF AttInv, AttClean
  <2>5. Attested!RowsOf(att_held) = {att_rows[i]}
    BY <2>2, <2>4 DEF Attested!RowsOf
  <2> DEFINE x == att_rows[i]
             S == Attested!attestationRequiredPaths(x.claim, att_design)
  <2>6. /\ x.kind \in {"plan", "current", "historical"} /\ Attested!Compatible(x.claim, x.kind)
        /\ x.covers = Attested!Hashed(S) /\ S # {} /\ \A p \in S : att_design[p] # 0
        /\ x.manifest = IF x.kind = "current" THEN Attested!captureAttestationSubject(x.sawRoot) ELSE Attested!Nothing
        /\ x.sawRoot \in Attested!Roots
    BY <2>4 DEF AttRendered
  <2>7. DOMAIN x.covers = S /\ \A p \in S : x.covers[p] = att_design[p]
    BY <2>6 DEF Attested!Hashed
  <2>8. Attested!captureAttestationSubject(x.sawRoot) # Attested!Nothing
    BY AttKinds
  <2>9. Attested!parseAttestationRow(x, 2)
    BY <2>6, <2>7, <2>8 DEF Attested!parseAttestationRow, Attested!None
  <2>10. Attested!checkAttestationFreshness(x, att_design) /\ Attested!checkAttestationSubjects(x, att_design)
    BY <2>6, <2>7 DEF Attested!checkAttestationFreshness, Attested!checkAttestationSubjects
  <2>11. ASSUME x.kind = "current" PROVE att_held.root # Attested!None /\ Attested!compareAttestationManifest(x.manifest, att_held.fresh)
    <3>1. att_held.root = x.sawRoot /\ att_held.root # Attested!None
      BY <2>5, <2>6, <2>11 DEF Attested!Roots, Attested!None
    <3>2. x.manifest = att_held.fresh
      BY <2>2, <2>6, <2>11, <3>1
    <3>3. att_held.fresh.hash = att_held.fresh.entries
      BY <1>1, <3>1 DEF AttHeld
    <3> QED BY <3>1, <3>2, <3>3 DEF Attested!compareAttestationManifest, Attested!attestationDigest
  <2>12. Attested!RowHolds(x, att_held)
    <3> HIDE DEF x
    <3> QED BY <2>2, <2>4, <2>9, <2>10, <2>11 DEF Attested!RowHolds, Attested!kindOf
  <2>13. Attested!Once(att_rows) /\ Attested!Listed(att_rows) # {}
    BY <2>4 DEF Attested!Once
  <2> QED BY <2>2, <2>3, <2>4, <2>5, <2>12, <2>13 DEF Attested!checkAttestationsInSnapshot
<1> QED BY <1>4, <1>5, <1>6, <1>7

LEMMA AttKeeps ==
  ASSUME AttInv, [Attested!Next]_(Attested!vars)
  PROVE  AttInv'
<1>1. CASE Attested!Attest
  BY <1>1, AttAttests
<1>2. CASE Attested!WriteLegacy
  <2>1. PICK c \in ReviewClaims, i \in Attested!Slots :
          /\ Attested!Edit /\ att_clean' = FALSE
          /\ Attested!Put(1, i, Attested!Row(c, Attested!None, Attested!Hashed(Attested!attestationRequiredPaths(c, att_design)), Attested!Nothing, "impl"))
    BY <1>2 DEF Attested!WriteLegacy
  <2> DEFINE x == Attested!Row(c, Attested!None, Attested!Hashed(Attested!attestationRequiredPaths(c, att_design)), Attested!Nothing, "impl")
  <2>2. AttGood(x)
    BY AttNew
  <2>3. Attested!Put(1, i, x)
    BY <2>1
  <2> HIDE DEF x
  <2>4. DOMAIN att_rows' = Attested!Slots /\ att_writes' \in Int /\ att_writes <= att_writes' /\ att_writes' # att_writes /\ \A j \in Attested!Listed(att_rows') : AttGood(att_rows'[j])
    BY <2>2, <2>3, AttPut
  <2> QED BY <2>1, <2>4, AttEdited
<1>3. CASE Attested!Change
  <2>1. Attested!Edit /\ att_clean' = FALSE /\ att_rows' = att_rows /\ att_writes' = att_writes /\ att_version' = att_version
    BY <1>3 DEF Attested!Change, Attested!docs
  <2>2. DOMAIN att_rows' = Attested!Slots /\ att_writes' \in Int /\ att_writes <= att_writes' /\ \A j \in Attested!Listed(att_rows') : AttGood(att_rows'[j])
    BY <2>1 DEF AttInv
  <2> QED BY <2>1, <2>2, AttEdited
<1>4. CASE Attested!Rewrite
  <2>1. Attested!Edit /\ att_clean' = FALSE
    BY <1>4 DEF Attested!Rewrite
  <2>2. CASE att_rows' = att_rows /\ att_writes' = att_writes + 1
    <3>1. DOMAIN att_rows' = Attested!Slots /\ att_writes' \in Int /\ att_writes <= att_writes' /\ att_writes' # att_writes /\ \A j \in Attested!Listed(att_rows') : AttGood(att_rows'[j])
      BY <2>2 DEF AttInv
    <3> QED BY <2>1, <3>1, AttEdited
  <2>3. CASE \E i \in Attested!Listed(att_rows) : \E y \in Attested!Rewritings(att_rows[i]) : Attested!Put(att_version, i, y)
    <3>1. PICK i \in Attested!Listed(att_rows) : \E z \in Attested!Rewritings(att_rows[i]) : Attested!Put(att_version, i, z)
      BY <2>3
    <3>0. PICK y \in Attested!Rewritings(att_rows[i]) : Attested!Put(att_version, i, y)
      BY <3>1
    <3>2. i \in Attested!Slots /\ AttGood(att_rows[i])
      BY <3>1 DEF AttInv, Attested!Listed
    <3>3. AttGood(y)
      BY <3>0, <3>2, AttRewritten
    <3>4. DOMAIN att_rows' = Attested!Slots /\ att_writes' \in Int /\ att_writes <= att_writes' /\ att_writes' # att_writes /\ \A j \in Attested!Listed(att_rows') : AttGood(att_rows'[j])
      BY <3>0, <3>2, <3>3, AttPut
    <3> QED BY <2>1, <3>4, AttEdited
  <2> QED BY <1>4, <2>2, <2>3 DEF Attested!Rewrite, Attested!Write
<1>5. CASE Attested!Capture
  BY <1>5, AttCaptures
<1>6. CASE Attested!CheckAttestationsWithImplementation
  <2>1. att_held' = Attested!Nothing /\ UNCHANGED <<att_design, att_impl, att_version, att_rows, att_writes, att_clean>>
    BY <1>6 DEF Attested!CheckAttestationsWithImplementation, Attested!docs
  <2>2. \A i \in Attested!Listed(att_rows)' : AttGood(att_rows[i])'
    BY <2>1 DEF AttInv, Attested!Listed, AttGood
  <2>3. att_clean' => AttClean'
    BY <2>1, AttStaysClean
  <2> QED BY <1>6, <2>1, <2>2, <2>3, AttJudges DEF AttInv
<1>7. CASE UNCHANGED Attested!vars
  <2>1. UNCHANGED <<att_design, att_impl, att_version, att_rows, att_writes, att_clean, att_held, att_result>>
    BY <1>7 DEF Attested!vars, Attested!docs
  <2>2. \A i \in Attested!Listed(att_rows)' : AttGood(att_rows[i])'
    BY <2>1 DEF AttInv, Attested!Listed, AttGood
  <2>3. att_clean' => AttClean'
    BY <2>1, AttStaysClean
  <2>4. att_held' # Attested!Nothing => AttHeld'
    <3> SUFFICES ASSUME att_held # Attested!Nothing, AttHeld PROVE AttHeld'
      BY <2>1 DEF AttInv
    <3>1. Attested!captureAttestationSubject(att_held.root)' = Attested!captureAttestationSubject(att_held.root)
      BY <2>1 DEF Attested!captureAttestationSubject, Attested!captured
    <3>2. (\A i \in Attested!Listed(att_held.rows) : AttGood(att_held.rows[i]))'
      BY <2>1 DEF AttHeld, Attested!Listed, AttGood
    <3> QED BY <2>1, <3>1, <3>2 DEF AttHeld
  <2> QED BY <2>1, <2>2, <2>3, <2>4, AttResult DEF AttInv
<1> QED BY <1>1, <1>2, <1>3, <1>4, <1>5, <1>6, <1>7 DEF Attested!Next

\* However many edits went before, a machine that the lint accepts runs as its
\* author decided, as far as AcceptedDesignsHold says (internal/lint, LintMachine),
\* and a record of any number of reviews, over any claims, artifacts and files,
\* that Gv-attest accepts is of what the gate captured, and with an implementation
\* of what stood when it ended (internal/gates/attest.go).
THEOREM AcceptedAsJudged == Spec => []AcceptedDesignsHold
<1> DEFINE Inv == (which = "lint" => LintInv) /\ (which = "attest" => AttInv)
<1>1. Init => Inv
  BY LintInit, AttInit DEF Init
<1>2. Inv /\ [Next]_vars => Inv'
  <2> SUFFICES ASSUME Inv, [Next]_vars PROVE Inv'
    OBVIOUS
  <2>1. /\ which' = which
        /\ which = "lint" => [Linted!Next]_(Linted!vars)
        /\ which = "attest" => [Attested!Next]_(Attested!vars)
    <3>1. CASE Next
      BY <3>1 DEF Next, selRest, ratRest, datRest, lintRest, attRest
    <3>2. CASE UNCHANGED vars
      BY <3>2 DEF vars, lint, att, Linted!vars, Linted!design, Linted!running, Attested!vars, Attested!docs
    <3> QED BY <3>1, <3>2
  <2>2. ASSUME which = "lint" PROVE LintInv'
    BY <2>1, <2>2, LintKeeps
  <2>3. ASSUME which = "attest" PROVE AttInv'
    BY <2>1, <2>3, AttKeeps
  <2> QED BY <2>1, <2>2, <2>3
<1>3. ASSUME LintInv
      PROVE  /\ Linted!StaysInGraph /\ Linted!NothingSwallowed /\ Linted!TimersDecided
             /\ Linted!LawKept /\ Linted!Settles /\ Linted!FailsClosed
  <2>1. Linted!StaysInGraph
    BY <1>3 DEF LintInv, LintRuns, Linted!StaysInGraph
  <2>2. Linted!Settles
    <3>1. Cardinality(LintBehind(lint_at)) \in Nat /\ Cardinality(LintBehind(lint_at)) <= 6
      BY LintFew
    <3>2. lint_spins \in Nat /\ (lint_loose \/ lint_spins <= 6)
      BY <1>3, <3>1 DEF LintInv, LintRuns
    <3>3. Linted!Cardinality(Linted!States) = Cardinality(Linted!States)
      BY DEF Linted!Cardinality, Cardinality
    <3>4. Linted!Settles = (lint_spins > Linted!Cardinality(Linted!States) => lint_loose)
      BY DEF Linted!Settles
    <3>5. CASE lint_loose
      BY <3>4, <3>5
    <3>6. CASE lint_spins <= 6
      <4>1. ~(lint_spins > Linted!Cardinality(Linted!States))
        BY <3>2, <3>3, <3>6, LintSix
      <4> QED BY <3>4, <4>1
    <3> QED BY <3>2, <3>5, <3>6
  <2> QED BY <1>3, <2>1, <2>2 DEF LintInv
<1>4. Inv => AcceptedDesignsHold
  BY <1>3 DEF AcceptedDesignsHold, AttInv
<1> QED BY <1>1, <1>2, <1>4, PTL DEF Spec

\* What the rule engine computes is the perfect model of its program, for every
\* set of rules, declarations and facts (internal/datalog).
THEOREM RulesComputePerfectModel == Spec => []PerfectModel
<1> DEFINE Inv == which = "datalog" => Rules!Inv
<1>1. Init => Inv
  BY RulesInit DEF Init
<1>2. Inv /\ [Next]_vars => Inv'
  <2> SUFFICES ASSUME Inv, [Next]_vars PROVE Inv'
    OBVIOUS
  <2>1. which' = which /\ (which = "datalog" => [Rules!Next]_(Rules!vars))
    <3>1. CASE Next
      BY <3>1 DEF Next, selRest, ratRest, datRest, lintRest, attRest
    <3>2. CASE UNCHANGED vars
      BY <3>2 DEF vars, dat, Rules!vars
    <3> QED BY <3>1, <3>2
  <2>2. ASSUME which = "datalog" PROVE Rules!Inv'
    BY <2>1, <2>2, RulesStep
  <2> QED BY <2>1, <2>2
<1>3. Inv => PerfectModel
  BY RulesHold DEF PerfectModel
<1> QED BY <1>1, <1>2, <1>3, PTL DEF Spec
=============================================================================
