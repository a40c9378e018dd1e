------------------------------- MODULE Datalog -------------------------------
(* The in-process Datalog evaluator (internal/datalog): a program is        *)
(* checked and stratified, its facts are loaded, and each stratum is run to *)
(* its fixed point semi-naively, recording the first derivation of every    *)
(* tuple.  Programs are subsets of a pool of rules, in source order;        *)
(* relations are sets, and a span of a relation's tuples is a set of them.  *)
EXTENDS Integers, Sequences, FiniteSets, TLC, FiniteSetsExt

CONSTANTS Symbols,        \* the symbols facts are made of (strings)
          MaxNumber,      \* the largest count that occurs
          Decls,          \* [relation name -> sequence of attribute types]
          Inputs,         \* the .input relations
          Pool,           \* a sequence of rules
          FactSets,       \* the inputs: [Inputs -> sets of tuples]
          MaxRules, MaxTuples, MaxIterations

Numbers == {ToString(n) : n \in 0..MaxNumber}
Domain == Symbols \cup Numbers
Rels == DOMAIN Decls


VARIABLES chosen, facts, \* the program and its inputs
          pc,            \* "write", "load", "round", "fire", "done", "rejected" or "limit"
          rels,          \* [relation -> set of tuples]
          strata, si,    \* the strata, and how many are done
          prev, cur,     \* relations before the previous round and before this one
          fires,         \* the firings left in this round: [rule, delta], delta = 0 in a first round
          total, iters,
          prov           \* [<<relation, tuple>> -> [rule, kids, at]]: its first derivation, and the firing it came from
vars == <<chosen, facts, pc, rels, strata, si, prev, cur, fires, total, iters, prov>>

----------------------------------------------------------------------------
(* Rules.  A body keeps its positive atoms in source order, and then, as    *)
(* the compiler does, its aggregates and its filters (negated atoms and     *)
(* comparisons); an aggregate has a body of atoms and filters of its own.   *)
(* A term is a variable, a constant or the wildcard.                        *)

Program == {Pool[i] : i \in chosen}
termVars(args) == {args[j].text : j \in {i \in DOMAIN args : args[i].kind = "var"}}
AtomVars(body) == UNION {termVars(body.atoms[i].args) : i \in DOMAIN body.atoms}
FilterVars(body) == UNION {termVars(l.args) : l \in body.filters}
Inside(l) == AtomVars(l) \cup FilterVars(l)
litVars(l) == {l.result} \cup (IF l.agg = "min" THEN {l.target} ELSE {}) \cup Inside(l)
Outside(r, l) == termVars(r.args) \cup AtomVars(r) \cup FilterVars(r) \cup UNION {litVars(o) : o \in r.aggs \ {l}}
Group(r, l) == Inside(l) \cap Outside(r, l)

----------------------------------------------------------------------------
(* Checks of the compiler.                                                  *)

decl(rel, args) == rel \in Rels /\ Len(args) = Len(Decls[rel])

\* The types a variable gets from the atoms of a body and, outside, from the
\* aggregates that bind it.
TypesIn(body, v) ==
    UNION {{Decls[l.rel][j] : j \in {i \in DOMAIN l.args : l.args[i].kind = "var" /\ l.args[i].text = v}} :
           l \in {body.atoms[i] : i \in DOMAIN body.atoms}}
TypesOf(body, v) == TypesIn(body, v) \cup (IF \E l \in body.aggs : l.result = v THEN {"number"} ELSE {})

positiveAtom(l) == /\ decl(l.rel, l.args)
                   /\ \A j \in DOMAIN l.args : l.args[j].kind = "const" => Decls[l.rel][j] = "symbol"

\* The variables a filter reads are bound, and the types agree.
filterLit(l, bound, T) ==
    /\ termVars(l.args) \subseteq bound
    /\ \/ /\ l.kind = "neg" /\ decl(l.rel, l.args)
          /\ \A j \in DOMAIN l.args :
                LET t == l.args[j] col == Decls[l.rel][j]
                IN t.kind = "wild" \/ (t.kind = "const" /\ col = "symbol") \/ (t.kind = "var" /\ T[t.text] = {col})
       \/ /\ l.kind = "cmp"
          /\ LET ty(t) == IF t.kind = "var" THEN T[t.text] ELSE {"symbol"}
             IN \A j \in 1..2 : l.args[j].kind # "wild" /\ ty(l.args[j]) = ty(l.args[1])

aggregate(r, l) ==
    LET InT == [v \in Inside(l) \cup {l.target} |-> TypesIn(l, v) \cup (IF v \in Group(r, l) THEN TypesIn(r, v) ELSE {})]
    IN /\ l.result \notin Inside(l)
       /\ Group(r, l) \subseteq AtomVars(r)
       /\ (l.agg = "min" => l.target \notin Outside(r, l) /\ l.target \in AtomVars(l) /\ InT[l.target] = {"number"})
       /\ l.atoms # <<>> /\ \A i \in DOMAIN l.atoms : positiveAtom(l.atoms[i])
       /\ \A v \in Inside(l) : Cardinality(InT[v]) <= 1
       /\ \A f \in l.filters : filterLit(f, AtomVars(l) \cup Group(r, l), InT)
       /\ TypesOf(r, l.result) = {"number"}

Bound(r) == AtomVars(r) \cup {l.result : l \in r.aggs}

\* Mutant of ruleHead: a variable of the head needs no atom that binds it.
ruleHeadFree(r) == decl(r.rel, r.args) /\ \A j \in DOMAIN r.args : r.args[j].kind # "wild"

\* Mutant of ruleHead: the type of a head variable is not compared with the attribute's.
ruleHeadUntyped(r) == decl(r.rel, r.args) /\ termVars(r.args) \subseteq Bound(r)

ruleHead(r) == /\ decl(r.rel, r.args) /\ termVars(r.args) \subseteq Bound(r)
               /\ \A j \in DOMAIN r.args :
                    LET t == r.args[j] col == Decls[r.rel][j]
                    IN (t.kind = "const" /\ col = "symbol") \/ (t.kind = "var" /\ TypesOf(r, t.text) = {col})
rule(r) == LET T == [v \in Bound(r) |-> TypesOf(r, v)]
           IN /\ \A i \in DOMAIN r.atoms : positiveAtom(r.atoms[i])
              /\ \A v \in Bound(r) : Cardinality(T[v]) = 1
              /\ \A l \in r.aggs : aggregate(r, l)
              /\ \A l \in r.filters : filterLit(l, Bound(r), T)
              /\ ruleHead(r)
Checked == [i \in DOMAIN Pool |-> rule(Pool[i])]

----------------------------------------------------------------------------
(* Stratification: what Tarjan's algorithm computes, as the components of    *)
(* the reachability relation.                                                *)

ReadsPos(r) == {r.atoms[i].rel : i \in DOMAIN r.atoms}
ReadsNeg(r) == {l.rel : l \in {f \in r.filters : f.kind = "neg"}}
ReadsAgg(r) == UNION {ReadsPos(l) \cup ReadsNeg(l) : l \in r.aggs}
Strict == [i \in DOMAIN Pool |-> ReadsNeg(Pool[i]) \cup ReadsAgg(Pool[i])]
Reads == [i \in DOMAIN Pool |-> ReadsPos(Pool[i]) \cup Strict[i]]
Edges == UNION {{<<a, Pool[i].rel>> : a \in Reads[i]} : i \in chosen}
Reaches == LET ahead == {C \in SUBSET Rels : \A e \in Edges : e[1] \in C => e[2] \in C}
           IN {p \in Rels \X Rels : \A C \in ahead : p[1] \in C => p[2] \in C}
Component(R, a) == {b \in Rels : <<a, b>> \in R /\ <<b, a>> \in R}

\* Mutant of stratified: a negated atom may close a cycle.
stratifiedAggregates(R) == \A i \in chosen : \A a \in ReadsAgg(Pool[i]) : a \notin Component(R, Pool[i].rel)

stratified(R) == \A i \in chosen : \A a \in Strict[i] : a \notin Component(R, Pool[i].rel)

\* Mutant of Orders: strata run in any order.
OrdersAny(R) == LET S == {Component(R, Pool[i].rel) : i \in chosen}
                IN {o \in [1..Cardinality(S) -> S] : \A i, j \in DOMAIN o : i # j => o[i] # o[j]}

\* The components that have rules, each after the ones it reads.
Orders(R) == LET S == {Component(R, Pool[i].rel) : i \in chosen}
                 before(A, B) == \E a \in A, b \in B : <<a, b>> \in R
             IN {o \in [1..Cardinality(S) -> S] : \A i, j \in DOMAIN o : i < j => o[i] # o[j] /\ ~before(o[j], o[i])}
RulesOf(S) == {i \in chosen : Pool[i].rel \in S}
recursive(S) == \E i \in RulesOf(S) : ReadsPos(Pool[i]) \cap S # {}

----------------------------------------------------------------------------
(* Evaluation of a rule body.                                               *)

value(t, b) == IF t.kind = "const" THEN t.text ELSE b[t.text]
Matches(args, b, t) == \A j \in DOMAIN args : args[j].kind = "wild" \/ value(args[j], b) = t[j]
filtersPass(fs, b, R) == \A l \in fs :
    IF l.kind = "neg" THEN ~\E t \in R[l.rel] : Matches(l.args, b, t)
    ELSE (value(l.args[1], b) = value(l.args[2], b)) = ~l.neq

\* One tuple for every atom, from that atom's range.
Picks(atoms, ranges) == {m \in [DOMAIN atoms -> UNION {ranges[k] : k \in DOMAIN atoms}] : \A k \in DOMAIN atoms : m[k] \in ranges[k]}
ValuesOf(atoms, m, v) == UNION {{m[k][j] : j \in {i \in DOMAIN atoms[k].args : atoms[k].args[i].kind = "var" /\ atoms[k].args[i].text = v}} : k \in DOMAIN atoms}

\* The bindings of the variables vs that extend b and agree with the tuples m.
Bindings(atoms, m, vs, b) ==
    LET free == {v \in vs : v \notin DOMAIN b /\ ValuesOf(atoms, m, v) = {}}
        full(f) == [v \in vs |-> IF v \in DOMAIN b THEN b[v] ELSE IF v \in free THEN f[v]
                                 ELSE CHOOSE x \in ValuesOf(atoms, m, v) : TRUE]
    IN {c \in {full(f) : f \in [free -> Domain]} : \A k \in DOMAIN atoms : Matches(atoms[k].args, c, m[k])}

\* All the tuples that each atom of a body can read.
Whole(body, R) == [k \in DOMAIN body.atoms |-> R[body.atoms[k].rel]]

\* An aggregate counts the matches of its body: one per way to pick the tuples.
MatchesOf(r, l, b, R) ==
    LET group == [v \in Group(r, l) |-> b[v]]
    IN {c \in UNION {{<<m, c>> : c \in Bindings(l.atoms, m, Inside(l), group)} : m \in Picks(l.atoms, Whole(l, R))} :
          filtersPass(l.filters, c[2], R)}
Aggregate(r, l, b, R) ==
    LET J == MatchesOf(r, l, b, R)
        num(s) == CHOOSE n \in 0..MaxNumber : ToString(n) = s
    IN IF l.agg = "count" THEN {ToString(Cardinality(J))}
       ELSE IF J = {} THEN {} ELSE {ToString(Min({num(c[2][l.target]) : c \in J}))}

\* The ways a rule fires on one pick, and on all when its k-th atom reads ranges[k].
Firing(r, m, R) ==
    {[bind |-> b, kids |-> {<<r.atoms[k].rel, m[k]>> : k \in DOMAIN r.atoms}] :
       b \in {c \in Bindings(r.atoms, m, Bound(r) \cup termVars(r.args), <<>>) :
                /\ filtersPass(r.filters, c, R)
                /\ \A l \in r.aggs : c[l.result] \in Aggregate(r, l, c, R)}}
join(r, ranges, R) == UNION {Firing(r, m, R) : m \in Picks(r.atoms, ranges)}
headOf(r, b) == [j \in DOMAIN r.args |-> value(r.args[j], b)]

\* Mutant of Ranges: later recursive atoms read older tuples too.
RangesOld(r, k, S) == [j \in DOMAIN r.atoms |->
    LET x == r.atoms[j].rel
    IN IF j = k THEN cur[x] \ prev[x] ELSE IF k # 0 /\ x \in S THEN prev[x] ELSE cur[x]]

Ranges(r, k, S) == [j \in DOMAIN r.atoms |->
    LET x == r.atoms[j].rel
    IN IF k = 0 \/ x \notin S \/ j > k THEN cur[x] ELSE IF j = k THEN cur[x] \ prev[x] ELSE prev[x]]

----------------------------------------------------------------------------
(* Writing and compiling.                                                   *)

Fixed == UNCHANGED <<chosen, facts, strata>>
Current == strata[si + 1]
Write(i) == /\ pc = "write" /\ Cardinality(chosen) < MaxRules /\ (\A j \in chosen : j < i) /\ chosen' = chosen \cup {i}
            /\ UNCHANGED <<facts, pc, rels, strata, si, prev, cur, fires, total, iters, prov>>
compile == /\ pc = "write" /\ chosen # {}
           /\ LET R == Reaches ok == (\A i \in chosen : Checked[i]) /\ stratified(R)
              IN \/ ~ok /\ pc' = "rejected" /\ UNCHANGED <<strata, facts>>
                 \/ ok /\ pc' = "load" /\ strata' \in Orders(R) /\ facts' \in FactSets
           /\ UNCHANGED <<chosen, rels, si, prev, cur, fires, total, iters, prov>>

load == /\ pc = "load"
        /\ rels' = [r \in Rels |-> IF r \in Inputs THEN facts[r] ELSE {}]
        /\ total' = MapThenSumSet(LAMBDA r : Cardinality(facts[r]), Inputs)
        /\ pc' = (IF total' > MaxTuples THEN "limit" ELSE "round")
        /\ Fixed /\ UNCHANGED <<si, prev, cur, fires, iters, prov>>

----------------------------------------------------------------------------
(* Running.                                                                 *)

FirstFires(S) == {[rule |-> i, delta |-> 0] : i \in RulesOf(S)}
DeltaFires(S, old, now) ==
    UNION {{[rule |-> i, delta |-> k] :
              k \in {j \in DOMAIN Pool[i].atoms : Pool[i].atoms[j].rel \in S /\ old[Pool[i].atoms[j].rel] # now[Pool[i].atoms[j].rel]}} :
           i \in RulesOf(S)}

\* A round begins: the first of a stratum, or one over the tuples the last one added.
round == /\ iters' = iters + 1
         /\ pc' = IF iters' > MaxIterations THEN "limit" ELSE "fire"
FirstRound == /\ pc = "round" /\ si < Len(strata) /\ round
              /\ prev' = rels /\ cur' = rels /\ fires' = FirstFires(Current)
              /\ Fixed /\ UNCHANGED <<rels, si, total, prov>>

\* Mutant of NextRound: the last round's relations are not remembered.
NextRoundStale == /\ pc = "fire" /\ fires = {} /\ recursive(Current)
                  /\ (\E x \in Current : rels[x] # prev[x]) /\ round
                  /\ prev' = prev /\ cur' = rels /\ fires' = DeltaFires(Current, prev, rels)
                  /\ Fixed /\ UNCHANGED <<rels, si, total, prov>>

NextRound == /\ pc = "fire" /\ fires = {} /\ recursive(Current)
             /\ (\E x \in Current : rels[x] # cur[x]) /\ round
             /\ prev' = cur /\ cur' = rels /\ fires' = DeltaFires(Current, cur, rels)
             /\ Fixed /\ UNCHANGED <<rels, si, total, prov>>
StratumDone == /\ pc = "fire" /\ fires = {}
               /\ ~recursive(Current) \/ (\A x \in Current : rels[x] = cur[x])
               /\ si' = si + 1 /\ pc' = "round"
               /\ Fixed /\ UNCHANGED <<rels, prev, cur, fires, total, iters, prov>>
Finish == /\ pc = "round" /\ si = Len(strata) /\ pc' = "done"
          /\ Fixed /\ UNCHANGED <<rels, si, prev, cur, fires, total, iters, prov>>

\* Mutant of Kept: a tuple that is derived again is explained anew.
KeptLast(x, t) == FALSE

\* A tuple already there keeps its derivation.
Kept(x, t) == t \in rels[x]
\* Rules fire in source order, a rule by its atoms.
Before(f, g) == f.rule < g.rule \/ (f.rule = g.rule /\ f.delta < g.delta)
\* One firing of one rule; the limit stops it at the tuple that exceeds it.
Fires(f) ==
    LET r == Pool[f.rule]
        J == join(r, Ranges(r, f.delta, Current), rels)
        derived == {headOf(r, q.bind) : q \in J}
        told == {<<r.rel, t>> : t \in {d \in derived : ~Kept(r.rel, d)}}
        first(t) == CHOOSE q \in J : headOf(r, q.bind) = t
    IN /\ total' = total + Cardinality(derived \ rels[r.rel])
       /\ rels' = [rels EXCEPT ![r.rel] = @ \cup derived]
       /\ prov' = [p \in told \cup DOMAIN prov |->
                     IF p \in told THEN [rule |-> f.rule, at |-> Cardinality(DOMAIN prov), kids |-> first(p[2]).kids] ELSE prov[p]]
       /\ pc' = IF total' > MaxTuples THEN "limit" ELSE "fire"
fire == /\ pc = "fire"
        /\ \E f \in fires : (\A g \in fires : f = g \/ Before(f, g)) /\ fires' = fires \ {f} /\ Fires(f)
        /\ Fixed /\ UNCHANGED <<si, prev, cur, iters>>

Init == /\ chosen = {} /\ facts \in {CHOOSE f \in FactSets : TRUE} /\ pc = "write"
        /\ rels = [r \in Rels |-> {}] /\ strata = <<>> /\ si = 0 /\ prev = rels /\ cur = rels /\ fires = {}
        /\ total = 0 /\ iters = 0 /\ prov = <<>>
Next == (\E i \in DOMAIN Pool : Write(i)) \/ compile \/ load \/ FirstRound \/ NextRound \/ StratumDone \/ Finish \/ fire
Spec == Init /\ [][Next]_vars

----------------------------------------------------------------------------
(* Properties.                                                              *)

TypeOK == /\ \A r \in Rels : \A t \in rels[r] : \A j \in DOMAIN Decls[r] :
               t[j] \in (IF Decls[r][j] = "number" THEN Numbers ELSE Domain \ Numbers)
          /\ pc \in {"write", "load", "round", "fire", "done", "rejected", "limit"}

\* The result is a model: no rule derives a tuple that semi-naive evaluation
\* missed, whichever rules are recursive through how many of their atoms.
Closed == pc = "done" => \A i \in chosen : \A q \in join(Pool[i], Whole(Pool[i], rels), rels) :
                            headOf(Pool[i], q.bind) \in rels[Pool[i].rel]

\* The result is no larger than it must be: the recorded derivation of every
\* derived tuple holds in the final relations, negations and aggregates
\* included, and so still holds once later strata have run.
Supported == pc = "done" => \A p \in DOMAIN prov :
    LET r == Pool[prov[p].rule]
    IN r.rel = p[1] /\ \E q \in join(r, Whole(r, rels), rels) : q.kids = prov[p].kids /\ headOf(r, q.bind) = p[2]

\* Explain ends: a derivation uses only tuples that were there before the
\* firing that recorded it, and every tuple is a fact or has a derivation.
ExplainEnds == /\ \A p \in DOMAIN prov : \A k \in prov[p].kids :
                    IF k \in DOMAIN prov THEN prov[k].at < prov[p].at ELSE k[2] \in facts[k[1]]
               /\ pc = "done" => \A x \in Rels : \A t \in rels[x] : <<x, t>> \in DOMAIN prov \/ (x \in Inputs /\ t \in facts[x])

\* Every symbol in the result is one of a fact or of a rule: none is made up, and
\* no number ends up in the column of a symbol.
SymbolsOf(args) == {args[j].text : j \in {i \in DOMAIN args : args[i].kind = "const"}}
Used == (UNION {UNION {{t[j] : j \in DOMAIN t} : t \in facts[x]} : x \in Inputs})
        \cup (UNION {SymbolsOf(r.args) : r \in Program})
ActiveDomain == pc = "done" => \A x \in Rels : \A t \in rels[x] : \A j \in DOMAIN Decls[x] :
                                 Decls[x][j] = "symbol" => t[j] \in Used

\* Evaluation does no idle round: beyond the first round of a stratum there are
\* no more rounds than tuples derived, so the iteration limit is never reached
\* by a program that has stopped deriving.
RoundsBounded == pc \in {"done", "limit"} => iters <= Len(strata) + Cardinality(DOMAIN prov) + (IF pc = "limit" THEN 1 ELSE 0)

----------------------------------------------------------------------------
(* The constants that the proofs are about, and the invariant they rest on.  *)

\* Rules and facts are finite, and a fact has a value for every attribute.
Listed(s) == s \in Seq({s[j] : j \in DOMAIN s})
WellFormed ==
    /\ IsFiniteSet(Symbols) /\ MaxNumber \in Nat /\ Inputs \subseteq Rels
    /\ Listed(Pool) /\ \A x \in Rels : Listed(Decls[x])
    /\ \A i \in DOMAIN Pool : /\ Listed(Pool[i].args) /\ Listed(Pool[i].atoms)
                              /\ \A k \in DOMAIN Pool[i].atoms : Listed(Pool[i].atoms[k].args)
                              /\ IsFiniteSet(Bound(Pool[i]) \cup termVars(Pool[i].args))
    /\ FactSets # {}
    /\ \A F \in FactSets : \A x \in Inputs : IsFiniteSet(F[x]) /\ \A t \in F[x] : DOMAIN t = DOMAIN Decls[x]

Accepted == (\A i \in chosen : rule(Pool[i])) /\ stratified(Reaches) /\ strata \in Orders(Reaches)

Heads(r, m, R) == {headOf(r, q.bind) : q \in Firing(r, m, R)}
Derives(r, m, p) == \E q \in Firing(r, m, rels) : q.kids = prov[p].kids /\ headOf(r, q.bind) = p[2]

Shape ==
    /\ chosen \subseteq DOMAIN Pool /\ facts \in FactSets
    /\ pc \in {"write", "load", "round", "fire", "done", "rejected", "limit"}
    /\ rels = [x \in Rels |-> rels[x]] /\ iters \in Nat /\ si \in Nat
    /\ pc \in {"write", "rejected", "load"} => DOMAIN prov = {} /\ si = 0 /\ iters = 0 /\ \A x \in Rels : rels[x] = {}
    /\ pc \notin {"write", "rejected"} => Accepted
    /\ pc \in {"round", "fire", "done", "limit"} => si <= Len(strata)
    /\ pc = "fire" => si < Len(strata)
    /\ pc = "done" => si = Len(strata)
    /\ pc \in {"round", "fire"} => \A x \in Inputs : facts[x] \subseteq rels[x]

\* A round reads what was there when it began; only the current stratum grows.
Reading ==
    pc = "fire" => /\ cur = [x \in Rels |-> cur[x]] /\ prev = [x \in Rels |-> prev[x]]
                   /\ \A x \in Rels : prev[x] \subseteq cur[x] /\ cur[x] \subseteq rels[x]
                   /\ \A x \in Rels \ Current : cur[x] = rels[x]
                   /\ \A x \in Inputs : facts[x] \subseteq cur[x]
                   /\ \A f \in fires : f.rule \in RulesOf(Current)

\* A stratum that is done derives nothing more.
Settled ==
    pc \in {"round", "fire", "done"} =>
        \A s \in 1 .. si : \A i \in RulesOf(strata[s]) : \A m \in Picks(Pool[i].atoms, Whole(Pool[i], rels)) :
            Heads(Pool[i], m, rels) \subseteq rels[Pool[i].rel]

\* What can be derived from the tuples this round began with is there, or a
\* firing that is left will derive it.
Owed ==
    pc = "fire" =>
        \A i \in RulesOf(Current) : \A m \in Picks(Pool[i].atoms, Whole(Pool[i], cur)) :
            \/ Heads(Pool[i], m, rels) \subseteq rels[Pool[i].rel]
            \/ \E f \in fires : f.rule = i /\ m \in Picks(Pool[i].atoms, Ranges(Pool[i], f.delta, Current))

\* A recorded derivation is one of a rule whose stratum has begun.
Proved ==
    pc \in {"round", "fire", "done"} =>
        \A p \in DOMAIN prov :
            LET i == prov[p].rule
            IN /\ i \in chosen /\ Pool[i].rel = p[1]
               /\ \E s \in DOMAIN strata : /\ Pool[i].rel \in strata[s]
                                          /\ s <= (IF pc = "fire" THEN si + 1 ELSE si)
               /\ \E m \in Picks(Pool[i].atoms, Whole(Pool[i], rels)) : Derives(Pool[i], m, p)

\* Every tuple is a fact or has a derivation, from tuples derived before it.
Explained ==
    /\ IsFiniteSet(DOMAIN prov)
    /\ \A p \in DOMAIN prov : /\ p = <<p[1], p[2]>> /\ p[1] \in Rels /\ p[2] \in rels[p[1]]
                              /\ prov[p].at \in Nat /\ prov[p].at < Cardinality(DOMAIN prov)
                              /\ \A k \in prov[p].kids : /\ k = <<k[1], k[2]>> /\ k[1] \in Rels /\ k[2] \in rels[k[1]]
                                                        /\ IF k \in DOMAIN prov THEN prov[k].at < prov[p].at ELSE k[2] \in facts[k[1]]
    /\ \A x \in Rels : /\ IsFiniteSet(rels[x])
                        /\ \A t \in rels[x] : <<x, t>> \in DOMAIN prov \/ (x \in Inputs /\ t \in facts[x])

Typed ==
    \A x \in Rels : \A t \in rels[x] : /\ DOMAIN t = DOMAIN Decls[x]
                                       /\ \A j \in DOMAIN Decls[x] : Decls[x][j] = "symbol" => t[j] \in Used

\* The tuples derived before this round pay for the rounds so far.
Counted ==
    /\ pc = "round" => iters <= si + Cardinality(DOMAIN prov)
    /\ pc = "fire" => iters <= si + 1 + Cardinality({p \in DOMAIN prov : p[2] \in cur[p[1]]})
    /\ pc = "done" => iters <= Len(strata) + Cardinality(DOMAIN prov)
    /\ pc = "limit" => iters <= Len(strata) + Cardinality(DOMAIN prov) + 1

Inv == Shape /\ Reading /\ Settled /\ Owed /\ Proved /\ Explained /\ Typed /\ Counted
=============================================================================
