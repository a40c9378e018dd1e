---------------------------- MODULE MachineLint ----------------------------
(* machinery lint (internal/lint, internal/ir): an author edits a machine    *)
(* and its transition matrix, the lint accepts them or not, and an accepted  *)
(* machine runs as XState runs it.  The state tree is fixed: A, the compound *)
(* C with D (its initial state) and the final F, the invoking state b, and   *)
(* the final Z; the root is the machine "m" and starts in A.                 *)
EXTENDS Integers, Sequences, FiniteSets, FiniteSetsExt, SequencesExt

CONSTANTS MaxEdits,
          Editing      \* what authors edit: "routes" or "matrix"

States == {"A", "C", "C.D", "C.F", "b", "Z"}
Name == [p \in States |-> CASE p = "C.D" -> "D" [] p = "C.F" -> "F" [] OTHER -> p]
Parent == [p \in States |-> IF p \in {"C.D", "C.F"} THEN "C" ELSE "m"]
Initial == [p \in {"m", "C"} |-> IF p = "m" THEN "A" ELSE "C.D"]
Finals == {"C.F", "Z"}
Compound == {"C"}
Leaves == States \ Compound
UpperFirst == States \ {"b"}
Events == {"e", "g"}
Keys == Events \cup {"after", "always", "stateDone", "onDone", "onError"}
None == "none"

\* A target is internal, a sibling's name, or a path under "#m".
Internal == <<"internal">>
Sib(n) == <<"sibling", n>>
Id(p) == <<"id", p>>
Branch(g, t) == [guard |-> g, to |-> t]
Unguarded == "-"

VARIABLES hand,        \* [States -> [Keys -> Seq(Branch)]]
          invokes,     \* states with an invoke
          ignores,     \* <<state, event>>: _ignores
          refusal,     \* <<state, handler>>: _refusal
          exhaustive,  \* states with an _exhaustive note
          tags,        \* <<state, tag>>
          delay,       \* the delay is declared in _delays
          law,         \* an invariant requires event "g" to change context everywhere
          matrix,      \* rows of the matrix file; None when there is none
          edits, pc,   \* "edit", then "run"
          at,          \* the leaf the running machine is in
          idle,        \* no eventless transition is pending
          spins, loose, \* unguarded eventless steps in a row; one of them left or entered a compound
          last         \* what the last step did
design == <<hand, invokes, ignores, refusal, exhaustive, tags, delay, law>>
running == <<at, idle, spins, loose, last>>
vars == <<design, matrix, edits, pc, running>>

----------------------------------------------------------------------------
(* Reading a machine.                                                       *)

\* The ancestors of a state, itself included.
ancestorChain(p) == {p} \cup (IF Parent[p] = "m" THEN {} ELSE {Parent[p]})

resolve(tgt, src) ==
    CASE tgt = Internal -> src
      [] tgt[1] = "sibling" ->
            LET S == {p \in States : Parent[p] = Parent[src] /\ Name[p] = tgt[2]}
            IN IF S = {} THEN None ELSE CHOOSE p \in S : TRUE
      [] OTHER -> IF tgt[2] = "m" THEN Initial["m"] ELSE IF tgt[2] \in States THEN tgt[2] ELSE None

normBranches(s, k) == hand[s][k]
TransitionsOf(s) == UNION {{[key |-> k, guard |-> hand[s][k][i].guard, to |-> hand[s][k][i].to] :
                             i \in DOMAIN hand[s][k]} : k \in Keys}
Has(s, k) == hand[s][k] # <<>>
FullyGuarded(s, k) == Has(s, k) /\ \A i \in DOMAIN hand[s][k] : hand[s][k][i].guard # Unguarded
initialChain(p) == {p} \cup (IF p \in Compound THEN {Initial[p]} ELSE {})
Entry(p) == IF p \in Compound THEN Initial[p] ELSE p

----------------------------------------------------------------------------
(* The rules of LintMachine.                                                *)

FinalSilent == \A s \in Finals : s \notin invokes /\ \A k \in Keys : ~Has(s, k)
hasFinalDescendant(s) == \E f \in Finals : s \in ancestorChain(f) \ {f}
OnDoneFires == \A s \in States : Has(s, "stateDone") => s \in Compound /\ hasFinalDescendant(s)

Exits(p) == \E q \in ancestorChain(p) : \E tr \in TransitionsOf(q) :
               tr.to # Internal /\ resolve(tr.to, q) # p
NoDeadEnd == \A p \in Leaves \ Finals : Exits(p)

InvokesHandled == \A s \in invokes : Has(s, "onError") /\ Has(s, "after")
DelaysDeclared == delay <=> \E s \in States : Has(s, "after")

\* Mutant of checkGuardFalse: only events are held.
checkGuardFalseEvents(s) == \A k \in Events : FullyGuarded(s, k) <=> <<s, k>> \in refusal

checkGuardFalse(s) == \A k \in Keys \ {"always"} : FullyGuarded(s, k) <=> <<s, k>> \in refusal
checkShadow(s) == \A k \in Keys :
    /\ \A i \in DOMAIN hand[s][k] : i < Len(hand[s][k]) => hand[s][k][i].guard # Unguarded
    /\ \A i, j \in DOMAIN hand[s][k] : i # j /\ hand[s][k][i].guard # Unguarded => hand[s][k][i].guard # hand[s][k][j].guard
AlwaysEscapes(s) == FullyGuarded(s, "always") /\ s \notin invokes /\ (\A k \in Events \cup {"after"} : ~Has(s, k)) => s \in exhaustive
NoDangling == \A s \in States : \A tr \in TransitionsOf(s) : resolve(tr.to, s) # None

\* Unguarded eventless transitions form no cycle among their own sources.
alwaysNext == UNION {{<<s, resolve(tr.to, s)>> : tr \in {t \in TransitionsOf(s) : t.key = "always" /\ t.guard = Unguarded}} : s \in States}
Step(R, S) == S \cup {e[2] : e \in {x \in R : x[1] \in S}}
\* There are six states: what six steps do not reach is not reached.
Closure(R, S) == Step(R, Step(R, Step(R, Step(R, Step(R, Step(R, S))))))
NoAlwaysCycle == LET R == alwaysNext
                 IN \A e \in R : e[1] \notin Closure(R, {e[2]})

\* Every leaf that waits for events handles or ignores each of them.
allEvents == {k \in Events : \E s \in States : Has(s, k)}
handled(p, k) == \E q \in ancestorChain(p) : Has(q, k)
ignored(p, k) == \E q \in ancestorChain(p) : <<q, k>> \in ignores
RestingLeaf(p) == /\ p \in UpperFirst \cap Leaves /\ p \notin Finals
                  /\ \A q \in ancestorChain(p) : q \notin invokes /\ ~Has(q, "always")
IgnoresConsistent == /\ \A i \in ignores : ~Has(i[1], i[2])
                     /\ \A p \in States : RestingLeaf(p) => \A k \in Events : <<p, k>> \in ignores => ~handled(p, k)

\* Mutant of EventsComplete: only top-level states are looked at.
EventsCompleteTop == \A p \in States : RestingLeaf(p) /\ Parent[p] = "m" => \A k \in allEvents : handled(p, k) \/ ignored(p, k)

EventsComplete == \A p \in States : RestingLeaf(p) => \A k \in allEvents : handled(p, k) \/ ignored(p, k)

lintInvariants == law => /\ "g" \in allEvents \cup {i[2] : i \in ignores}
                         /\ \A p \in States : ignored(p, "g") => handled(p, "g")

\* Mutant of enters: the states entered with a compound state are left out.
entersNothing(p) == {p}

enters(p) == {p, Entry(p)}
Reached == LET dests == [a \in States |-> {resolve(tr.to, a) : tr \in TransitionsOf(a)} \ {None}]
               R == UNION {UNION {{p} \X UNION {enters(d) : d \in dests[a]} : a \in ancestorChain(p)} : p \in States}
           IN Closure(R, enters(Initial["m"]))
AllReachable == \A p \in States \ Reached : \E r \in Reached : p \in ancestorChain(r) \/ r \in ancestorChain(p)

\* Fail closed: a state where a check did not run never leads to success.
notChecked(p) == <<p, "unchecked">> \in tags
accepting(p) == <<p, "accepting">> \in tags
entered(q, tr) == LET dest == resolve(tr.to, q)
                  IN ((ancestorChain(dest) \ ancestorChain(q)) \cup {dest}) \cup initialChain(dest)

\* Mutant of lintFailClosed: the initial child of an entered compound is not entered.
lintFailClosedShallow ==
    /\ \A p \in States : ~(notChecked(p) /\ accepting(p))
    /\ \A p \in initialChain(Initial["m"]) : ~accepting(p)
    /\ \A q \in States : (\E a \in ancestorChain(q) : notChecked(a)) =>
         \A tr \in TransitionsOf(q) : tr.to # Internal /\ resolve(tr.to, q) # None => ~accepting(resolve(tr.to, q))

lintFailClosed ==
    /\ \A p \in States : ~(notChecked(p) /\ accepting(p))
    /\ \A p \in initialChain(Initial["m"]) : ~accepting(p)
    /\ \A q \in States : (\E a \in ancestorChain(q) : notChecked(a)) =>
         \A tr \in TransitionsOf(q) : tr.to # Internal /\ resolve(tr.to, q) # None =>
            \A e \in entered(q, tr) : ~accepting(e)

LintMachine == /\ FinalSilent /\ OnDoneFires /\ InvokesHandled /\ DelaysDeclared
               /\ \A s \in States : checkGuardFalse(s) /\ checkShadow(s) /\ AlwaysEscapes(s)
               /\ IgnoresConsistent /\ EventsComplete /\ lintInvariants
               /\ NoDangling /\ NoDeadEnd /\ NoAlwaysCycle /\ AllReachable /\ lintFailClosed

----------------------------------------------------------------------------
(* The matrix.                                                              *)

\* The rows of a handler; a row after the first one may be a fallback.
RowsOf(s, k) == [i \in DOMAIN hand[s][k] |->
    [src |-> s, trig |-> k, guard |-> hand[s][k][i].guard, fallback |-> hand[s][k][i].guard = Unguarded /\ i > 1,
     first |-> hand[s][k][1].guard, to |-> IF hand[s][k][i].to = Internal THEN "(internal)" ELSE resolve(hand[s][k][i].to, s)]]
MachineTransitionRows == FoldSet(LAMBDA sk, rows : rows \o RowsOf(sk[1], sk[2]), <<>>, States \X Keys)

\* Mutant of guardMatches: every row may be written as a fallback.
guardMatchesElse(r, cell) == IF r.guard # Unguarded THEN cell \in {r.guard, "else"} ELSE cell \in {"-", "else", "!x"}

guardMatches(r, cell) ==
    IF r.guard # Unguarded THEN cell = r.guard
    ELSE cell = "-" \/ (r.fallback /\ (cell = "else" \/ (r.first = "x" /\ cell = "!x")))
RowMatches(r, x) == x.src \in {r.src, Name[r.src]} /\ x.trig = r.trig /\ guardMatches(r, x.guard)
                    /\ (x.to = r.to \/ (r.to \in States /\ x.to = Name[r.to]))

\* Each machine row takes the first row that is left and matches it.
Take(st, r) == LET C == {k \in st.left : RowMatches(r, matrix[k])}
               IN IF C = {} THEN [st EXCEPT !.ok = FALSE]
                  ELSE [st EXCEPT !.left = @ \ {CHOOSE k \in C : \A j \in C : k <= j}]
Matched == FoldLeft(Take, [left |-> DOMAIN matrix, ok |-> TRUE], MachineTransitionRows)
ReconcileMatrix == matrix = <<>> \/ (Matched.ok /\ Matched.left = {})

\* Lint: the machine, and its matrix when there is one with a table.
Lint == LintMachine /\ ReconcileMatrix

----------------------------------------------------------------------------
(* Authors.                                                                 *)

Put(f, s, k, l) == [f EXCEPT ![s][k] = l]
Empty == [s \in States |-> [k \in Keys |-> <<>>]]
Seed == [Empty EXCEPT !["A"]["e"] = <<Branch("-", Sib("C"))>>,
                      !["C"]["g"] = <<Branch("-", Sib("b"))>>,
                      !["C"]["stateDone"] = <<Branch("-", Sib("Z"))>>,
                      !["C.D"]["e"] = <<Branch("x", Sib("F")), Branch("-", Internal)>>,
                      !["b"]["onDone"] = <<Branch("-", Id("C.D"))>>,
                      !["b"]["onError"] = <<Branch("-", Sib("A"))>>,
                      !["b"]["after"] = <<Branch("-", Sib("A"))>>]
Row(r) == [src |-> r.src, trig |-> r.trig, guard |-> r.guard, to |-> r.to]
PlainRows == LET M == MachineTransitionRows IN [i \in DOMAIN M |-> Row(M[i])]

\* Targets an author may write, one of them dangling inside of C.
NewTargets == {Internal, Sib("b"), Id("A"), Id("C"), Id("C.D"), Id("Z")}

Author(edit) == pc = "edit" /\ edits < MaxEdits /\ edits' = edits + 1 /\ edit /\ UNCHANGED <<pc, running>>

\* Where authors edit: every state, or only C.D once the matrix is at stake.
Edited == IF Editing = "routes" THEN States \ {"C.F"} ELSE {"C.D"}

AddBranch == \E s \in Edited, k \in Keys \ {"onDone"}, g \in {"-", "x"}, t \in NewTargets :
    /\ k = "onError" => s \in invokes
    /\ Len(hand[s][k]) < 2
    /\ hand' = Put(hand, s, k, Append(hand[s][k], Branch(g, t)))
    /\ UNCHANGED <<invokes, ignores, refusal, exhaustive, tags, delay, law, matrix>>
RemoveBranch == \E s \in States, k \in Keys : \E i \in DOMAIN hand[s][k] :
    /\ hand' = Put(hand, s, k, RemoveAt(hand[s][k], i))
    /\ UNCHANGED <<invokes, ignores, refusal, exhaustive, tags, delay, law, matrix>>
Flip(S, x) == IF x \in S THEN S \ {x} ELSE S \cup {x}
Annotate ==
    \/ \E s \in States \ {"Z"}, k \in Events : ignores' = Flip(ignores, <<s, k>>) /\ UNCHANGED <<refusal, exhaustive, tags, delay, law>>
    \/ \E s \in {"A", "C", "C.D", "b"}, k \in {"e", "after", "stateDone"} :
          refusal' = Flip(refusal, <<s, k>>) /\ UNCHANGED <<ignores, exhaustive, tags, delay, law>>
    \/ \E s \in {"A", "C", "C.D"} : exhaustive' = Flip(exhaustive, s) /\ UNCHANGED <<ignores, refusal, tags, delay, law>>
    \/ \E s \in {"C", "C.D", "b", "Z"}, t \in {"unchecked", "accepting"} :
          tags' = Flip(tags, <<s, t>>) /\ UNCHANGED <<ignores, refusal, exhaustive, delay, law>>
    \/ delay' = ~delay /\ UNCHANGED <<ignores, refusal, exhaustive, tags, law>>
    \/ law' = ~law /\ UNCHANGED <<ignores, refusal, exhaustive, tags, delay>>
EditMachine == Author(AddBranch \/ RemoveBranch \/ (Editing = "routes" /\ Annotate /\ UNCHANGED <<hand, invokes, matrix>>))

WriteMatrix == /\ Editing = "matrix" /\ matrix = <<>>
               /\ matrix' = PlainRows
EditMatrix == /\ Editing = "matrix"
              /\ \E i \in DOMAIN matrix :
                   \/ matrix' = RemoveAt(matrix, i)
                   \/ matrix' = Append(matrix, matrix[i])
                   \/ \E g \in {"-", "x", "else", "!x"} : matrix' = [matrix EXCEPT ![i].guard = g]
                   \/ \E t \in {"A", "D", "Z", "C.D", "(internal)"} : matrix' = [matrix EXCEPT ![i].to = t]
                   \/ matrix' = [matrix EXCEPT ![i].src = Name[matrix[i].src]]

----------------------------------------------------------------------------
(* The machine as XState runs it.                                           *)

\* The state that answers a trigger: the innermost one with an admitted branch.
Admitted(s, k, gx) == {i \in DOMAIN hand[s][k] : hand[s][k][i].guard = Unguarded \/ gx}
Innermost(S) == IF at \in S THEN at ELSE Parent[at]
Answers(k, gx) == {s \in ancestorChain(at) : Admitted(s, k, gx) # {}}
Chosen(s, k, gx) == hand[s][k][CHOOSE i \in Admitted(s, k, gx) : \A j \in Admitted(s, k, gx) : i <= j]

Quiet == [kind |-> "quiet", on |-> None, by |-> None, from |-> None]
Fire(k, gx) == LET s == Innermost(Answers(k, gx))
                   br == Chosen(s, k, gx)
                   dest == resolve(br.to, s)
               IN /\ Answers(k, gx) # {}
                  /\ at' = (IF br.to = Internal \/ dest = None THEN at ELSE Entry(dest))
                  /\ idle' = FALSE
                  /\ spins' = (IF k = "always" /\ br.guard = Unguarded THEN spins + 1 ELSE 0)
                  /\ loose' = (k = "always" /\ (loose \/ s # at \/ at' # dest))
                  /\ last' = [kind |-> IF dest = None THEN "dangling" ELSE "moved", on |-> k, by |-> s, from |-> at]

\* Eventless transitions run until none is enabled.
Eventless == /\ pc = "run" /\ ~idle /\ at \notin Finals /\ spins <= Cardinality(States)
             /\ \E gx \in BOOLEAN :
                  \/ Fire("always", gx)
                  \/ Answers("always", gx) = {} /\ idle' = TRUE /\ spins' = 0 /\ loose' = FALSE /\ UNCHANGED <<at, last>>
             /\ UNCHANGED <<design, matrix, edits, pc>>

\* A final child completes its parent.
Completes == /\ pc = "run" /\ at = "C.F"
             /\ \E gx \in BOOLEAN : Fire("stateDone", gx)
             /\ UNCHANGED <<design, matrix, edits, pc>>

\* An event, a timer or a result arrives; unanswered it is absorbed.
Arrives == /\ pc = "run" /\ idle /\ at \notin Finals
           /\ \E k \in allEvents \cup {"after", "onDone", "onError"}, gx \in BOOLEAN :
                /\ k \in {"onDone", "onError"} => at \in invokes
                /\ k = "after" => handled(at, "after")
                /\ \/ Fire(k, gx)
                   \/ /\ Answers(k, gx) = {}
                      /\ last' = [kind |-> "absorbed", on |-> k, by |-> None, from |-> at]
                      /\ UNCHANGED <<at, idle, spins, loose>>
           /\ UNCHANGED <<design, matrix, edits, pc>>

Start == /\ pc = "edit" /\ Lint
         /\ pc' = "run" /\ at' = Entry(Initial["m"]) /\ idle' = FALSE
         /\ UNCHANGED <<design, matrix, edits, spins, loose, last>>

Init == /\ hand = Seed /\ invokes = {"b"} /\ ignores = {<<"A", "g">>} /\ refusal = {} /\ exhaustive = {}
        /\ tags = {<<"Z", "accepting">>} /\ delay = TRUE /\ law = FALSE /\ matrix = <<>>
        /\ edits = 0 /\ pc = "edit" /\ at = None /\ idle = FALSE /\ spins = 0 /\ loose = FALSE /\ last = Quiet
Next == \/ EditMachine \/ Start \/ Eventless \/ Completes \/ Arrives
        \/ Author((WriteMatrix \/ EditMatrix) /\ UNCHANGED design)
Spec == Init /\ [][Next]_vars

----------------------------------------------------------------------------
(* Properties of the machines that the lint accepts.                        *)

TypeOK == /\ \A s \in States, k \in Keys : Len(hand[s][k]) <= 2
          /\ at \in Leaves \cup {None} /\ (at = None <=> pc = "edit")
          /\ spins \in 0..(Cardinality(States) + 1)

\* A running machine is only in states the lint found reachable, and no
\* transition it takes has a target that does not exist.
StaysInGraph == pc = "run" => at \in Reached /\ last.kind # "dangling"

\* What a waiting state does not react to, its author decided: the event is
\* ignored for a reason or a guard's refusal is stated.
NothingSwallowed ==
    last.kind = "absorbed" /\ last.on \in Events /\ RestingLeaf(last.from) =>
        \/ ignored(last.from, last.on)
        \/ \E q \in ancestorChain(last.from) : <<q, last.on>> \in refusal
TimersDecided ==
    last.kind = "absorbed" /\ last.on \in {"after", "onError"} =>
        \E q \in ancestorChain(last.from) : <<q, last.on>> \in refusal

\* An event that an invariant obliges to change context is never ignored.
LawKept == law /\ last.kind = "absorbed" /\ last.on = "g" => ~ignored(last.from, "g") \/ handled(last.from, "g")

\* Eventless steps end, unless the cycle goes through a compound state: the
\* search follows a step to the state it names, not on to the initial child that
\* is entered (lint.go:606-616), although the comment there says that lint must
\* catch such cycles (lint.go:602-603).
Settles == spins > Cardinality(States) => loose

\* No step out of a state that was not checked enters an accepting one, unless
\* it is a step that an ancestor declares.
FailsClosed == last.kind = "moved" /\ at # last.from /\ (\E a \in ancestorChain(last.by) : notChecked(a)) =>
                   \A e \in ancestorChain(at) \ ancestorChain(last.from) : ~accepting(e)

\* What the comment on the rule says: not-checked never reaches success, by any
\* edge kind.
NeverSucceedsUnchecked ==
    last.kind = "moved" /\ (\E a \in ancestorChain(last.from) : notChecked(a)) =>
        \A e \in ancestorChain(at) \ ancestorChain(last.from) : ~accepting(e)

\* A matrix that reconciles says what the machine does: as many rows for each
\* source, trigger, guard and target.
Plain(x) == LET full(n) == IF n \in States \/ n = "(internal)" THEN n ELSE CHOOSE p \in States : Name[p] = n
            IN <<full(x.src), x.trig, IF x.guard = "x" THEN "x" ELSE "-", full(x.to)>>
Count(q, v) == Cardinality({i \in DOMAIN q : Plain(q[i]) = v})
MatrixTrue == (pc = "run" /\ matrix # <<>>) =>
    LET M == PlainRows
    IN \A v \in {Plain(matrix[i]) : i \in DOMAIN matrix} \cup {Plain(M[i]) : i \in DOMAIN M} : Count(matrix, v) = Count(M, v)
=============================================================================
