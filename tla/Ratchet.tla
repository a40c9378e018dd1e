------------------------------- MODULE Ratchet -------------------------------
(* Adoption debt (internal/gates: baseline.go, consistency_baseline.go,     *)
(* rules.go, ledger.go, threat.go, imports.go; cmd/machinery/baseline.go):  *)
(* ratchet.json records today's boundary edges, rule findings, undeclared   *)
(* facts and threat candidates; the gates tolerate what it records and      *)
(* report the rest.  A section that is absent differs from an empty one.    *)
EXTENDS Integers, TLAPS

CONSTANTS Parts,       \* of "g4", "gy", "gl", "gz": the debt this instance is about
          Damage,      \* ratchet.json may be left malformed (a merge conflict)
          Flaky,       \* a rule file may stop at its resource limit
          Edges, Files,
          Findings,
          NeedImpl,      \* findings that join the implementation's bindings
          FlakyFindings, \* findings of the rule file that may fail
          Tokens,
          MaxCount,      \* occurrences of a token
          Subjects,
          MaxEdits, MaxRuns

VARIABLES files, rule,         \* offender files of an edge; what the contract says of it
          findings, omitted, limit, \* rule findings; those whose rows cannot be projected; a rule file fails
          tokens,              \* occurrences of an undeclared fact
          open, def, ledgerOK, \* an unclassified candidate, its model definition; the threat ledger parses
          ratchet,             \* [file, edges, rules, undeclared, threats]
          granted,             \* debt somebody accepted by a first recording, --grow or a G4 rerun
          edits, runs
design == <<files, rule, findings, omitted, limit, tokens, open, def, ledgerOK>>
vars == <<design, ratchet, granted, edits, runs>>

\* An optional section: absent, or recorded with a value.
Absent == [has |-> FALSE, val |-> {}]
Uncounted == [has |-> FALSE, val |-> [t \in Tokens |-> 0]]

\* Mutant of Section: an empty section is left out of the file.
SectionOmitEmpty(v) == [has |-> v # {}, val |-> v]

Section(v) == [has |-> TRUE, val |-> v]

----------------------------------------------------------------------------
(* The gates.                                                               *)

\* An unreadable file yields an error and no record at all.
LoadRatchet == IF ratchet.file = "ok" THEN ratchet
               ELSE [ratchet EXCEPT !.edges = Absent, !.rules = Absent, !.undeclared = Uncounted, !.threats = Absent]
Unparsed == ratchet.file = "malformed"

Status(e) == CASE rule[e] \in {"allow"} -> "allowed"
               [] rule[e] \in {"baseline", "baselineDeny"} -> "baselined"
               [] rule[e] = "deny" -> "denied"
               [] OTHER -> "undeclared"
Observed(e) == files[e] # {}
Snapshot(e) == {p[2] : p \in {q \in LoadRatchet.edges.val : q[1] = e}}
Recorded(e) == \E p \in LoadRatchet.edges.val : p[1] = e

\* Mutant of BaselinedEdgeError: an edge without a snapshot is tolerated.
BaselinedEdgeErrorNone(e) == LoadRatchet.edges.has /\ Recorded(e) /\ ~(files[e] \subseteq Snapshot(e))

BaselinedEdgeError(e) == ~LoadRatchet.edges.has \/ ~Recorded(e) \/ ~(files[e] \subseteq Snapshot(e))
EdgeError(e) == Observed(e) /\ (Status(e) \in {"denied", "undeclared"} \/ (Status(e) = "baselined" /\ BaselinedEdgeError(e)))

\* What the rules derive in one evaluation, and whether all of them ran.
Evaluated(impl) == {k \in findings \ omitted : (impl \/ k \notin NeedImpl) /\ ~(limit /\ k \in FlakyFindings)}
Fresh(impl) == {k \in Evaluated(impl) : k \notin LoadRatchet.rules.val}
Baselined(impl) == Evaluated(impl) \cap LoadRatchet.rules.val

\* Mutant of Resolved: an omitted row resolves a finding.
ResolvedAlways(impl) == LoadRatchet.rules.val \ Evaluated(impl)

Resolved(impl) == IF omitted = {} THEN LoadRatchet.rules.val \ Evaluated(impl) ELSE {}

RecordedCount(t) == LoadRatchet.undeclared.val[t]
BaselinedTokens(t) == IF tokens[t] < RecordedCount(t) THEN tokens[t] ELSE RecordedCount(t)
FreshTokens(t) == IF tokens[t] > RecordedCount(t) THEN tokens[t] - RecordedCount(t) ELSE 0

\* Mutant of ThreatTolerated: the subject alone identifies a recorded candidate.
ThreatToleratedSubject(s) == \E p \in LoadRatchet.threats.val : p[1] = s

ThreatTolerated(s) == <<s, def[s]>> \in LoadRatchet.threats.val

\* The final handoff looks for what the gates still tolerate.
BaselinedDebt == \/ Baselined(TRUE) # {} \/ (\E t \in Tokens : BaselinedTokens(t) # 0)
                 \/ \E s \in open : ThreatTolerated(s)

\* Mutant of requireNoBaselinedDebt: only rule findings count.
requireNoBaselinedDebtRules == Baselined(TRUE) = {}

\* Mutant of requireNoBaselinedDebt: the rules are evaluated without the implementation.
requireNoBaselinedDebtDesign == Baselined(FALSE) = {}

requireNoBaselinedDebt == ~BaselinedDebt

\* Mutant of RatchetArmsImports: a file that does not parse arms nothing.
RatchetArmsImportsParsed == ratchet.file = "ok" /\ ratchet.edges.has

RatchetArmsImports == ratchet.file = "malformed" \/ (ratchet.file = "ok" /\ ratchet.edges.has)

----------------------------------------------------------------------------
(* machinery baseline, under the design lock.                               *)

ObserveRuleDebt(impl) == Evaluated(impl)
Refused(sel, impl) == \/ Unparsed /\ sel \cap {"gy", "gl", "gz"} # {}
                      \/ "gy" \in sel /\ (omitted # {} \/ limit)
                      \/ "gz" \in sel /\ ~ledgerOK

\* An edge that is not allowed is recorded with its files.
BuildBaseline == Section({p \in Edges \X Files : p[2] \in files[p[1]] /\ Status(p[1]) # "allowed"})

\* Mutant of Shrunk: what is observed is recorded.
ShrunkNot(section, current, grow) == current

\* An absent section records everything; otherwise the record only shrinks, unless told to grow.
Shrunk(section, current, grow) == IF ~section.has \/ grow THEN current ELSE current \cap section.val
MinCounts(section, grow) ==
    [t \in Tokens |-> IF ~section.has \/ grow \/ tokens[t] <= section.val[t] THEN tokens[t] ELSE section.val[t]]
RecordConsistencyDebt(r, sel, impl, grow) ==
    [r EXCEPT !.rules = IF "gy" \in sel THEN Section(Shrunk(r.rules, ObserveRuleDebt(impl), grow)) ELSE @,
              !.undeclared = IF "gl" \in sel THEN Section(MinCounts(r.undeclared, grow)) ELSE @]
RecordThreatDebt(r, sel, grow) ==
    [r EXCEPT !.threats = IF "gz" \in sel THEN Section(Shrunk(r.threats, {<<s, def[s]>> : s \in open}, grow)) ELSE @]

\* Mutant of Prior: a run that records one part starts from nothing.
PriorNone(sel) == [LoadRatchet EXCEPT !.file = "ok", !.edges = IF "g4" \in sel THEN BuildBaseline ELSE @,
                                      !.rules = Absent]

\* Sections the run does not record are taken from the file as it was read.
Prior(sel) == [LoadRatchet EXCEPT !.file = "ok", !.edges = IF "g4" \in sel THEN BuildBaseline ELSE @]

Accepts(part, sel, grow, had) == part \in sel /\ (grow \/ ~had)
Take(part, sel, grow, had, now) == granted[part] \cup (IF Accepts(part, sel, grow, had) THEN now ELSE {})
baseline(sel, impl, grow) ==
    /\ runs < MaxRuns /\ runs' = runs + 1 /\ ~Refused(sel, impl)
    /\ (grow => sel \cap {"gy", "gl", "gz"} # {})
    /\ LET r == Prior(sel) IN ratchet' = RecordThreatDebt(RecordConsistencyDebt(r, sel, impl, grow), sel, grow)
    /\ granted' = [granted EXCEPT
         !.g4 = IF "g4" \in sel THEN BuildBaseline.val ELSE @,
         !.gy = Take("gy", sel, grow, granted.gySeen, Evaluated(impl)), !.gySeen = @ \/ "gy" \in sel,
         !.gl = [t \in Tokens |-> IF Accepts("gl", sel, grow, granted.glSeen) /\ tokens[t] > @[t] THEN tokens[t] ELSE @[t]],
         !.glSeen = @ \/ "gl" \in sel,
         !.gz = Take("gz", sel, grow, granted.gzSeen, {<<s, def[s]>> : s \in open}), !.gzSeen = @ \/ "gz" \in sel]
    /\ UNCHANGED <<design, edits>>

----------------------------------------------------------------------------
(* Everybody else.                                                          *)

Edit == edits < MaxEdits /\ edits' = edits + 1 /\ UNCHANGED <<granted, runs>>
Flip(S, x) == IF x \in S THEN S \ {x} ELSE S \cup {x}
EditCode(e, f) == "g4" \in Parts /\ Edit /\ files' = [files EXCEPT ![e] = Flip(@, f)]
                  /\ UNCHANGED <<rule, findings, omitted, limit, tokens, open, def, ledgerOK, ratchet>>
EditContract(e, c) == "g4" \in Parts /\ Edit /\ c # rule[e] /\ rule' = [rule EXCEPT ![e] = c]
                      /\ UNCHANGED <<files, findings, omitted, limit, tokens, open, def, ledgerOK, ratchet>>
EditDesign(k) == "gy" \in Parts /\ Edit /\ findings' = Flip(findings, k) /\ omitted' = omitted \ {k}
                 /\ UNCHANGED <<files, rule, limit, tokens, open, def, ledgerOK, ratchet>>
BreakRow(k) == "gy" \in Parts /\ Edit /\ k \in findings /\ omitted' = Flip(omitted, k)
               /\ UNCHANGED <<files, rule, findings, limit, tokens, open, def, ledgerOK, ratchet>>
HitLimit == Flaky /\ "gy" \in Parts /\ Edit /\ limit' = ~limit
            /\ UNCHANGED <<files, rule, findings, omitted, tokens, open, def, ledgerOK, ratchet>>
EditToken(t, n) == "gl" \in Parts /\ Edit /\ n # tokens[t] /\ tokens' = [tokens EXCEPT ![t] = n]
                   /\ UNCHANGED <<files, rule, findings, omitted, limit, open, def, ledgerOK, ratchet>>
EditModel(s) == "gz" \in Parts /\ Edit
                /\ \/ open' = Flip(open, s) /\ UNCHANGED def
                   \/ def' = [def EXCEPT ![s] = 3 - @] /\ UNCHANGED open
                /\ UNCHANGED <<files, rule, findings, omitted, limit, tokens, ledgerOK, ratchet>>
EditLedger == "gz" \in Parts /\ Edit /\ ledgerOK' = ~ledgerOK
              /\ UNCHANGED <<files, rule, findings, omitted, limit, tokens, open, def, ratchet>>
Conflict == Damage /\ Edit /\ ratchet.file = "ok" /\ ratchet' = [ratchet EXCEPT !.file = "malformed"] /\ UNCHANGED design

Init == /\ files = [e \in Edges |-> {}] /\ rule = [e \in Edges |-> "none"]
        /\ findings = {} /\ omitted = {} /\ limit = FALSE /\ tokens = [t \in Tokens |-> 0]
        /\ open = {} /\ def = [s \in Subjects |-> 1] /\ ledgerOK = TRUE
        /\ ratchet = [file |-> "none", edges |-> Absent, rules |-> Absent, undeclared |-> Uncounted, threats |-> Absent]
        /\ granted = [g4 |-> {}, gy |-> {}, gl |-> [t \in Tokens |-> 0], gz |-> {}, gySeen |-> FALSE, glSeen |-> FALSE, gzSeen |-> FALSE]
        /\ edits = 0 /\ runs = 0
Next == \/ \E sel \in (SUBSET Parts) \ {{}}, impl, grow \in BOOLEAN : baseline(sel, impl, grow)
        \/ \E e \in Edges : (\E f \in Files : EditCode(e, f)) \/ \E c \in {"allow", "deny", "baseline", "baselineDeny", "none"} : EditContract(e, c)
        \/ \E k \in Findings : EditDesign(k) \/ BreakRow(k)
        \/ HitLimit \/ EditLedger \/ Conflict
        \/ \E t \in Tokens, n \in 0..MaxCount : EditToken(t, n)
        \/ \E s \in Subjects : EditModel(s)
Spec == Init /\ [][Next]_vars

----------------------------------------------------------------------------
(* Properties.                                                              *)

TypeOK == /\ ratchet.file \in {"none", "ok", "malformed"} /\ ratchet.edges.val \subseteq Edges \X Files
          /\ ratchet.rules.val \subseteq Findings /\ ratchet.undeclared.val \in [Tokens -> 0..MaxCount]
          /\ ratchet.threats.val \subseteq Subjects \X (1..2)
          /\ (ratchet.file = "ok" => ratchet.edges.has \/ ratchet.rules.has \/ ratchet.undeclared.has \/ ratchet.threats.has)

\* A baselined edge cannot grow: a file that crosses a boundary against the
\* contract and passes G4 was there at the last G4 baseline.
EdgesDoNotGrow == \A e \in Edges : (Observed(e) /\ ~EdgeError(e) /\ Status(e) # "allowed") =>
                        \A f \in files[e] : <<e, f>> \in granted.g4

\* Recorded debt grows only by a first recording or by --grow, over any number
\* of runs for any selection of gates.  (Not when a damaged file was recorded over
\* for G4 alone: cmd/machinery/baseline.go:105-119.)
DebtGranted == /\ LoadRatchet.rules.val \subseteq granted.gy
               /\ \A t \in Tokens : RecordedCount(t) <= granted.gl[t]
               /\ LoadRatchet.threats.val \subseteq granted.gz

\* A recorded candidate is tolerated only with the model definition that was
\* accepted.
ThreatRearmed == \A s \in open : ThreatTolerated(s) => <<s, def[s]>> \in granted.gz

\* An entry reported as resolved is no longer a finding of the design
\* (checked with the implementation).
ResolvedIsGone == Resolved(TRUE) \cap findings = {}

\* The same when every rule file was evaluated.
ResolvedWhole == ~limit => Resolved(TRUE) \cap findings = {}

\* Once G4 has been baselined, import findings block at turn end, whatever
\* becomes of the file.
StaysArmed == RatchetArmsImports => RatchetArmsImports'

\* The final handoff leaves no finding of the design tolerated: each is
\* reported, or its row or file is.
HandoffSeesAll == (~Unparsed /\ requireNoBaselinedDebt /\ omitted = {} /\ ~limit) =>
    /\ findings \subseteq Fresh(TRUE) /\ \A t \in Tokens : FreshTokens(t) = tokens[t]
    /\ \A s \in open : <<s, def[s]>> \notin LoadRatchet.threats.val

\* A run rewrites only the sections it records: another part's debt stays.  (Not
\* when the file cannot be read: cmd/machinery/baseline.go:116-119.)
SectionsKept == \A sel \in (SUBSET Parts) \ {{}}, impl, grow \in BOOLEAN : baseline(sel, impl, grow) =>
                     /\ ("g4" \in sel \/ ratchet'.edges = ratchet.edges) /\ ("gy" \in sel \/ ratchet'.rules = ratchet.rules)
                     /\ ("gl" \in sel \/ ratchet'.undeclared = ratchet.undeclared) /\ ("gz" \in sel \/ ratchet'.threats = ratchet.threats)
----------------------------------------------------------------------------
(* Proofs, for any edges, findings, tokens and candidates, and any number    *)
(* of edits and recordings.                                                  *)

AllParts == {"g4", "gy", "gl", "gz"}

Shape ==
  /\ tokens \in [Tokens -> Nat]
  /\ ratchet \in [file : {"none", "ok", "malformed"}, edges : [has : BOOLEAN, val : SUBSET (Edges \X Files)],
                  rules : [has : BOOLEAN, val : SUBSET Findings], undeclared : [has : BOOLEAN, val : [Tokens -> Nat]],
                  threats : [has : BOOLEAN, val : SUBSET (Subjects \X Int)]]
  /\ granted \in [g4 : SUBSET (Edges \X Files), gy : SUBSET Findings, gl : [Tokens -> Nat], gz : SUBSET (Subjects \X Int),
                  gySeen : BOOLEAN, glSeen : BOOLEAN, gzSeen : BOOLEAN]
  /\ findings \subseteq Findings /\ open \subseteq Subjects /\ def \in [Subjects -> Int]

\* Before the first recording there is nothing; without damage a section that
\* was recorded stays; and what is recorded was granted.
Kept ==
  /\ ratchet.file = "none" => /\ ratchet.edges = Absent /\ ratchet.rules = Absent
                              /\ ratchet.undeclared = Uncounted /\ ratchet.threats = Absent
  /\ ~Damage => ratchet.file # "malformed"
  /\ ~Damage /\ granted.gySeen => ratchet.rules.has
  /\ ~Damage /\ granted.glSeen => ratchet.undeclared.has
  /\ ~Damage /\ granted.gzSeen => ratchet.threats.has
Grants ==
  /\ ratchet.edges.val \subseteq granted.g4
  /\ ~Damage => /\ ratchet.rules.val \subseteq granted.gy /\ ratchet.threats.val \subseteq granted.gz
                /\ \A t \in Tokens : ratchet.undeclared.val[t] <= granted.gl[t]

Inv == Shape /\ Kept /\ Grants

LEMMA InitInv == Init => Inv
<1> SUFFICES ASSUME Init PROVE Inv
  OBVIOUS
<1>1. Shape
  BY DEF Init, Shape, Absent, Uncounted
<1>2. Kept /\ Grants
  BY DEF Init, Kept, Grants, Absent, Uncounted
<1> QED BY <1>1, <1>2 DEF Inv

\* What a recording writes, section by section.
Records(sel, impl, grow) ==
  /\ ratchet'.file = "ok"
  /\ ratchet'.edges = IF "g4" \in sel THEN BuildBaseline ELSE LoadRatchet.edges
  /\ ratchet'.rules = IF "gy" \in sel THEN Section(Shrunk(LoadRatchet.rules, Evaluated(impl), grow)) ELSE LoadRatchet.rules
  /\ ratchet'.undeclared = IF "gl" \in sel THEN Section(MinCounts(LoadRatchet.undeclared, grow)) ELSE LoadRatchet.undeclared
  /\ ratchet'.threats = IF "gz" \in sel THEN Section(Shrunk(LoadRatchet.threats, {<<s, def[s]>> : s \in open}, grow))
                        ELSE LoadRatchet.threats
  /\ ratchet' = [file |-> ratchet'.file, edges |-> ratchet'.edges, rules |-> ratchet'.rules,
                 undeclared |-> ratchet'.undeclared, threats |-> ratchet'.threats]
LEMMA Written ==
  ASSUME NEW sel, NEW impl, NEW grow, Inv, baseline(sel, impl, grow)
  PROVE  Records(sel, impl, grow)
<1>1. /\ LoadRatchet = [file |-> ratchet.file, edges |-> LoadRatchet.edges, rules |-> LoadRatchet.rules,
                        undeclared |-> LoadRatchet.undeclared, threats |-> LoadRatchet.threats]
  BY DEF Inv, Shape, LoadRatchet
<1>2. ratchet' = RecordThreatDebt(RecordConsistencyDebt(Prior(sel), sel, impl, grow), sel, grow)
  BY DEF baseline
<1> QED BY <1>1, <1>2 DEF Records, RecordThreatDebt, RecordConsistencyDebt, Prior, ObserveRuleDebt

LEMMA RecordStep ==
  ASSUME NEW sel, NEW impl, NEW grow \in BOOLEAN, Inv, baseline(sel, impl, grow)
  PROVE  Inv'
<1>w. Records(sel, impl, grow)
  BY Written
<1>0. /\ LoadRatchet.edges \in [has : BOOLEAN, val : SUBSET (Edges \X Files)] /\ LoadRatchet.edges.val \subseteq granted.g4
      /\ LoadRatchet.rules \in [has : BOOLEAN, val : SUBSET Findings]
      /\ LoadRatchet.undeclared \in [has : BOOLEAN, val : [Tokens -> Nat]]
      /\ LoadRatchet.threats \in [has : BOOLEAN, val : SUBSET (Subjects \X Int)]
  BY DEF Inv, Shape, Grants, LoadRatchet, Absent, Uncounted
<1>1. ASSUME ~Damage
      PROVE  /\ LoadRatchet.rules = ratchet.rules /\ LoadRatchet.undeclared = ratchet.undeclared
             /\ LoadRatchet.threats = ratchet.threats
  BY <1>1 DEF Inv, Shape, Kept, LoadRatchet
<1>2. /\ BuildBaseline.val \subseteq Edges \X Files /\ BuildBaseline.has = TRUE
      /\ BuildBaseline = [has |-> TRUE, val |-> BuildBaseline.val]
      /\ Evaluated(impl) \subseteq Findings /\ {<<s, def[s]>> : s \in open} \subseteq Subjects \X Int
      /\ tokens \in [Tokens -> Nat]
  BY DEF Inv, Shape, BuildBaseline, Section, Evaluated
<1>3. /\ Shrunk(LoadRatchet.rules, Evaluated(impl), grow) \subseteq Evaluated(impl)
      /\ Shrunk(LoadRatchet.threats, {<<s, def[s]>> : s \in open}, grow) \subseteq {<<s, def[s]>> : s \in open}
      /\ LoadRatchet.rules.has /\ ~grow => Shrunk(LoadRatchet.rules, Evaluated(impl), grow) \subseteq LoadRatchet.rules.val
      /\ LoadRatchet.threats.has /\ ~grow =>
           Shrunk(LoadRatchet.threats, {<<s, def[s]>> : s \in open}, grow) \subseteq LoadRatchet.threats.val
  BY DEF Shrunk
<1>4. /\ MinCounts(LoadRatchet.undeclared, grow) \in [Tokens -> Nat]
      /\ \A t \in Tokens : /\ MinCounts(LoadRatchet.undeclared, grow)[t] <= tokens[t]
                           /\ LoadRatchet.undeclared.has /\ ~grow =>
                                MinCounts(LoadRatchet.undeclared, grow)[t] <= LoadRatchet.undeclared.val[t]
  BY <1>0, <1>2 DEF MinCounts
<1>5. /\ granted'.g4 = (IF "g4" \in sel THEN BuildBaseline.val ELSE granted.g4)
      /\ granted'.gy = Take("gy", sel, grow, granted.gySeen, Evaluated(impl))
      /\ granted'.gySeen = (granted.gySeen \/ "gy" \in sel)
      /\ granted'.gl = [t \in Tokens |-> IF Accepts("gl", sel, grow, granted.glSeen) /\ tokens[t] > granted.gl[t]
                                         THEN tokens[t] ELSE granted.gl[t]]
      /\ granted'.glSeen = (granted.glSeen \/ "gl" \in sel)
      /\ granted'.gz = Take("gz", sel, grow, granted.gzSeen, {<<s, def[s]>> : s \in open})
      /\ granted'.gzSeen = (granted.gzSeen \/ "gz" \in sel)
      /\ granted' = [g4 |-> granted'.g4, gy |-> granted'.gy, gl |-> granted'.gl, gz |-> granted'.gz,
                     gySeen |-> granted'.gySeen, glSeen |-> granted'.glSeen, gzSeen |-> granted'.gzSeen]
      /\ UNCHANGED design
  BY DEF Inv, Shape, baseline
<1>6. Shape'
  <2>1. granted' \in [g4 : SUBSET (Edges \X Files), gy : SUBSET Findings, gl : [Tokens -> Nat],
                      gz : SUBSET (Subjects \X Int), gySeen : BOOLEAN, glSeen : BOOLEAN, gzSeen : BOOLEAN]
    <3>1. granted'.gl \in [Tokens -> Nat]
      BY <1>2, <1>5 DEF Inv, Shape
    <3>2. granted'.gy \in SUBSET Findings /\ granted'.gz \in SUBSET (Subjects \X Int) /\ granted'.g4 \in SUBSET (Edges \X Files)
      BY <1>2, <1>5 DEF Inv, Shape, Take
    <3>3. granted'.gySeen \in BOOLEAN /\ granted'.glSeen \in BOOLEAN /\ granted'.gzSeen \in BOOLEAN
      BY <1>5 DEF Inv, Shape
    <3> QED BY <1>5, <3>1, <3>2, <3>3
  <2>2. /\ ratchet'.edges \in [has : BOOLEAN, val : SUBSET (Edges \X Files)]
        /\ ratchet'.rules \in [has : BOOLEAN, val : SUBSET Findings]
        /\ ratchet'.undeclared \in [has : BOOLEAN, val : [Tokens -> Nat]]
        /\ ratchet'.threats \in [has : BOOLEAN, val : SUBSET (Subjects \X Int)]
    <3>1. ratchet'.edges \in [has : BOOLEAN, val : SUBSET (Edges \X Files)]
      <4>1. [has |-> TRUE, val |-> BuildBaseline.val] \in [has : BOOLEAN, val : SUBSET (Edges \X Files)]
        BY <1>2
      <4> QED BY <1>0, <1>2, <1>w, <4>1 DEF Records
    <3>2. ratchet'.rules \in [has : BOOLEAN, val : SUBSET Findings]
      <4>1. Section(Shrunk(LoadRatchet.rules, Evaluated(impl), grow)) \in [has : BOOLEAN, val : SUBSET Findings]
        BY <1>2, <1>3 DEF Section
      <4> QED BY <1>0, <1>w, <4>1 DEF Records
    <3>3. ratchet'.undeclared \in [has : BOOLEAN, val : [Tokens -> Nat]]
      <4>1. Section(MinCounts(LoadRatchet.undeclared, grow)) \in [has : BOOLEAN, val : [Tokens -> Nat]]
        BY <1>4 DEF Section
      <4> QED BY <1>0, <1>w, <4>1 DEF Records
    <3>4. ratchet'.threats \in [has : BOOLEAN, val : SUBSET (Subjects \X Int)]
      <4>1. Section(Shrunk(LoadRatchet.threats, {<<s, def[s]>> : s \in open}, grow)) \in [has : BOOLEAN, val : SUBSET (Subjects \X Int)]
        BY <1>2, <1>3 DEF Section
      <4> QED BY <1>0, <1>w, <4>1 DEF Records
    <3> QED BY <3>1, <3>2, <3>3, <3>4
  <2> QED BY <1>5, <2>1, <2>2, <1>w DEF Inv, Shape, design, Records
<1>7. Kept'
  <2>1. ratchet'.file = "ok"
    BY <1>w DEF Records
  <2>2. ASSUME ~Damage, granted'.gySeen PROVE ratchet'.rules.has
    <3>1. CASE "gy" \in sel
      BY <3>1, <1>w DEF Records, Section
    <3>2. CASE "gy" \notin sel
      <4>1. ratchet.rules.has
        BY <1>5, <2>2, <3>2 DEF Inv, Kept
      <4> QED BY <1>1, <2>2, <3>2, <4>1, <1>w DEF Records
    <3> QED BY <3>1, <3>2
  <2>3. ASSUME ~Damage, granted'.glSeen PROVE ratchet'.undeclared.has
    <3>1. CASE "gl" \in sel
      BY <3>1, <1>w DEF Records, Section
    <3>2. CASE "gl" \notin sel
      <4>1. ratchet.undeclared.has
        BY <1>5, <2>3, <3>2 DEF Inv, Kept
      <4> QED BY <1>1, <2>3, <3>2, <4>1, <1>w DEF Records
    <3> QED BY <3>1, <3>2
  <2>4. ASSUME ~Damage, granted'.gzSeen PROVE ratchet'.threats.has
    <3>1. CASE "gz" \in sel
      BY <3>1, <1>w DEF Records, Section
    <3>2. CASE "gz" \notin sel
      <4>1. ratchet.threats.has
        BY <1>5, <2>4, <3>2 DEF Inv, Kept
      <4> QED BY <1>1, <2>4, <3>2, <4>1, <1>w DEF Records
    <3> QED BY <3>1, <3>2
  <2> QED BY <2>1, <2>2, <2>3, <2>4 DEF Kept
<1>8. Grants'
  <2>1. ratchet'.edges.val \subseteq granted'.g4
    BY <1>0, <1>5, <1>w DEF Records
  <2>2. ASSUME ~Damage PROVE ratchet'.rules.val \subseteq granted'.gy
    <3>1. ratchet.rules.val \subseteq granted.gy /\ (granted.gySeen => ratchet.rules.has)
      BY <2>2 DEF Inv, Kept, Grants
    <3> QED BY <1>1, <1>3, <1>5, <2>2, <3>1, <1>w DEF Records, Section, Take, Accepts
  <2>3. ASSUME ~Damage PROVE ratchet'.threats.val \subseteq granted'.gz
    <3>1. ratchet.threats.val \subseteq granted.gz /\ (granted.gzSeen => ratchet.threats.has)
      BY <2>3 DEF Inv, Kept, Grants
    <3> QED BY <1>1, <1>3, <1>5, <2>3, <3>1, <1>w DEF Records, Section, Take, Accepts
  <2>4. ASSUME ~Damage, NEW t \in Tokens PROVE ratchet'.undeclared.val[t] <= granted'.gl[t]
    <3>1. ratchet.undeclared.val[t] <= granted.gl[t] /\ (granted.glSeen => ratchet.undeclared.has)
      BY <2>4 DEF Inv, Kept, Grants
    <3>2. granted.gl[t] \in Nat /\ tokens[t] \in Nat /\ ratchet.undeclared.val[t] \in Nat
      BY DEF Inv, Shape
    <3>3. granted'.gl[t] >= granted.gl[t] /\ (Accepts("gl", sel, grow, granted.glSeen) => granted'.gl[t] >= tokens[t])
      BY <1>5, <3>2
    <3>4. granted'.gl[t] \in Nat /\ MinCounts(LoadRatchet.undeclared, grow)[t] \in Nat
      BY <1>4, <1>6 DEF Shape
    <3>5. CASE "gl" \notin sel
      <4>1. ratchet'.undeclared.val[t] = ratchet.undeclared.val[t]
        BY <1>1, <2>4, <3>5, <1>w DEF Records
      <4> QED BY <3>1, <3>2, <3>3, <3>4, <4>1
    <3>6. CASE "gl" \in sel
      <4>1. ratchet'.undeclared.val[t] = MinCounts(LoadRatchet.undeclared, grow)[t]
        BY <3>6, <1>w DEF Records, Section
      <4>2. CASE grow \/ ~granted.glSeen
        BY <1>4, <3>2, <3>3, <3>4, <3>6, <4>1, <4>2 DEF Accepts
      <4>3. CASE ~grow /\ granted.glSeen
        BY <1>1, <1>4, <2>4, <3>1, <3>2, <3>3, <3>4, <4>1, <4>3
      <4> QED BY <4>2, <4>3
    <3> QED BY <3>5, <3>6
  <2> QED BY <2>1, <2>2, <2>3, <2>4 DEF Grants
<1> QED BY <1>6, <1>7, <1>8 DEF Inv

LEMMA StepInv == ASSUME Inv, [Next]_vars PROVE Inv'
<1>1. ASSUME NEW sel \in (SUBSET Parts) \ {{}}, NEW impl \in BOOLEAN, NEW grow \in BOOLEAN, baseline(sel, impl, grow)
      PROVE  Inv'
  BY <1>1, RecordStep
<1>2. CASE /\ UNCHANGED <<ratchet, granted>> /\ Shape'
  BY <1>2 DEF Inv, Kept, Grants
<1>3. ASSUME NEW e \in Edges, (\E f \in Files : EditCode(e, f)) \/ \E c \in {"allow", "deny", "baseline", "baselineDeny", "none"} : EditContract(e, c)
      PROVE  Inv'
  BY <1>2, <1>3 DEF EditCode, EditContract, Edit, Inv, Shape
<1>4. ASSUME NEW k \in Findings, EditDesign(k) \/ BreakRow(k)
      PROVE  Inv'
  BY <1>2, <1>4 DEF EditDesign, BreakRow, Flip, Edit, Inv, Shape
<1>5. CASE HitLimit \/ EditLedger
  BY <1>2, <1>5 DEF HitLimit, EditLedger, Edit, Inv, Shape
<1>6. ASSUME NEW t \in Tokens, NEW n \in 0..MaxCount, EditToken(t, n)
      PROVE  Inv'
  <2>1. tokens' \in [Tokens -> Nat]
    BY <1>6 DEF EditToken, Inv, Shape
  <2> QED BY <1>2, <1>6, <2>1 DEF EditToken, Edit, Inv, Shape
<1>7. ASSUME NEW s \in Subjects, EditModel(s)
      PROVE  Inv'
  <2>1. def' \in [Subjects -> Int] /\ open' \subseteq Subjects
    BY <1>7 DEF EditModel, Flip, Inv, Shape
  <2> QED BY <1>2, <1>7, <2>1 DEF EditModel, Edit, Inv, Shape
<1>8. CASE Conflict
  <2>1. /\ Damage /\ ratchet' = [ratchet EXCEPT !.file = "malformed"] /\ UNCHANGED <<design, granted>>
    BY <1>8 DEF Conflict, Edit
  <2>2. Shape' /\ ratchet'.edges = ratchet.edges /\ ratchet'.file = "malformed"
    BY <2>1 DEF Inv, Shape, design
  <2> QED BY <2>1, <2>2 DEF Inv, Kept, Grants
<1>9. CASE UNCHANGED vars
  BY <1>2, <1>9 DEF vars, design, Inv, Shape
<1> QED BY <1>1, <1>3, <1>4, <1>5, <1>6, <1>7, <1>8, <1>9 DEF Next

\* What the gates tolerate, whatever happened to the file.
LEMMA Tolerated ==
  ASSUME Inv
  PROVE  EdgesDoNotGrow /\ ResolvedWhole /\ HandoffSeesAll /\ (~Damage => DebtGranted /\ ThreatRearmed)
<1>1. EdgesDoNotGrow
  <2> SUFFICES ASSUME NEW e \in Edges, Observed(e), ~EdgeError(e), Status(e) # "allowed", NEW f \in files[e]
               PROVE  <<e, f>> \in granted.g4
    BY DEF EdgesDoNotGrow
  <2>1. Status(e) = "baselined"
    BY DEF EdgeError, Status
  <2>2. f \in Snapshot(e)
    BY <2>1 DEF EdgeError, BaselinedEdgeError
  <2>3. PICK p \in LoadRatchet.edges.val : p[1] = e /\ f = p[2]
    BY <2>2 DEF Snapshot
  <2>4. p \in granted.g4 /\ p \in Edges \X Files
    BY <2>3 DEF LoadRatchet, Absent, Inv, Grants, Shape
  <2> QED BY <2>3, <2>4
<1>2. ResolvedWhole
  BY DEF ResolvedWhole, Resolved, Evaluated
<1>3. HandoffSeesAll
  <2> SUFFICES ASSUME requireNoBaselinedDebt, omitted = {}, ~limit
               PROVE  /\ findings \subseteq Fresh(TRUE) /\ \A t \in Tokens : FreshTokens(t) = tokens[t]
                      /\ \A s \in open : <<s, def[s]>> \notin LoadRatchet.threats.val
    BY DEF HandoffSeesAll
  <2>1. Evaluated(TRUE) = findings
    BY DEF Evaluated
  <2>2. findings \subseteq Fresh(TRUE)
    BY <2>1 DEF Fresh, requireNoBaselinedDebt, BaselinedDebt, Baselined
  <2>3. ASSUME NEW t \in Tokens PROVE FreshTokens(t) = tokens[t]
    <3>1. tokens[t] \in Nat /\ RecordedCount(t) \in Nat
      BY DEF Inv, Shape, RecordedCount, LoadRatchet, Uncounted
    <3>2. BaselinedTokens(t) = 0
      BY DEF requireNoBaselinedDebt, BaselinedDebt
    <3> QED BY <3>1, <3>2 DEF BaselinedTokens, FreshTokens
  <2>4. \A s \in open : <<s, def[s]>> \notin LoadRatchet.threats.val
    BY DEF requireNoBaselinedDebt, BaselinedDebt, ThreatTolerated
  <2> QED BY <2>2, <2>3, <2>4
<1>4. ASSUME ~Damage PROVE DebtGranted /\ ThreatRearmed
  <2>1. LoadRatchet.rules = ratchet.rules /\ LoadRatchet.undeclared = ratchet.undeclared /\ LoadRatchet.threats = ratchet.threats
    BY <1>4 DEF Inv, Shape, Kept, LoadRatchet
  <2> QED BY <1>4, <2>1 DEF Inv, Grants, DebtGranted, ThreatRearmed, ThreatTolerated, RecordedCount
<1> QED BY <1>1, <1>2, <1>3, <1>4

\* What a step does to the file.
LEMMA StepKeeps ==
  ASSUME Inv, [Next]_vars, Parts \subseteq AllParts
  PROVE  StaysArmed /\ (~Damage => SectionsKept)
<1>1. ASSUME NEW sel \in (SUBSET Parts) \ {{}}, NEW impl \in BOOLEAN, NEW grow \in BOOLEAN, baseline(sel, impl, grow),
             RatchetArmsImports
      PROVE  RatchetArmsImports'
  <2>1. CASE "g4" \in sel
    <3>1. Records(sel, impl, grow)
      BY <1>1, Written
    <3> QED BY <2>1, <3>1 DEF Records, RatchetArmsImports, BuildBaseline, Section
  <2>2. CASE "g4" \notin sel
    <3>a. sel \subseteq AllParts /\ sel # {}
      BY <1>1
    <3>0. PICK x \in sel : x \in AllParts
      BY <3>a
    <3>1. sel \cap {"gy", "gl", "gz"} # {}
      BY <2>2, <3>0 DEF AllParts
    <3>2. ratchet.file # "malformed"
      BY <1>1, <3>1 DEF baseline, Refused, Unparsed
    <3>3. Records(sel, impl, grow)
      BY <1>1, Written
    <3>4. ratchet.file = "ok" /\ ratchet.edges.has = TRUE
      BY <1>1, <3>2 DEF RatchetArmsImports, Inv, Shape
    <3>5. ratchet'.file = "ok" /\ ratchet'.edges.has = TRUE
      BY <2>2, <3>3, <3>4 DEF Records, LoadRatchet
    <3> QED BY <3>5 DEF RatchetArmsImports
  <2> QED BY <2>1, <2>2
<1>2. ASSUME ratchet' = ratchet PROVE StaysArmed
  <2>1. ratchet'.file = ratchet.file /\ ratchet'.edges.has = ratchet.edges.has /\ ratchet.edges.has \in BOOLEAN
    BY <1>2 DEF Inv, Shape
  <2> QED BY <2>1 DEF StaysArmed, RatchetArmsImports
<1>3. ASSUME Conflict PROVE StaysArmed
  BY <1>3 DEF Conflict, StaysArmed, RatchetArmsImports, Inv, Shape
<1>4. StaysArmed
  <2>1. CASE \E sel \in (SUBSET Parts) \ {{}}, impl, grow \in BOOLEAN : baseline(sel, impl, grow)
    BY <1>1, <2>1 DEF StaysArmed
  <2>2. CASE ~\E sel \in (SUBSET Parts) \ {{}}, impl, grow \in BOOLEAN : baseline(sel, impl, grow)
    <3>1. ratchet' = ratchet \/ Conflict
      BY <2>2 DEF Next, vars, EditCode, EditContract, EditDesign, BreakRow, HitLimit, EditLedger, EditToken, EditModel
    <3> QED BY <1>2, <1>3, <3>1
  <2> QED BY <2>1, <2>2
<1>5. ASSUME ~Damage PROVE SectionsKept
  <2> SUFFICES ASSUME NEW sel \in (SUBSET Parts) \ {{}}, NEW impl \in BOOLEAN, NEW grow \in BOOLEAN, baseline(sel, impl, grow)
               PROVE  /\ ("g4" \in sel \/ ratchet'.edges = ratchet.edges) /\ ("gy" \in sel \/ ratchet'.rules = ratchet.rules)
                      /\ ("gl" \in sel \/ ratchet'.undeclared = ratchet.undeclared) /\ ("gz" \in sel \/ ratchet'.threats = ratchet.threats)
    BY DEF SectionsKept
  <2>1. /\ LoadRatchet.rules = ratchet.rules /\ LoadRatchet.undeclared = ratchet.undeclared
        /\ LoadRatchet.threats = ratchet.threats /\ LoadRatchet.edges = ratchet.edges
    BY <1>5 DEF Inv, Shape, Kept, LoadRatchet
  <2>2. Records(sel, impl, grow)
    BY Written
  <2> QED BY <2>1, <2>2 DEF Records
<1> QED BY <1>4, <1>5

\* Edges are tolerated only as they were granted, and a handoff sees all debt, over
\* any sequence of edits and recordings; so are rules, facts and threats as long
\* as the file cannot be damaged (machinery baseline and the gates).
THEOREM DebtOnlyShrinks ==
  Spec => [](EdgesDoNotGrow /\ ResolvedWhole /\ HandoffSeesAll /\ (~Damage => DebtGranted /\ ThreatRearmed))
<1>1. Init => Inv
  BY InitInv
<1>2. Inv /\ [Next]_vars => Inv'
  BY StepInv
<1>3. Inv => EdgesDoNotGrow /\ ResolvedWhole /\ HandoffSeesAll /\ (~Damage => DebtGranted /\ ThreatRearmed)
  BY Tolerated
<1> QED BY <1>1, <1>2, <1>3, PTL DEF Spec

\* Once armed, the import gate stays armed, and if the file cannot be damaged a
\* recording rewrites only the sections of the gates it names (machinery baseline
\* --gates).
THEOREM RecordingsKeep ==
  Parts \subseteq AllParts => (Spec => [][StaysArmed /\ (~Damage => SectionsKept)]_vars)
<1> SUFFICES ASSUME Parts \subseteq AllParts PROVE Spec => [][StaysArmed /\ (~Damage => SectionsKept)]_vars
  OBVIOUS
<1>1. Init => Inv
  BY InitInv
<1>2. Inv /\ [Next]_vars => Inv'
  BY StepInv
<1>3. Inv /\ [Next]_vars => StaysArmed /\ (~Damage => SectionsKept)
  BY StepKeeps
<1> QED BY <1>1, <1>2, <1>3, PTL DEF Spec
=============================================================================
