------------------------------ MODULE BuildPlan ------------------------------
(* What Gb-plan holds a build plan to: BUILD.md is parsed into a sequence of *)
(* milestone blocks, a manifest binds each block to the files under BUILD/   *)
(* (one packet each, or a matrix of shards), and every open block whose text *)
(* names a security-relevant subject answers the threat ledger.  A finding   *)
(* is a pair <<rule, where>>; the gate passes when it has none.  Authors     *)
(* edit the documents one place at a time.                                   *)
EXTENDS Naturals, Sequences, FiniteSets

CONSTANTS
  Files,      \* the paths under BUILD/ that a manifest may link
  Prefix,     \* the milestone number that opens a file's basename
  Rows,       \* oracle rows: [set, test, stable], "-" for a cell without an id
  Desks,      \* what the authors may start from and what they may write
  MaxEdits    \* how many places they change

VARIABLES
  desk,       \* the authors' desk in this behaviour
  plan,       \* BUILD.md, BUILD/, the committed oracle rows and the ledger
  edits       \* the number of places changed

None == "none"
Missing == [gone |-> TRUE]     \* a file that is not there
If(c, f) == IF c THEN {f} ELSE {}
Elements(s) == {s[i] : i \in DOMAIN s}
Positions(s, x) == {i \in DOMAIN s : s[i] = x}
Repeats(s) == {x \in Elements(s) : Cardinality(Positions(s, x)) > 1}
Map(s, F(_)) == [i \in DOMAIN s |-> F(s[i])]

(* ------------------------------------------------------------- parsing --- *)

\* The sections of the template, the disclaimer and the dictionary are
\* headings of a document; "build plan" is one of them.
Template == {"glossary", "tests"}
Inventory == {f \in Files : plan.file[f] # Missing}
Documents == {plan.root} \cup (IF plan.mode = "manifest" THEN {plan.file[f] : f \in Inventory} ELSE {})

\* The blocks of the one plan section.  A section that opens with N/A declares
\* no milestones, whatever follows.
buildPlanSection == plan.sections > 0
planMilestonesOf == IF ~buildPlanSection \/ plan.opening # "plan" THEN <<>> ELSE plan.blocks
Numbers == Elements(Map(planMilestonesOf, LAMBDA b : b.num))

\* The block that Ga and the slice map mean by a number: the first.
First(ms, n) == LET at == {i \in DOMAIN ms : ms[i].num = n} IN ms[CHOOSE i \in at : \A j \in at : i <= j]
BlockOf(n) == First(planMilestonesOf, n)

\* An id is cited as a whole token, at or after the DoD token of a block.
idTokenIn(id, dod) == id \in dod
dodIndex(b) == b.dod # {None}

\* Both id columns of the committed tables of the state machines.
planOracleIDs == (UNION {{r.test, r.stable} : r \in {x \in plan.rows : x.set # "formal"}}) \ {"-"}

\* An absent linkage is pairwise, and so is a repeated or misspelled one.
manifestLinkageMode ==
  IF Len(plan.linkage) = 1 /\ plan.linkage[1] \in {"pairwise", "matrix"} THEN plan.linkage[1] ELSE "pairwise"
LinkageFindings == If(Len(plan.linkage) > 1 \/ Elements(plan.linkage) \ {"pairwise", "matrix"} # {},
                      <<"linkage", "BUILD.md">>)

(* ----------------------------------------------------------- structure --- *)

checkTemplateSections == {<<"section", s>> : s \in {t \in Template : \A d \in Documents : t \notin d.headings}}
checkGatesDisclaimer == If("disclaimer" \notin plan.root.headings, <<"disclaimer", "BUILD.md">>)

\* One heading names the data dictionary, embedded copies apart.
checkDataDictionaryIdentity ==
  If(Cardinality({f \in Inventory : plan.mode = "manifest" /\ plan.file[f].dictionary = "own"})
     + (IF plan.root.dictionary = "own" THEN 1 ELSE 0) > 1, <<"dictionary", "BUILD.md">>)

\* The plan of the root: unique numbers, a definition of done and a readable
\* status in every block, and a walking skeleton first, which names the
\* mechanisms it instantiates and an oracle row that it proves.
checkPlanDoc ==
  LET ms == planMilestonesOf
      skeleton == ms # <<>> /\ ms[1].skeleton
  IN If(plan.sections # 1, <<"plan sections", "BUILD.md">>)
     \cup If(plan.sections > 0 /\ plan.opening = "n/a", <<"bare waiver", "BUILD.md">>)
     \cup (IF plan.sections = 0 \/ plan.opening # "plan" THEN {}
           ELSE If(ms = <<>>, <<"no milestone", "BUILD.md">>)
                \cup {<<"number", n>> : n \in Repeats(Map(ms, LAMBDA b : b.num))}
                \cup {<<"dod", b.num>> : b \in {x \in Elements(ms) : ~dodIndex(x)}}
                \cup {<<"status", b.num>> : b \in {x \in Elements(ms) : x.status \notin {"", "open", "closed"}}}
                \cup If(ms # <<>> /\ ~skeleton /\ ~plan.waived, <<"skeleton", "BUILD.md">>)
                \cup If(skeleton /\ ms[1].nfr # "named", <<"nfr", "BUILD.md">>)
                \cup If(skeleton /\ planOracleIDs # {} /\ ~\E id \in planOracleIDs : idTokenIn(id, ms[1].dod),
                        <<"skeleton citation", "BUILD.md">>))

(* ------------------------------------------------------------ manifest --- *)

\* A link is a direct path under BUILD/.
portablePacketPath(path) == path \in Files

\* Every milestone shows one observable result.
checkManifestDemos(ms) == {<<"demo", b.num>> : b \in {x \in Elements(ms) : x.demos # <<"shown">>}}

\* Pairwise: a milestone owns one packet, named after it, and every file under
\* BUILD/ is the packet of one milestone, complete, titled and without a plan
\* of its own.  The owner of a file is the last block that links it.
packetHeadingCounts(f) == plan.file[f].sections
checkPairwisePackets(ms) ==
  LET one == {i \in DOMAIN ms : Len(ms[i].links) = 1}
      path(i) == ms[i].links[1]
      good == {i \in one : portablePacketPath(path(i))}
      refs(f) == {i \in good : path(i) = f}
      owner(f) == ms[CHOOSE i \in refs(f) : \A j \in refs(f) : j <= i].num
  IN {<<"packet links", ms[i].num>> : i \in DOMAIN ms \ one}
     \cup {<<"packet path", ms[i].num>> : i \in one \ good}
     \cup {<<"packet name", ms[i].num>> : i \in {j \in good : Prefix[path(j)] # ms[j].num}}
     \cup {<<"packet shared", f>> : f \in {g \in Files : Cardinality(refs(g)) > 1}}
     \cup {<<"packet missing", f>> : f \in {g \in Files \ Inventory : refs(g) # {}}}
     \cup {<<"packet unlinked", f>> : f \in {g \in Inventory : refs(g) = {}}}
     \cup UNION {If(plan.file[f].size = "over", <<"packet size", f>>)
                 \cup If(plan.file[f].plan, <<"packet plan", f>>)
                 \cup If(plan.file[f].titles # <<owner(f)>>, <<"packet title", f>>)
                 \cup If(packetHeadingCounts(f) # "exact", <<"packet sections", f>>)
                 : f \in {g \in Inventory : refs(g) # {}}}

\* The milestones that a shard declares: one line, canonical and ascending.
parseShardMilestones(f) == IF Len(plan.file[f].declares) = 1 THEN Elements(plan.file[f].declares[1]) ELSE {}
ShardFindings(f, known) ==
  LET lines == plan.file[f].declares
      nums == IF Len(lines) = 1 THEN lines[1] ELSE <<>>
  IN If(Len(lines) # 1 \/ nums = <<>>, <<"shard line", f>>)
     \cup {<<"shard names", n>> : n \in Elements(nums) \ known}
     \cup If(\E i \in DOMAIN nums : i > 1 /\ nums[i] <= nums[i - 1], <<"shard order", f>>)

\* Matrix: the root and the shards state the same relation, and no side of it
\* is empty.
checkMatrixShards(ms) ==
  LET links(b) == {p \in Elements(b.links) : portablePacketPath(p)}
      linked(f) == {b.num : b \in {x \in Elements(ms) : f \in links(x)}}
  IN {<<"shard links", b.num>> : b \in {x \in Elements(ms) : x.links = <<>>}}
     \cup {<<"shard path", b.num>> : b \in {x \in Elements(ms) : Elements(x.links) \ Files # {}}}
     \cup {<<"shard repeated", b.num>> : b \in {x \in Elements(ms) : Repeats(x.links) # {}}}
     \cup {<<"shard missing", f>> : f \in {g \in Files \ Inventory : linked(g) # {}}}
     \cup UNION {If(linked(f) = {}, <<"shard unlinked", f>>)
                 \cup ShardFindings(f, {b.num : b \in Elements(ms)})
                 \cup If(linked(f) # parseShardMilestones(f), <<"shard reciprocal", f>>) : f \in Inventory}

checkManifestFiles ==
  LET ms == planMilestonesOf
  IN If(plan.sections = 0 \/ plan.opening # "plan", <<"manifest plan", "BUILD.md">>)
     \cup (IF ms = <<>> THEN {}
           ELSE checkManifestDemos(ms)
                \cup (IF manifestLinkageMode = "matrix" THEN checkMatrixShards(ms) ELSE checkPairwisePackets(ms)))

(* ------------------------------------------------------------- threats --- *)

\* The ledger, when there is one that parses; else the candidates that are
\* detected in the domain model, which never enforce anything.
loadThreatScope ==
  CASE plan.threats.state = "ledger" ->
         [ledger |-> TRUE, enforce |-> plan.threats.enforce, rows |-> plan.threats.rows,
          names |-> {r.subject : r \in plan.threats.rows}]
    [] plan.threats.state = "broken" -> [ledger |-> FALSE, enforce |-> FALSE, rows |-> {}, names |-> {}]
    [] OTHER -> [ledger |-> FALSE, enforce |-> FALSE, rows |-> {}, names |-> plan.threats.detected]

\* The subjects that a text names, by themselves or through an invariant.
subjectTokenIn(s, text) == s \in text.names
named(text) == {s \in loadThreatScope.names : subjectTokenIn(s, text)}
               \cup {r.subject : r \in {x \in loadThreatScope.rows : x.invariant \in text.names}}

\* A finding is an error under an enforcing ledger and a note otherwise.
report(f) == IF loadThreatScope.enforce THEN f ELSE {}

\* The rows that a text owes: everything but what is not applicable.
OwedRows(text) == {r \in loadThreatScope.rows : r.subject \in named(text) /\ r.kind # "n/a"}

\* The texts that carry a milestone's obligations: its block, its packet, or
\* each of its shards.  A file that is not there reads as empty.
NoText == [names |-> {}, criteria |-> <<>>, tables |-> {}, wrongly |-> <<>>]
FileText(f) == IF plan.file[f] = Missing THEN NoText ELSE plan.file[f].text
milestoneThreatDocs(b) ==
  CASE plan.mode # "manifest" -> {[label |-> b.num, text |-> b.text]}
    [] plan.mode = "manifest" /\ manifestLinkageMode # "matrix" /\ Len(b.links) # 1 -> {}
    [] OTHER -> {[label |-> f, text |-> FileText(f)] : f \in {p \in Elements(b.links) : portablePacketPath(p)}}

\* Every property that is accepted is followed by what must be refused.
checkPairedCriteria(d) ==
  LET c == d.text.criteria
      accepts == Positions(c, "accept")
      paired == {i \in accepts : i < Len(c) /\ c[i + 1] = "refuse"}
  IN If(accepts # paired \/ accepts = {}, <<"criteria", d.label>>)
     \cup If(\E i \in Positions(c, "refuse") : i = 1 \/ c[i - 1] # "accept", <<"orphan refusal", d.label>>)

\* A row of the threat table answers a row of the ledger when it names its
\* test, or the owner of its risk.
Answers(t, r) ==
  /\ t.adversary = r.adversary /\ t.subject \in {"-", r.subject}
  /\ IF r.kind = "test" THEN r.by = t.negative ELSE r.by \in {t.risk, t.negative}

\* What is written is held in every mode; what is missing only when enforced.
checkThreatTable(d) ==
  LET rows == UNION d.text.tables
  IN {<<"no closure", d.label>> : t \in {x \in rows : {x.negative, x.risk} \cap {"documented", "agreement"} # {}}}
     \cup report(If(rows = {}, <<"threat table", d.label>>)
                 \cup IF rows = {} THEN {}
                      ELSE {<<"threat row", <<d.label, r.subject, r.adversary>>>>
                            : r \in {x \in OwedRows(d.text) : ~\E t \in rows : Answers(t, x)}})

checkPassWrongly(d) == If(d.text.wrongly # <<"answer">>, <<"pass-wrongly", d.label>>)

\* Closed milestones are history; the others answer in each of their texts.
checkThreatMilestones ==
  LET ms == planMilestonesOf
      open == {i \in DOMAIN ms : ms[i].status \in {"", "open"}}
      first == {i \in open : plan.mode = "manifest" \/ ~\E j \in open : j < i /\ ms[j].num = ms[i].num}
      units == {d \in UNION {milestoneThreatDocs(ms[i]) : i \in first} : named(d.text) # {}}
  IN UNION {report(checkPairedCriteria(d) \cup checkPassWrongly(d)) \cup checkThreatTable(d) : d \in units}

(* ---------------------------------------------------------------- gate --- *)

\* The manifest of a decomposed design that has no files of its own is a table
\* of contents: its children carry the plans.
parentManifest == plan.mode = "manifest" /\ Inventory = {} /\ plan.decomposed
CheckBuildPlan ==
  (IF parentManifest THEN {} ELSE checkTemplateSections \cup checkGatesDisclaimer)
  \cup checkDataDictionaryIdentity
  \cup (IF plan.mode = "manifest" THEN LinkageFindings ELSE {})
  \cup (IF parentManifest THEN {}
        ELSE checkPlanDoc \cup (IF plan.mode = "manifest" THEN checkManifestFiles ELSE {}) \cup checkThreatMilestones)

(* -------------------------------------------------------------- author --- *)

\* One place of a block, of a file, or of the rest of the design.
Put(r, e) == [r EXCEPT ![e[1]] = e[2]]
EditedBlocks ==
  {[plan.blocks EXCEPT ![i] = Put(@, e)] : i \in DOMAIN plan.blocks, e \in desk.block}
  \cup {Append(plan.blocks, plan.blocks[1]), IF Len(plan.blocks) > 1 THEN Tail(plan.blocks) ELSE plan.blocks}
EditedFiles ==
  {[plan.file EXCEPT ![f] = Put(@, e)] : f \in Inventory, e \in desk.file}
  \cup {[plan.file EXCEPT ![f] = IF @ = Missing THEN desk.fresh ELSE Missing] : f \in Files}
EditedRows == {plan.rows \cup {r} : r \in Rows} \cup {plan.rows \ {r} : r \in Rows}
Edited == {<<"blocks", s>> : s \in EditedBlocks} \cup {<<"file", s>> : s \in EditedFiles}
          \cup {<<"rows", s>> : s \in EditedRows} \cup desk.rest
Author == /\ edits < MaxEdits
          /\ plan' \in {Put(plan, e) : e \in Edited} \ {plan}
          /\ edits' = edits + 1 /\ UNCHANGED desk
AuthorInit == desk \in Desks /\ plan = desk.plan /\ edits = 0

(* ---------------------------------------------------------- properties --- *)

\* An accepted manifest leaves no file and no milestone outside: pairwise, the
\* links are a bijection between the milestones and the files; in a matrix,
\* what the root links is what the shards declare, and neither side is empty.
Linked ==
  (CheckBuildPlan = {} /\ plan.mode = "manifest" /\ ~parentManifest) =>
    LET rel == {e \in Numbers \X Files : e[2] \in Elements(BlockOf(e[1]).links)}
        Files1(n) == {f \in Files : <<n, f>> \in rel}
        Nums1(f) == {n \in Numbers : <<n, f>> \in rel}
    IN /\ \A n \in Numbers : Files1(n) # {} /\ Files1(n) \subseteq Inventory
       /\ \A f \in Inventory : Nums1(f) # {}
       /\ IF manifestLinkageMode = "matrix"
          THEN \A f \in Inventory : plan.file[f].declares # <<>> /\ Nums1(f) = Elements(plan.file[f].declares[1])
          ELSE /\ \A f \in Inventory : Cardinality(Nums1(f)) = 1 /\ plan.file[f].titles[1] \in Nums1(f)
               /\ \A n \in Numbers : Cardinality(Files1(n)) = 1

\* The texts that an executor of a milestone is given.
Given(b) == IF plan.mode # "manifest" THEN {b.text} ELSE {FileText(f) : f \in Elements(b.links)}
Covered(text, r) == \E t \in UNION text.tables : Answers(t, r)
Enforced == plan.threats.state = "ledger" /\ plan.threats.enforce

\* Under an enforcing ledger an accepted plan has an answer to every adversary
\* of every subject that an open milestone's executor reads of, in the text
\* that names it, and a refusal beside every acceptance there.
ThreatsAnswered ==
  (CheckBuildPlan = {} /\ ~parentManifest /\ Enforced) =>
    \A b \in Elements(planMilestonesOf) : b.status # "closed" =>
      \A text \in Given(b) : \A r \in plan.threats.rows :
        (r.kind # "n/a" /\ {r.subject, r.invariant} \cap text.names # {}) =>
          /\ Covered(text, r)
          /\ \A i \in Positions(text.criteria, "accept") : text.criteria[i + 1] = "refuse"
          /\ "accept" \in Elements(text.criteria)
==============================================================================
