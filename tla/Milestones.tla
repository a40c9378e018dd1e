----------------------------- MODULE Milestones ------------------------------
(* How a planned milestone is handed out and taken back.  The slice map cuts *)
(* a milestone into packets for executors (Gw-packet), and acceptance/M<n>   *)
(* records the review that closes it (Ga-accept), bound to the repository's  *)
(* history, which moves while the gate runs.  The design is read from one    *)
(* snapshot; git is asked live.                                              *)
EXTENDS BuildPlan

CONSTANTS
  Elements0,   \* how often a cited element occurs outside BUILD/ and oracles
  History,     \* the commits that a commit reaches, itself among them
  Names        \* the object names of commits, prefixes included

\* A desk also holds the slice map (map) and the record (record) that authors
\* start from, what they may write in them (slice, entry), the anchors that a
\* caller may supply ("" for none), where HEAD may stand at first (heads), where
\* the design may sit ("repository", "unborn", "outside": gits), and how often
\* the history moves during a run (moves).

VARIABLES
  cut,         \* the slice map: entries of [num, slices, waivers]
  elements,    \* how often each other cited element occurs
  accept,      \* milestone number |-> its acceptance record
  git,         \* the repository: [state, head, objects]
  run          \* the run of the gates: its steps and what they found

vars == <<desk, plan, edits, cut, elements, accept, git, run>>
Commits == DOMAIN History

(* ------------------------------------------------------------- packets --- *)

\* The projection reads the blocks of the plan section; unlike Gb and Ga it
\* takes a section that opens with N/A for waived only when it has no blocks.
planBlocksOf == IF plan.sections = 0 THEN <<>> ELSE plan.blocks
Declared == Elements(Map(planBlocksOf, LAMBDA b : b.num))
RootBlock(n) == First(planBlocksOf, n)

\* Rows without a stable id are not indexed; an id of two rows is ambiguous.
Indexed == {r \in plan.rows : r.stable # "-"}
oracleByID(id) == {r \in Indexed : id # "-" /\ id \in {r.test, r.stable}}
IndexFindings == {<<"ambiguous id", id>> : id \in {i \in UNION {{r.test, r.stable} : r \in Indexed} :
                                                     Cardinality(oracleByID(i)) > 1}}

\* What a milestone owes: the rows its DoD cites by either id or as a set.
CitedBy(r, dod) == (({r.test, r.stable} \ {"-"}) \cup {r.set}) \cap dod # {}
milestoneObligations(b) == {r.stable : r \in {x \in Indexed : CitedBy(x, b.dod)}}

\* What a slice claims: the rows it cites by an id or as a set.
RowsOf(c) == CASE c.kind = "id" -> oracleByID(c.key)
               [] c.kind = "oracleset" -> {r \in Indexed : r.set = c.rel}
               [] OTHER -> {}
claimedRows(sl) == {r.stable : r \in UNION {RowsOf(c) : c \in Elements(sl.cites)}}

\* An obligation has one slice, or a waiver with a reason, and never both; a
\* waiver of what is not owed is stale.
claimLedger(ms, owed) ==
  LET by(id) == {i \in DOMAIN ms.slices : id \in claimedRows(ms.slices[i])}
      waives(w) == {r.stable : r \in oracleByID(w)}
      waived == UNION {waives(ms.waivers[i]) : i \in DOMAIN ms.waivers}
  IN {<<"waiver", w>> : w \in {x \in Elements(ms.waivers) : waives(x) = {} \/ ~(waives(x) \subseteq owed)}}
     \cup If(\E i, j \in DOMAIN ms.waivers : i # j /\ waives(ms.waivers[i]) \cap waives(ms.waivers[j]) # {},
             <<"waived twice", ms.num>>)
     \cup {<<"claimed twice", id>> : id \in {x \in owed : Cardinality(by(x)) > 1}}
     \cup {<<"claimed and waived", id>> : id \in {x \in owed : Cardinality(by(x)) = 1 /\ x \in waived}}
     \cup {<<"unclaimed", id>> : id \in {x \in owed : by(x) = {} /\ x \notin waived}}

\* A slice takes sections, plan blocks and table rows from no other shard.
shardBound(sl, c) == c.rel \in Files => c.rel = sl.shard

\* How often the place that a citation names occurs in a document that is
\* there: sections and table rows are unique, the items of the contract and of
\* the domain model are the first of their id.
file(rel) == rel \in Files => plan.file[rel] # Missing
Occurs(c) == IF file(c.rel) /\ c \in DOMAIN elements THEN elements[c] ELSE 0
sectionRange(c) == Occurs(c) = 1
tableRowExcerpt(c) == Occurs(c) = 1
contractItem(c) == Occurs(c) >= 1
contractRule(c) == Occurs(c) >= 1
invariantExcerpt(c) == Occurs(c) >= 1
MilestoneBlock(c, num) == IF c.rel = "BUILD.md" THEN num \in Declared ELSE file(c.rel) /\ num \in plan.file[c.rel].items

\* A citation resolves to one excerpt.
resolve(sl, c, num) ==
  CASE c.kind \in {"id", "oracleset"} -> RowsOf(c) # {}
    [] c.kind = "section" -> shardBound(sl, c) /\ sectionRange(c)
    [] c.kind = "milestone" -> shardBound(sl, c) /\ MilestoneBlock(c, num)
    [] c.kind = "row" -> shardBound(sl, c) /\ tableRowExcerpt(c)
    [] c.kind = "file" -> IF c.rel \in Files THEN file(c.rel) ELSE Occurs(c) >= 1
    [] c.kind = "matrix" -> Occurs(c) >= 1
    [] c.kind \in {"boundary", "external"} -> contractItem(c)
    [] c.kind = "rule" -> contractRule(c)
    [] c.kind = "invariant" -> invariantExcerpt(c)
    [] OTHER -> FALSE

\* The bytes of a packet grow with its obligations and its excerpts.
Size(sl, owed) == Cardinality(owed) + Len(sl.cites)
                  + Cardinality(UNION {RowsOf(c) : c \in {x \in Elements(sl.cites) : x.kind = "oracleset"}})

projectSlice(ms, sl, owed) ==
  {<<"citation", c>> : c \in {x \in Elements(sl.cites) : ~resolve(sl, x, ms.num)}}
  \cup If(Size(sl, owed) > sl.budget, <<"budget", sl.id>>)

\* The shape of the map: ids, shards, budgets, citations stated once.  Any
\* finding here ends the projection.
packetRelPath(path) == path = "BUILD.md" \/ path \in Files
SliceFindings(ms, sl) ==
  If(sl.id[1] # ms.num, <<"slice id", sl.id>>)
  \cup If(~packetRelPath(sl.shard) \/ ~file(sl.shard), <<"shard", sl.id>>)
  \cup If(sl.budget <= 0, <<"no budget", sl.id>>)
  \cup If(sl.cites = <<>> \/ Repeats(sl.cites) # {}, <<"cites", sl.id>>)
  \cup If(Repeats(sl.fixtures) # {}, <<"fixtures", sl.id>>)
loadSliceMap ==
  {<<"milestone twice", n>> : n \in Repeats(Map(cut, LAMBDA ms : ms.num))}
  \cup (UNION {If(cut[i].slices = <<>>, <<"no slices", cut[i].num>>) : i \in DOMAIN cut})
  \cup (UNION {UNION {SliceFindings(cut[i], sl) : sl \in Elements(cut[i].slices)} : i \in DOMAIN cut})
  \cup {<<"slice twice", id>> : id \in UNION {Repeats(Map(cut[i].slices, LAMBDA sl : sl.id)) : i \in DOMAIN cut}}

\* Every slice that binds a fixture learns of all the others.
fixtureConsumers(f) == {sl.id : sl \in {x \in UNION {Elements(cut[i].slices) : i \in DOMAIN cut} : f \in Elements(x.fixtures)}}

\* The whole map is held whatever slice was asked for.
MilestoneFindings(ms) ==
  IF ms.num \notin Declared THEN {<<"undeclared", ms.num>>}
  ELSE LET owed == milestoneObligations(RootBlock(ms.num))
       IN claimLedger(ms, owed) \cup UNION {projectSlice(ms, sl, owed) : sl \in Elements(ms.slices)}
ProjectPackets ==
  IF loadSliceMap # {} THEN loadSliceMap
  ELSE IF planBlocksOf = <<>> THEN {<<"no plan", "BUILD.md">>}
  ELSE IndexFindings \cup UNION {MilestoneFindings(cut[i]) : i \in DOMAIN cut}

\* A packet: what its milestone owes, the rows and documents it excerpts, the
\* fixtures it shares and the ids that its acceptance entry lists.
Packet(ms, sl) ==
  [slice |-> sl.id, owed |-> milestoneObligations(RootBlock(ms.num)),
   rows |-> UNION {RowsOf(c) : c \in Elements(sl.cites)},
   drawn |-> {c \in Elements(sl.cites) : c.kind \notin {"id", "oracleset"}},
   fixtures |-> [f \in Elements(sl.fixtures) |-> fixtureConsumers(f)]]
Packets == IF ProjectPackets # {} THEN {}
           ELSE UNION {{Packet(cut[i], sl) : sl \in Elements(cut[i].slices)} : i \in DOMAIN cut}

(* ---------------------------------------------------------- acceptance --- *)

\* A file that was not read right is present and holds no record.
Present == {n \in DOMAIN accept : accept[n] # Missing}
acceptThreatReview(n) == If(\E i \in DOMAIN accept[n].review : accept[n].review[i].adversary = "nobody", <<"review row", n>>)
parseAcceptance(n) ==
  LET r == accept[n]
  IN If(r.num # n, <<"record number", n>>)
     \cup If(r.verdict \notin {"ACCEPTED", "REJECTED"}, <<"verdict", n>>)
     \cup If(r.commit \notin DOMAIN Names \cup {"unknown"}, <<"commit name", n>>)
     \cup If(r.verdict = "ACCEPTED" /\ ~r.attested, <<"attests nothing", n>>)
Records == {n \in Present : parseAcceptance(n) = {}}
Closed == {n \in Numbers : BlockOf(n).status = "closed"}

\* Any committed oracle id may be cited and listed, by either column.
acceptanceOracleIDs == (UNION {{r.test, r.stable} : r \in plan.rows}) \ {"-"}
StableOf(set) == {r.stable : r \in {x \in plan.rows : x.set = set}} \ {"-"}
Sets == {r.set : r \in Rows}

\* The ids that the evidence lists are exactly those that the DoD names, as it
\* names them, with its sets expanded to stable ids.
checkDoDCoverage(dod, listed) ==
  LET cited == (acceptanceOracleIDs \cap dod) \cup UNION {StableOf(s) : s \in Sets \cap dod}
  IN {<<"repeated id", id>> : id \in Repeats(listed)}
     \cup {<<"unknown id", id>> : id \in Elements(listed) \ acceptanceOracleIDs}
     \cup If("ORACLESET" \in dod, <<"marker", "BUILD.md">>)
     \cup {<<"empty set", s>> : s \in {x \in Sets \cap dod : StableOf(x) = {}}}
     \cup {<<"omitted id", id>> : id \in cited \ Elements(listed)}
     \cup {<<"foreign id", id>> : id \in (Elements(listed) \cap acceptanceOracleIDs) \ cited}

\* A review is owed by a milestone whose texts, taken together, name a subject,
\* unless the evidence is older than the ledger's adoption.
Text(b) == LET ts == {d.text : d \in milestoneThreatDocs(b)} IN [names |-> UNION {t.names : t \in ts}]
exitStatusOnly(reason) == reason = "exit"
checkThreatReview(n) ==
  LET r == accept[n]
      rows == {v \in Elements(r.review) : v.adversary # "nobody"}
      names == named(Text(BlockOf(n)))
      owed == {x \in loadThreatScope.rows : x.subject \in names /\ x.kind # "n/a"}
      reviewed(x) == \E v \in rows : v.subject = x.subject /\ v.adversary = x.adversary
  IN IF r.verdict # "ACCEPTED" \/ names = {} \/ (loadThreatScope.ledger /\ r.date < plan.threats.since) THEN {}
     ELSE {<<"reason", n>> : v \in {w \in rows : exitStatusOnly(w.expected) \/ exitStatusOnly(w.observed)
                                                  \/ w.expected # w.observed}}
          \cup {<<"no probe", x>> : x \in {y \in owed : ~reviewed(y)}}
          \cup If(~loadThreatScope.ledger /\ rows = {}, <<"no review", n>>)

\* Where git stands when it is asked.
Full(name) == IF name \in DOMAIN Names THEN Names[name] ELSE "unknown"
gitCommitOf(name) == IF Full(name) \in git.objects THEN Full(name) ELSE None

\* The anchor of the history: the supplied one, which a repository must hold,
\* or HEAD.  A staged run may go on without one when there is no commit.
resolveReviewCommitExact(given) ==
  CASE given = "" /\ git.state = "repository" -> [commit |-> git.head, by |-> "git"]
    [] given = "" /\ git.state # "repository" -> [commit |-> None, by |-> git.state]
    [] given # "" /\ git.state = "outside" -> [commit |-> given, by |-> "exported"]
    [] given # "" /\ git.state = "repository" /\ gitCommitOf(given) # None ->
         [commit |-> gitCommitOf(given), by |-> "caller"]
    [] OTHER -> [commit |-> None, by |-> "failed"]
resolveReviewCommit(given) ==
  LET r == resolveReviewCommitExact(given)
  IN IF r.by \in {"outside", "unborn"} THEN [commit |-> None, by |-> "absent"] ELSE r

\* Two names bind outside git when one opens the other.
commitBinds(e, g) == e = g \/ (Full(e) # "unknown" /\ Full(e) = Full(g))

\* Inside, the evidence commit is one the anchor reaches.  An object that was
\* pruned meanwhile makes the question fail, and so the gate.
gitIsAncestor(c, head) == {c, head} \subseteq git.objects /\ c \in History[head]
checkCommitBinding(n, anchor) ==
  CASE anchor.commit = None -> {}
    [] anchor.commit # None /\ anchor.by = "exported" -> If(~commitBinds(accept[n].commit, anchor.commit), <<"binding", n>>)
    [] OTHER -> If(gitCommitOf(accept[n].commit) = None
                   \/ ~gitIsAncestor(gitCommitOf(accept[n].commit), anchor.commit), <<"ancestry", n>>)

\* What the snapshot alone decides.
ClosureFindings ==
  {<<"no evidence", n>> : n \in Closed \ Present}
  \cup {<<"rejected", n>> : n \in {m \in Closed \cap Records : accept[m].verdict = "REJECTED"}}
checkAcceptance ==
  (UNION {parseAcceptance(n) \cup acceptThreatReview(n) : n \in Present})
  \cup {<<"unplanned", n>> : n \in Records \ Numbers}
  \cup (UNION {checkDoDCoverage(BlockOf(n).dod, accept[n].dod) : n \in Records \cap Numbers})
  \cup report(UNION {checkThreatReview(n) : n \in Records \cap Numbers})
  \cup ClosureFindings

\* Which commits are bound: those of closed milestones that were accepted, and
\* those of every other record of a planned milestone.
Bound == {n \in Records \cap Numbers : n \notin Closed \/ accept[n].verdict = "ACCEPTED"}
AcceptanceActive == Present # {} \/ Closed # {}

(* ------------------------------------------------------------- actions --- *)

Write ==
  /\ run.pc = "author" /\ edits < MaxEdits /\ edits' = edits + 1
  /\ \/ /\ \E i \in DOMAIN cut : \E j \in DOMAIN cut[i].slices : \E e \in desk.slice :
             cut' = [cut EXCEPT ![i].slices[j][e[1]] = e[2]]
        /\ UNCHANGED <<plan, elements, accept>>
     \/ /\ \E i \in DOMAIN cut, id \in acceptanceOracleIDs :
             cut' = [cut EXCEPT ![i].waivers = IF @ = <<>> THEN <<id>> ELSE <<>>]
        /\ UNCHANGED <<plan, elements, accept>>
     \/ /\ \E c \in DOMAIN elements, k \in 0..2 : elements' = [elements EXCEPT ![c] = k]
        /\ UNCHANGED <<plan, cut, accept>>
     \/ /\ \E n \in DOMAIN accept : \/ accept' = [accept EXCEPT ![n] = IF @ = Missing THEN desk.record ELSE Missing]
                                    \/ /\ accept[n] # Missing
                                       /\ \E e \in desk.entry : accept' = [accept EXCEPT ![n][e[1]] = e[2]]
        /\ UNCHANGED <<plan, cut, elements>>
  /\ UNCHANGED <<desk, git, run>>

Revise == run.pc = "author" /\ Author /\ UNCHANGED <<cut, elements, accept, git, run>>

\* The snapshot is taken and Gb and Gw are decided on it; what Ga finds there
\* is decided too.
Acquire ==
  \E given \in desk.anchors, handoff \in BOOLEAN :
    /\ run.pc = "author"
    /\ run' = [run EXCEPT !.pc = "resolve", !.given = given, !.handoff = handoff, !.heads = {git.head},
                          !.gb = CheckBuildPlan, !.gw = ProjectPackets, !.ga = checkAcceptance]
    /\ UNCHANGED <<desk, plan, edits, cut, elements, accept, git>>

\* A question to git may also time out, fail or answer something unreadable,
\* which is never taken for an answer.
GitFails == desk.moves > 0

\* The anchor is read once, by a final handoff always and by a staged run when
\* there is something to bind.
Resolve ==
  LET r == IF run.handoff THEN resolveReviewCommitExact(run.given) ELSE resolveReviewCommit(run.given)
      idle == ~run.handoff /\ Closed = {} /\ Records \cap Numbers = {}
  IN /\ run.pc = "resolve"
     /\ \/ run' = IF idle THEN [run EXCEPT !.pc = "bind"]
                  ELSE [run EXCEPT !.pc = "bind", !.anchor = r,
                                   !.ga = @ \cup If(r.commit = None /\ r.by # "absent", <<"anchor", r.by>>)]
        \/ ~idle /\ GitFails /\ run' = [run EXCEPT !.pc = "bind", !.ga = @ \cup {<<"anchor", "git">>}]
     /\ UNCHANGED <<desk, plan, edits, cut, elements, accept, git>>

Bind ==
  /\ run.pc = "bind"
  /\ \/ run' = [run EXCEPT !.pc = "done", !.ga = @ \cup UNION {checkCommitBinding(n, run.anchor) : n \in Bound}]
     \/ /\ run.anchor.by \in {"git", "caller"} /\ Bound # {} /\ GitFails
        /\ run' = [run EXCEPT !.pc = "done", !.ga = @ \cup {<<"binding", "git">>}]
  /\ UNCHANGED <<desk, plan, edits, cut, elements, accept, git>>

\* HEAD moves to a commit that is there or new, and what it left may be pruned.
MoveHead ==
  /\ git.state = "repository" /\ run.pc \in {"resolve", "bind"} /\ run.moves < desk.moves
  /\ \E c \in Commits, prune \in BOOLEAN :
       git' = [git EXCEPT !.head = c, !.objects = IF prune THEN History[c] ELSE @ \cup History[c]]
  /\ run' = [run EXCEPT !.moves = @ + 1, !.heads = @ \cup {git'.head}]
  /\ UNCHANGED <<desk, plan, edits, cut, elements, accept>>

Init ==
  /\ AuthorInit /\ cut = desk.map /\ elements = Elements0
  /\ \E r \in {Missing, desk.record} : accept = [n \in {0, 1} |-> IF n = 0 THEN r ELSE Missing]
  /\ \E s \in desk.gits, h \in desk.heads : git = [state |-> s, head |-> h, objects |-> Commits]
  /\ run = [pc |-> "author", given |-> "", handoff |-> FALSE, anchor |-> [commit |-> None, by |-> "absent"],
            heads |-> {}, moves |-> 0, gb |-> {}, gw |-> {}, ga |-> {}]
Next == Write \/ Revise \/ Acquire \/ Resolve \/ Bind \/ MoveHead
Spec == Init /\ [][Next]_vars

(* ---------------------------------------------------------- properties --- *)

Done(found) == run.pc = "done" /\ found = {}

\* The rows that a milestone must prove, read off the plan.
Owed(b) == {r \in plan.rows : r.stable # "-" /\ CitedBy(r, b.dod)}

\* Packets that are handed out drop nothing: every row that their milestone
\* owes is excerpted in one packet, or waived by name and in none.
NothingDropped ==
  Done(run.gw) =>
    \A i \in DOMAIN cut : \A r \in Owed(RootBlock(cut[i].num)) :
      LET with == {j \in DOMAIN cut[i].slices : r \in Packet(cut[i], cut[i].slices[j]).rows}
      IN IF with = {} THEN \E w \in Elements(cut[i].waivers) : w \in {r.test, r.stable}
         ELSE /\ Cardinality(with) = 1
              /\ \A w \in Elements(cut[i].waivers) : w \notin {r.test, r.stable}

\* An executor reads no other shard, unless the map cites a whole file of it:
\* a file: citation is not held to the slice's shard.
ShardConfined ==
  Done(run.gw) =>
    \A i \in DOMAIN cut : \A sl \in Elements(cut[i].slices) : \A c \in Packet(cut[i], sl).drawn :
      (c.rel \in Files /\ c.kind # "file") => c.rel = sl.shard

\* Every packet that shares a fixture names all of its consumers.
FixturesShared ==
  Done(run.gw) =>
    \A p, q \in Packets : \A f \in DOMAIN p.fixtures \cap DOMAIN q.fixtures : q.slice \in p.fixtures[f]

\* The entry that a packet tells its executor to write is the one that Ga asks
\* for, unless the DoD cites a row by its test id, which the packet replaces by
\* the stable id and Ga does not, or names a set that is not there, which the
\* packet passes over.
TemplateFits ==
  Done(run.gw) =>
    \A i \in DOMAIN cut :
      LET dod == RootBlock(cut[i].num).dod
          excused == (\E r \in plan.rows : r.test \in dod) \/ "ORACLESET" \in dod
                     \/ (\E s \in Sets \cap dod : StableOf(s) = {})
      IN excused \/ \A ids \in [1..Cardinality(milestoneObligations(RootBlock(cut[i].num))) ->
                                  milestoneObligations(RootBlock(cut[i].num))] :
                      Repeats(ids) = {} => checkDoDCoverage(dod, ids) = {}

\* A milestone that is closed where Ga passes was accepted on a commit that a
\* HEAD of the run, or the supplied anchor, reaches, by a review that lists
\* every row the milestone owes; only a staged run without any commit binds to
\* no history, and a final handoff never does.
ClosedMeansReviewed ==
  Done(run.ga) =>
    /\ run.handoff => run.anchor.commit # None
    /\ \A n \in Closed :
         /\ accept[n] # Missing /\ accept[n].num = n /\ accept[n].verdict = "ACCEPTED" /\ accept[n].attested
         /\ \A r \in Owed(BlockOf(n)) : {r.test, r.stable} \cap Elements(accept[n].dod) # {}
         /\ CASE run.given = "" /\ git.state = "repository" -> \E h \in run.heads : Full(accept[n].commit) \in History[h]
              [] run.given = "" /\ git.state # "repository" -> ~run.handoff
              [] run.given # "" /\ git.state = "repository" -> Full(accept[n].commit) \in History[Full(run.given)]
              [] OTHER -> commitBinds(accept[n].commit, run.given)

\* Between them the gates leave no adversary out: where Gb and Ga both pass
\* under an enforcing ledger, each one of a subject that a milestone's texts
\* name is answered in the plan while the milestone is open, and was probed and
\* refused for the expected reason once it is closed, history apart.
ThreatsMet ==
  (Done(run.ga) /\ run.gb = {} /\ Enforced /\ ~parentManifest) =>
    \A n \in Numbers : \A text \in Given(BlockOf(n)) : \A r \in plan.threats.rows :
      (r.kind # "n/a" /\ {r.subject, r.invariant} \cap text.names # {}) =>
        IF n \notin Closed THEN Covered(text, r)
        ELSE \/ accept[n].date < plan.threats.since
             \/ \E i \in DOMAIN accept[n].review :
                  LET v == accept[n].review[i]
                  IN v.subject = r.subject /\ v.adversary = r.adversary /\ v.expected = v.observed /\ v.expected # "exit"

(* ------------------------------------------------------------- invariant --- *)
(* Why accepted documents hold: an inductive invariant.                         *)

\* A sequence, and a block that was parsed.
Sequential(s) == s = [i \in 1 .. Len(s) |-> s[i]] /\ Len(s) \in Nat
BlockShaped(b) == "links" \in DOMAIN b /\ b = [x \in DOMAIN b |-> b[x]] /\ Sequential(b.links)

\* A plan that was parsed: a sequence of blocks, with a sequence of links each,
\* and committed rows.  Nothing is said of the fields that no proof looks at.
PlanShaped(p) ==
  /\ {"blocks", "rows"} \subseteq DOMAIN p /\ p = [x \in DOMAIN p |-> p[x]]
  /\ Sequential(p.blocks) /\ Len(p.blocks) > 0 /\ \A i \in 1 .. Len(p.blocks) : BlockShaped(p.blocks[i])
  /\ p.rows \subseteq Rows

\* A slice map that was parsed.
CutShaped(c) == /\ c = [i \in DOMAIN c |-> c[i]]
                /\ \A i \in DOMAIN c : /\ {"slices"} \subseteq DOMAIN c[i] /\ c[i] = [x \in DOMAIN c[i] |-> c[i][x]]
                                       /\ Sequential(c[i].slices)

\* The authors put sequences where the parser makes sequences, HEAD stands at a
\* commit, and no anchor is the name of the missing one.
DeskShaped(d) ==
  /\ PlanShaped(d.plan) /\ CutShaped(d.map)
  /\ \A e \in d.block : e[1] = "links" => Sequential(e[2])
  /\ \A e \in d.rest : e[1] \notin {"blocks", "rows"}
  /\ d.heads \subseteq Commits /\ None \notin d.anchors
  /\ d.gits \subseteq {"repository", "unborn", "outside"}

\* Elements of the architecture and of the domain model are not under BUILD/.
WellFormed ==
  /\ \A d \in Desks : DeskShaped(d)
  /\ IsFiniteSet(Rows) /\ None \notin Commits
  /\ \A c \in DOMAIN Elements0 : c.kind \in {"matrix", "boundary", "external", "rule", "invariant"} => c.rel \notin Files

\* The anchor is where the run began or where it was told to look: a HEAD that
\* the run met, or the commit of the name that the caller supplied.
Anchored ==
  /\ run.given = "" /\ git.state = "repository" => run.anchor.by = "git" /\ run.anchor.commit \in run.heads \cap Commits
  /\ run.given = "" /\ git.state # "repository" => ~run.handoff
  /\ run.given # "" => git.state # "unborn"
  /\ run.given # "" /\ git.state = "outside" => run.anchor = [commit |-> run.given, by |-> "exported"]
  /\ run.given # "" /\ git.state = "repository" =>
       run.anchor.by = "caller" /\ run.anchor.commit = Full(run.given) /\ run.anchor.commit # None

Shape ==
  /\ desk \in Desks /\ PlanShaped(plan) /\ CutShaped(cut) /\ DOMAIN elements = DOMAIN Elements0
  /\ git = [state |-> git.state, head |-> git.head, objects |-> git.objects]
  /\ git.state \in {"repository", "unborn", "outside"} /\ git.head \in Commits
  /\ run = [pc |-> run.pc, given |-> run.given, handoff |-> run.handoff, anchor |-> run.anchor, heads |-> run.heads,
            moves |-> run.moves, gb |-> run.gb, gw |-> run.gw, ga |-> run.ga]
  /\ run.pc \in {"author", "resolve", "bind", "done"} /\ run.handoff \in BOOLEAN

\* The snapshot was judged: what the gates found is what they find on it.
Judged == run.pc # "author" =>
            /\ run.gb = CheckBuildPlan /\ run.gw = ProjectPackets /\ checkAcceptance \subseteq run.ga
            /\ git.head \in run.heads /\ run.given \in desk.anchors

\* Where Ga passes, the anchor was read and every bound commit was held to it,
\* though HEAD may have moved since.
Asked == run.pc \in {"bind", "done"} /\ run.ga = {} /\ (Closed # {} \/ run.handoff) => Anchored
Settled == run.pc = "done" /\ run.ga = {} => \A n \in Bound : checkCommitBinding(n, run.anchor) = {}
Inv == Shape /\ Judged /\ Asked /\ Settled
==============================================================================
