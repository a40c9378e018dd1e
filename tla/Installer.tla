------------------------------ MODULE Installer ------------------------------
(* What is installed where, and what the receipt says about it               *)
(* (internal/install: install.go, targets.go, receipt.go, update.go).  The   *)
(* skill and role documents of a release are placed in agent homes, as real  *)
(* files or as links to the canonical home of a group, and in the native     *)
(* adapters of Codex and OpenCode.  The receipt remembers the groups, the    *)
(* targets, the host plugins that an update owes a refresh, and a digest of  *)
(* every recorded artifact.  Every operation runs under the operation lock   *)
(* as one artifact transaction over the paths it lists up front; a failure   *)
(* restores those paths, up to what InstallTx shows, and so does the         *)
(* recovery after a kill.  The bytes of an artifact are abstracted to its release, a    *)
(* home to one artifact.                                                     *)
EXTENDS Integers, Sequences, FiniteSets, SequencesExt

CONSTANTS Groups,        \* the lists of homes a person names, canonical first
          TargetSets,    \* the sets of native targets a person names
          Copies,        \* whether --copy is given
          Hosted,        \* the host plugins that may be installed at the start
          MaxRelease,    \* releases are 1 .. MaxRelease, at least one
          MaxOps,        \* bound on operations
          MaxFaults,     \* bound on failures of the environment
          MaxHands       \* bound on what people do to the machine themselves

VARIABLES disk,      \* what stands in every place
          bin,       \* the release of the machinery binary
          receipt,   \* the persisted installation receipt
          newest,    \* the newest published release
          host,      \* the host-owned plugins: "none", "stale" or "fresh"
          cli,       \* the host command lines on PATH
          op,        \* the operation that holds the lock, or its rest
          last,      \* how the latest operation ended
          taken,     \* ghost: recorded places that were removed behind the record
          kept,      \* ghost: places where a rollback left its operation's placement
          ops, faults, hands

vars == <<disk, bin, receipt, newest, host, cli, op, last, taken, kept, ops, faults, hands>>

HomeOrder == <<"agents", "claude", "other">>
Homes == Range(HomeOrder)
Targets == {"claude", "codex", "opencode"}
Places == Homes \cup Targets
Plugins == {"claude", "codex"}
Releases == 1 .. MaxRelease

None == [k |-> "none", r |-> 0, to |-> "-"]
Real(r) == [k |-> "real", r |-> r, to |-> "-"]
Link(h) == [k |-> "link", r |-> 0, to |-> h]

\* A link is followed; what it leads to may be a link again, or missing.
Follow(d, p) == IF d[p].k = "link" THEN d[d[p].to] ELSE d[p]
skillInstalled(d, h) == Follow(d, h).k = "real"

-----------------------------------------------------------------------------
\* Paths that a set of homes, or of targets, occupies.
homeInstallArtifactPaths(hs) == hs

\* Mutant of TargetArtifacts: OpenCode is thought not to need the shared home.
TargetArtifactsOwn(ts) == ts \cup (IF "codex" \in ts THEN {"agents"} ELSE {})
TargetArtifacts(ts) == ts \cup (IF ts \cap {"codex", "opencode"} # {} THEN {"agents"} ELSE {})

-----------------------------------------------------------------------------
\* The receipt.  An empty one is no file at all.
NoReceipt == [groups |-> {}, targets |-> << >>, plugins |-> {}, dig |-> << >>]
Empty(R) == R.groups = {} /\ DOMAIN R.targets = {} /\ R.plugins = {}

receiptArtifactPaths(R) ==
  homeInstallArtifactPaths(UNION {Range(g.homes) : g \in R.groups}) \cup TargetArtifacts(DOMAIN R.targets)

\* publishReceipt digests every artifact of the recorded topology from disk.  An
\* absent one refuses the publication, unless the child of an older parent keeps
\* the digest that is already recorded.
Publishable(R, d, retain) ==
  \A p \in receiptArtifactPaths(R) : d[p] # None \/ (retain /\ p \in DOMAIN R.dig)

\* Mutant of publishReceipt: only the artifacts that are not recorded yet are
\* digested.
publishReceiptOld(R, d) ==
  IF Empty(R) THEN NoReceipt
  ELSE [R EXCEPT !.dig = [p \in receiptArtifactPaths(R) |-> IF p \in DOMAIN R.dig THEN R.dig[p] ELSE d[p]]]
publishReceipt(R, d) ==
  IF Empty(R) THEN NoReceipt
  ELSE [R EXCEPT !.dig = [p \in receiptArtifactPaths(R) |-> IF d[p] # None THEN d[p] ELSE R.dig[p]]]

\* A group replaces the one with its canonical home and may not share a home
\* with another group.
Conflicts(R, g) == \E o \in R.groups : o.homes[1] # g.homes[1] /\ Range(o.homes) \cap Range(g.homes) # {}
setHomeInstall(R, gs) == [R EXCEPT !.groups = {o \in @ : \A g \in gs : o.homes[1] # g.homes[1]} \cup gs]
setTargetInstall(R, tm) ==
  [R EXCEPT !.targets = [t \in DOMAIN @ \cup DOMAIN tm |-> IF t \in DOMAIN tm THEN tm[t] ELSE @[t]]]

\* Mutant of expandCanonicalHomeGroups: a canonical home goes alone.
expandAlone(R, hs) == hs
\* Removing a canonical home removes its whole group.
expandCanonicalHomeGroups(R, hs) ==
  hs \cup UNION {Range(g.homes) : g \in {o \in R.groups : o.homes[1] \in hs}}

forgetHomesFromReceipt(R, hs) ==
  [R EXCEPT !.groups = {[g EXCEPT !.homes = SelectSeq(@, LAMBDA h : h \notin hs)] :
                          g \in {o \in @ : o.homes[1] \notin hs}}]
forgetTargetsFromReceipt(R, ts) ==
  [R EXCEPT !.targets = [t \in DOMAIN @ \ ts |-> @[t]]]

-----------------------------------------------------------------------------
\* The plan of an update: what is recorded, what is found at the standard
\* places, and without a recorded group the topology that the disk suggests.
buildRefreshPlan ==
  LET found == (IF disk["codex"] # None THEN {"codex"} ELSE {})
               \cup (IF disk["opencode"] # None THEN {"opencode"} ELSE {})
      known == DOMAIN receipt.targets \cup found
      shared == known \cap {"codex", "opencode"} # {}
      linked == disk["claude"].k = "link"
      infer == receipt.groups = {}
      claudeIn == skillInstalled(disk, "claude")
      byTarget == infer /\ shared /\ claudeIn /\ linked
      agents == infer /\ skillInstalled(disk, "agents") /\ ~shared
      claude == infer /\ claudeIn /\ ~byTarget
      names == known \cup (IF byTarget THEN {"claude"} ELSE {})
  IN  [groups |-> receipt.groups
                  \cup (IF agents /\ claude THEN {[homes |-> <<"agents", "claude">>, copy |-> ~linked]}
                        ELSE IF agents THEN {[homes |-> <<"agents">>, copy |-> FALSE]}
                        ELSE IF claude THEN {[homes |-> <<"claude">>, copy |-> FALSE]} ELSE {}),
       targets |-> [t \in names |-> IF t \in DOMAIN receipt.targets THEN receipt.targets[t] ELSE FALSE]]

\* The default homes, without one that the Claude Code plugin already serves.
DefaultHomes == SelectSeq(<<"agents", "claude">>, LAMBDA h : ~(h = "claude" /\ host["claude"] # "none"))
PlanOf(hs, c) == [groups |-> IF hs = << >> THEN {} ELSE {[homes |-> hs, copy |-> c]}, targets |-> << >>]
bootstrapPlan == IF Empty(receipt) THEN PlanOf(DefaultHomes, FALSE) ELSE buildRefreshPlan

Direct(plan) == plan.groups # {} \/ DOMAIN plan.targets # {}

-----------------------------------------------------------------------------
\* The steps of an operation.  Real files are those of the release it has fetched.
Files == Real(0)
Place(p, c) == [do |-> "place", p |-> p, c |-> c]
Drop(p) == [do |-> "remove", p |-> p]
Record(gs, tm, retain) == [do |-> "record", groups |-> gs, targets |-> tm, retain |-> retain]
Forget(hs, ts) == [do |-> "forget", homes |-> hs, targets |-> ts]
Fetch(what) == [do |-> "fetch", what |-> what]
Resolve(ver) == [do |-> "resolve", ver |-> ver]
Binary == [do |-> "binary"]

\* A group: the canonical home gets the files, the others links or copies.
placeHomes(g) ==
  [i \in DOMAIN g.homes |-> Place(g.homes[i], IF i = 1 \/ g.copy THEN Files ELSE Link(g.homes[1]))]

\* Native targets: Codex and OpenCode need the files in the shared home, Claude
\* Code then links to them.
installTargets(ts, c) ==
  LET shared == ts \cap {"codex", "opencode"} # {}
      one(t, step) == IF t \in ts THEN <<step>> ELSE << >>
  IN  (IF shared THEN <<Place("agents", Files)>> ELSE << >>)
      \o one("claude", Place("claude", IF shared /\ ~c THEN Link("agents") ELSE Files))
      \o one("codex", Place("codex", Files)) \o one("opencode", Place("opencode", Files))

\* The children that an update starts: one per group, then one for the targets
\* of each mode.  An older parent leaves the record to them.
refreshDirectInstalls(plan, announces) ==
  LET ofMode(c) == {t \in DOMAIN plan.targets : plan.targets[t] = c}
      tail(gs, tm) == IF announces THEN << >> ELSE <<Record(gs, tm, TRUE)>>
      group(h) == LET gs == {g \in plan.groups : g.homes[1] = h}
                  IN  IF gs = {} THEN << >>
                      ELSE LET g == CHOOSE x \in gs : TRUE IN placeHomes(g) \o tail({g}, << >>)
      mode(c) == IF ofMode(c) = {} THEN << >>
                 ELSE installTargets(ofMode(c), c) \o tail({}, [t \in ofMode(c) |-> c])
  IN  group("agents") \o group("claude") \o group("other") \o mode(FALSE) \o mode(TRUE)

\* What the server hands out for an asset: its bytes, how often the checksum list
\* names it with a digest of those bytes, and whether it is what it should be (a
\* binary that reports its tag, an archive of one canonical machinery/ tree).
Assets == [bytes : {"good", "bad"}, listed : 0 .. 2, shape : BOOLEAN]
Perfect == [bytes |-> "good", listed |-> 1, shape |-> TRUE]
Digest(a) == a.bytes

\* The list names the published bytes: one entry, or the download is refused.
checksumForAsset(a) == IF a.listed = 1 THEN "good" ELSE "none"
fetchReleaseBinary(a) == Digest(a) = checksumForAsset(a)
validateReleaseBinary(a) == a.shape
fetchSource(a) == Digest(a) = checksumForAsset(a)
extractTarGz(a) == a.shape

Takes(what, a) ==
  IF what = "binary" THEN fetchReleaseBinary(a) /\ validateReleaseBinary(a) ELSE fetchSource(a) /\ extractTarGz(a)

SetSeq(S) == SelectSeq(<<"agents", "claude", "other", "codex", "opencode">>, LAMBDA p : p \in S)

-----------------------------------------------------------------------------
Idle == [kind |-> "idle", todo |-> << >>, paths |-> {}, before |-> << >>, plan |-> << >>,
         skip |-> FALSE, rel |-> 0]
Here == [disk |-> disk, bin |-> bin, receipt |-> receipt]
Fine == [kind |-> "none", ok |-> TRUE, fault |-> FALSE, undone |-> FALSE, before |-> << >>,
         plan |-> << >>, rel |-> 0, skip |-> FALSE, paths |-> {}]

Init ==
  /\ disk = [p \in Places |-> None]
  /\ bin = 1
  /\ receipt = NoReceipt
  /\ newest = 1
  /\ host \in {h \in [Plugins -> {"none", "fresh"}] : \A p \in Plugins \ Hosted : h[p] = "none"}
  /\ cli = Plugins
  /\ op = Idle
  /\ last = Fine
  /\ taken = {} /\ kept = {}
  /\ ops = 0 /\ faults = 0 /\ hands = 0

\* An operation takes the lock, lists its paths and captures them.
Begin(kind, paths, todo, plan, skip, rel) ==
  /\ op.kind = "idle"
  /\ ops < MaxOps
  /\ ops' = ops + 1
  /\ op' = [kind |-> kind, todo |-> todo, paths |-> paths, before |-> Here, plan |-> plan,
            skip |-> skip, rel |-> rel]
  /\ last' = Fine
  /\ UNCHANGED <<disk, bin, receipt, newest, host, cli, taken, kept, faults, hands>>

\* machinery install, with --home or without, and with --target.
InstallHomes(hs, c) ==
  LET g == [homes |-> hs, copy |-> c] IN
  Begin("install", Range(hs) \cup {"receipt"}, <<Fetch("source")>> \o placeHomes(g) \o <<Record({g}, << >>, FALSE)>>,
        << >>, FALSE, bin)
InstallDefault(c) == DefaultHomes # << >> /\ InstallHomes(DefaultHomes, c)
InstallTargets(ts, c) ==
  Begin("install", TargetArtifacts(ts) \cup {"receipt"},
        <<Fetch("source")>> \o installTargets(ts, c) \o <<Record({}, [t \in ts |-> c], FALSE)>>, << >>, FALSE, bin)

\* machinery uninstall, with homes and with --target.
Uninstall(hs) ==
  LET gone == expandCanonicalHomeGroups(receipt, hs) IN
  Begin("uninstall", gone \cup {"receipt"},
        [i \in DOMAIN SetSeq(gone) |-> Drop(SetSeq(gone)[i])] \o <<Forget(gone, {})>>, << >>, FALSE, bin)
UninstallTargets(ts) ==
  LET named == (ts \cap {"claude"}) \cup (IF ts = Targets THEN {"agents"} ELSE {})
      gone == expandCanonicalHomeGroups(receipt, named)
      all == gone \cup (ts \ {"claude"})
  IN  Begin("uninstall", all \cup {"receipt"},
            [i \in DOMAIN SetSeq(all) |-> Drop(SetSeq(all)[i])] \o <<Forget(gone, ts)>>, << >>, FALSE, bin)

\* machinery update to a release, 0 for the newest.  `announces' is false
\* under a parent older than 0.7.1, whose newer children record their own
\* placements.
Update(kind, plan, ver, skip, announces) ==
  LET owed == receipt.plugins \cup (IF host["claude"] # "none" THEN {"claude"} ELSE {})
      direct == Direct(plan)
      paths == {"binary"} \cup homeInstallArtifactPaths(UNION {Range(g.homes) : g \in plan.groups})
               \cup TargetArtifacts(DOMAIN plan.targets) \cup (IF direct THEN {"receipt"} ELSE {})
  IN  Begin(kind, paths,
            <<Resolve(ver), Fetch("binary")>> \o (IF direct THEN <<Fetch("source")>> ELSE << >>)
            \o <<Binary>> \o refreshDirectInstalls(plan, announces)
            \o (IF direct /\ announces THEN <<Record(plan.groups, plan.targets, FALSE)>> ELSE << >>),
            [groups |-> plan.groups, targets |-> plan.targets, owed |-> owed], skip, 0)

-----------------------------------------------------------------------------
\* Ends of an operation.
Ends(ok, undone, what) ==
  /\ last' = [kind |-> op.kind, ok |-> ok, fault |-> what, undone |-> undone, before |-> op.before,
              plan |-> op.plan, rel |-> op.rel, skip |-> op.skip, paths |-> op.paths]
  /\ op' = Idle

\* The artifact that is being placed a second time: a delegated child shares its
\* parent's journal, and an update places a home again that overlaps a target.
Again == IF op.todo # << >> /\ Head(op.todo).do = "place" /\ disk[Head(op.todo).p] # op.before.disk[Head(op.todo).p]
         THEN {Head(op.todo).p} ELSE {}

\* What a rollback puts back, and nothing else.
Restore(paths) ==
  /\ disk' = [p \in Places |-> IF p \in paths THEN op.before.disk[p] ELSE disk[p]]
  /\ bin' = IF "binary" \in paths THEN op.before.bin ELSE bin
  /\ receipt' = IF "receipt" \in paths THEN op.before.receipt ELSE receipt

\* Rollback restores the listed paths, but not the first placement of an artifact
\* whose second one was begun and cut short: it still is its recorded post-image
\* (rollbackStagedInstallItem).
Rollback(fault) ==
  /\ \E left \in SUBSET Again : Restore(op.paths \ left) /\ kept' = kept \cup left
  /\ Ends(FALSE, TRUE, fault)

\* A rollback that leaves a changed path alone keeps the journal: every later
\* operation finds it, fails to recover, and refuses (InstallTx names the cases).
Changed ==
  {p \in op.paths \cap Places : disk[p] # op.before.disk[p]}
  \cup (IF bin # op.before.bin THEN {"binary"} ELSE {}) \cup (IF receipt # op.before.receipt THEN {"receipt"} ELSE {})
RollbackIncomplete ==
  /\ \E left \in SUBSET Changed : left # {} /\ Restore(op.paths \ left)
  /\ op' = [Idle EXCEPT !.kind = "stuck"]
  /\ UNCHANGED <<last, kept>>

Working == op.kind \notin {"idle", "plugins", "stuck"}
Step == Head(op.todo)
Next1 == op' = [op EXCEPT !.todo = Tail(@)]

DoPlace ==
  /\ Working /\ op.todo # << >> /\ Step.do = "place"
  /\ disk' = [disk EXCEPT ![Step.p] = IF Step.c = Files THEN Real(op.rel) ELSE Step.c]
  /\ Next1
  /\ UNCHANGED <<bin, receipt, newest, host, cli, last, taken, kept, ops, faults, hands>>

DoRemove ==
  /\ Working /\ op.todo # << >> /\ Step.do = "remove"
  /\ disk' = [disk EXCEPT ![Step.p] = None]
  /\ Next1
  /\ UNCHANGED <<bin, receipt, newest, host, cli, last, taken, kept, ops, faults, hands>>

\* The tag is resolved once, to the newest release or the one that was asked for.
DoResolve ==
  /\ Working /\ op.todo # << >> /\ Step.do = "resolve"
  /\ op' = [op EXCEPT !.todo = Tail(@), !.rel = IF Step.ver = 0 THEN newest ELSE Step.ver]
  /\ UNCHANGED <<disk, bin, receipt, newest, host, cli, last, taken, kept, ops, faults, hands>>

\* A download is verified before anything is placed; what is refused undoes all.
\* Bytes that are not the published ones count as release 0.
DoFetch ==
  /\ Working /\ op.todo # << >> /\ Step.do = "fetch"
  /\ \E a \in IF faults < MaxFaults THEN Assets ELSE {Perfect} :
       /\ faults' = faults + (IF a = Perfect THEN 0 ELSE 1)
       /\ \/ /\ Takes(Step.what, a)
             /\ op' = [op EXCEPT !.todo = Tail(@), !.rel = IF a.bytes = "good" THEN @ ELSE 0]
             /\ UNCHANGED <<disk, bin, receipt, last, kept>>
          \/ ~Takes(Step.what, a) /\ Rollback(TRUE)
  /\ UNCHANGED <<newest, host, cli, taken, ops, hands>>

\* The binary is swapped first; installed host plugins fall behind it.
DoBinary ==
  /\ Working /\ op.todo # << >> /\ Step.do = "binary"
  /\ bin' = op.rel
  /\ Next1
  /\ UNCHANGED <<disk, receipt, newest, host, cli, last, taken, kept, ops, faults, hands>>

DoRecord ==
  /\ Working /\ op.todo # << >> /\ Step.do = "record"
  /\ LET R == setTargetInstall(setHomeInstall(receipt, Step.groups), Step.targets) IN
     \/ /\ \A g \in Step.groups : ~Conflicts(receipt, g)
        /\ Publishable(R, disk, Step.retain)
        /\ receipt' = publishReceipt(R, disk)
        /\ Next1
        /\ UNCHANGED <<disk, bin, last, kept>>
     \/ /\ (\E g \in Step.groups : Conflicts(receipt, g)) \/ ~Publishable(R, disk, Step.retain)
        /\ Rollback(FALSE)
  /\ UNCHANGED <<newest, host, cli, taken, ops, faults, hands>>

\* The receipt is saved only when an entry was dropped from it.
DoForget ==
  /\ Working /\ op.todo # << >> /\ Step.do = "forget"
  /\ LET R == forgetHomesFromReceipt(forgetTargetsFromReceipt(receipt, Step.targets), Step.homes)
         changed == R.groups # receipt.groups \/ DOMAIN R.targets # DOMAIN receipt.targets
     IN
     \/ /\ ~changed
        /\ Next1
        /\ UNCHANGED <<disk, bin, receipt, last, kept>>
     \/ /\ changed /\ Publishable(R, disk, FALSE)
        /\ receipt' = publishReceipt(R, disk)
        /\ Next1
        /\ UNCHANGED <<disk, bin, last, kept>>
     \/ /\ changed /\ ~Publishable(R, disk, FALSE)
        /\ Rollback(FALSE)
  /\ UNCHANGED <<newest, host, cli, taken, ops, faults, hands>>

\* A download, a child, a write or the source snapshot fails, or the process is
\* killed and the next one recovers.
Fails ==
  /\ Working
  /\ faults < MaxFaults
  /\ faults' = faults + 1
  /\ Rollback(TRUE) \/ RollbackIncomplete
  /\ UNCHANGED <<newest, host, cli, taken, ops, hands>>

\* An uninstall of homes drops no target: what only a target records is taken
\* away behind the record.
TakenNow(p) ==
  op.kind = "uninstall" /\ p \in op.paths /\ p \in TargetArtifacts(DOMAIN receipt.targets)

\* The transaction commits.  An update goes on with the host plugins.
Commit ==
  /\ Working /\ op.todo = << >>
  /\ taken' = {p \in receiptArtifactPaths(receipt) : disk[p] = None /\ (p \in taken \/ TakenNow(p))}
  /\ kept' = IF receipt # op.before.receipt THEN {} ELSE kept
  /\ IF op.kind \in {"install", "uninstall"}
     THEN Ends(TRUE, FALSE, FALSE) /\ UNCHANGED host
     ELSE /\ host' = [p \in Plugins |-> IF host[p] = "none" \/ bin = op.before.bin THEN host[p] ELSE "stale"]
          /\ IF op.skip THEN Ends(TRUE, FALSE, FALSE)
             ELSE op' = [op EXCEPT !.kind = "plugins", !.todo = <<op.kind>>] /\ UNCHANGED last
  /\ UNCHANGED <<disk, bin, receipt, newest, cli, ops, faults, hands>>

\* What the inventory of a host shows: a plugin the plan owes or one that is
\* installed.  Codex is asked whenever its command line is there.
Asked(p) == p \in cli /\ (p = "codex" \/ p \in op.plan.owed)
Seen == {p \in Plugins : Asked(p) /\ host[p] # "none"}
Missed == {p \in op.plan.owed : p \notin cli} \cup {p \in {"claude"} \cap op.plan.owed : host[p] = "none"}

\* Mutant of refreshHostPlugins: an obligation is remembered only once the
\* refresh has succeeded.
refreshHostPluginsLate(failing) ==
  /\ host' = [p \in Plugins |-> IF p \in Seen \ failing THEN "fresh" ELSE host[p]]
  /\ receipt' = IF Seen \ failing \subseteq receipt.plugins THEN receipt
                ELSE publishReceipt([receipt EXCEPT !.plugins = @ \cup (Seen \ failing)], disk)

\* The plugins that are seen are refreshed through their own command lines, and
\* every one that was seen becomes an obligation, refreshed or not.
refreshHostPlugins(failing) ==
  /\ host' = [p \in Plugins |-> IF p \in Seen \ failing THEN "fresh" ELSE host[p]]
  /\ receipt' = IF Seen \subseteq receipt.plugins THEN receipt
                ELSE publishReceipt([receipt EXCEPT !.plugins = @ \cup Seen], disk)

\* Host stores cannot be rolled back: the update stands and reports the failures.
RefreshPlugins ==
  /\ op.kind = "plugins"
  /\ \E failing \in SUBSET Seen :
       /\ faults + Cardinality(failing) <= MaxFaults
       /\ faults' = faults + Cardinality(failing)
       /\ \/ /\ Seen \subseteq receipt.plugins \/ Publishable(receipt, disk, FALSE)
             /\ refreshHostPlugins(failing)
             /\ last' = [kind |-> op.todo[1], ok |-> failing = {} /\ Missed = {}, fault |-> failing # {},
                         undone |-> FALSE, before |-> op.before, plan |-> op.plan, rel |-> op.rel,
                         skip |-> FALSE, paths |-> op.paths]
          \/ /\ ~(Seen \subseteq receipt.plugins \/ Publishable(receipt, disk, FALSE))
             /\ host' = [p \in Plugins |-> IF p \in Seen \ failing THEN "fresh" ELSE host[p]]
             /\ last' = [Fine EXCEPT !.kind = op.todo[1], !.ok = FALSE, !.fault = failing # {}]
             /\ UNCHANGED receipt
  /\ op' = Idle
  /\ UNCHANGED <<disk, bin, newest, cli, taken, kept, ops, hands>>

-----------------------------------------------------------------------------
\* People remove an artifact, install or remove a host plugin, or lose a command
\* line, between operations.
Hand ==
  /\ op.kind = "idle" /\ hands < MaxHands
  /\ hands' = hands + 1
  /\ \/ \E p \in Places : /\ disk[p] # None
                          /\ disk' = [disk EXCEPT ![p] = None]
                          /\ taken' = taken \cup ({p} \cap receiptArtifactPaths(receipt))
                          /\ UNCHANGED <<host, cli>>
     \/ \E p \in Plugins : /\ host' = [host EXCEPT ![p] = IF @ = "none" THEN "fresh" ELSE "none"]
                           /\ UNCHANGED <<disk, taken, cli>>
     \/ \E p \in cli : cli' = cli \ {p} /\ UNCHANGED <<disk, taken, host>>
  /\ last' = Fine
  /\ UNCHANGED <<bin, receipt, newest, op, kept, ops, faults>>

\* A release is published, at any moment.
Publish ==
  /\ newest < MaxRelease
  /\ newest' = newest + 1
  /\ UNCHANGED <<disk, bin, receipt, host, cli, op, last, taken, kept, ops, faults, hands>>

Updates ==
  \E ver \in 0 .. newest, skip, announces \in BOOLEAN :
    \/ Update("update", buildRefreshPlan, ver, skip, announces)
    \/ announces /\ Update("bootstrap", bootstrapPlan, ver, skip, TRUE)
    \/ \E hs \in Groups, c \in Copies : announces /\ Update("selected", PlanOf(hs, c), ver, skip, TRUE)
    \/ \E ts \in TargetSets, c \in Copies :
         announces /\ Update("selected", [groups |-> {}, targets |-> [t \in ts |-> c]], ver, skip, TRUE)
    \/ \E hs \in Groups, ts \in TargetSets, c \in Copies :
         announces /\ Update("selected", [PlanOf(hs, c) EXCEPT !.targets = [t \in ts |-> c]], ver, skip, TRUE)

Next ==
  \/ \E hs \in Groups, c \in Copies : InstallHomes(hs, c)
  \/ \E c \in Copies : InstallDefault(c)
  \/ \E ts \in TargetSets, c \in Copies : InstallTargets(ts, c)
  \/ \E hs \in Groups : Uninstall(Range(hs))
  \/ \E ts \in TargetSets : UninstallTargets(ts)
  \/ Updates
  \/ DoResolve \/ DoFetch \/ DoPlace \/ DoRemove \/ DoBinary \/ DoRecord \/ DoForget
  \/ Fails \/ Commit \/ RefreshPlugins
  \/ Hand \/ Publish

Spec == Init /\ [][Next]_vars

-----------------------------------------------------------------------------
Content == {None} \cup {Real(r) : r \in Releases} \cup {Link(h) : h \in Homes}
Quiet == op.kind = "idle"

TypeOK ==
  /\ disk \in [Places -> Content] /\ bin \in Releases
  /\ host \in [Plugins -> {"none", "stale", "fresh"}] /\ cli \subseteq Plugins
  /\ receipt.plugins \subseteq Plugins /\ DOMAIN receipt.targets \subseteq Targets
  /\ \A g \in receipt.groups : g.homes # << >> /\ Range(g.homes) \subseteq Homes
  /\ taken \subseteq Places /\ kept \subseteq Places

\* An operation that failed before its commit, and whose rollback found nothing to
\* leave alone, left the disk, the binary and the receipt as they were, except an
\* artifact whose second placement it was at: every path that it changes is one it
\* captured, although the two lists are computed by different code
\* (rollbackInstallTransaction; rollbackStagedInstallItem, transaction.go:2646).
FailureRestores ==
  Quiet /\ last.undone =>
    /\ bin = last.before.bin /\ receipt = last.before.receipt
    /\ \A p \in Places \ kept : disk[p] = last.before.disk[p]

\* The receipt describes what is there: outside an operation the digest of every
\* recorded artifact is that of the disk, unless the artifact was taken away by
\* hand or by an uninstall of a home that only a target records, or a rollback left
\* it (see Rollback) and nothing was recorded since (publishReceipt; an older
\* parent's children never leave the previous release's digests).
ReceiptTrue ==
  Quiet => /\ DOMAIN receipt.dig = receiptArtifactPaths(receipt)
           /\ \A p \in DOMAIN receipt.dig : receipt.dig[p] = disk[p] \/ (disk[p] = None /\ p \in taken) \/ p \in kept

\* A home of a recorded group that is a link leads to files, unless those files
\* were taken away: an uninstall removes a canonical home with its whole group
\* (expandCanonicalHomeGroups).
GroupLinksLead ==
  Quiet => \A g \in receipt.groups : \A p \in Range(g.homes) :
             disk[p].k = "link" => skillInstalled(disk, p) \/ disk[p].to \in taken

\* No recorded group shares a home with another (setHomeInstall, validateReceipt).
GroupsApart ==
  \A g, o \in receipt.groups : g = o \/ Range(g.homes) \cap Range(o.homes) = {}

\* A refusal that no fault explains is the receipt's: something that it records
\* is missing, the homes belong to another group, or a target that stays recorded
\* needs what an uninstall would remove.
RefusalsAreKnown ==
  Quiet /\ last.undone /\ ~last.fault =>
    \/ \E p \in receiptArtifactPaths(receipt) : disk[p] = None
    \/ last.kind # "uninstall" /\ \E g \in receipt.groups : Range(g.homes) \cap last.paths # {}
    \/ last.kind = "uninstall" /\ last.paths \cap TargetArtifacts(DOMAIN receipt.targets) # {}

\* A successful update of everything leaves one version everywhere: the binary
\* and every recorded placement, followed through its links, are of its release,
\* and so is every host plugin that it was not told to skip.
OneVersion ==
  Quiet /\ last.ok /\ last.kind \in {"update", "bootstrap"} =>
    /\ bin = last.rel /\ bin \in Releases
    /\ \A p \in receiptArtifactPaths(receipt) : Follow(disk, p) = Real(last.rel)
    /\ ~last.skip => \A p \in receipt.plugins : host[p] = "fresh" \/ (p = "codex" /\ host[p] = "none")

\* A host plugin that an update has seen stays an obligation, whatever became of
\* its refresh: no later update passes over it in silence.
PluginsRemembered ==
  Quiet /\ last.kind \in {"update", "bootstrap", "selected"} /\ ~last.undone /\ ~last.skip /\ last.plan # << >> =>
    \A p \in Plugins \cap cli : host[p] # "none" => p \in receipt.plugins

\* What was recorded is forgotten only by an uninstall that has removed it (one of
\* a single target leaves the shared home to other runtimes), or by an install
\* that names its canonical home without it.
NothingForgotten ==
  receipt' # receipt =>
    \A p \in receiptArtifactPaths(receipt) \ receiptArtifactPaths(receipt') :
      \/ op.kind = "uninstall" /\ (disk[p] = None \/ p = "agents")
      \/ last'.undone
      \/ \E g \in receipt.groups, n \in receipt'.groups : p \in Range(g.homes) /\ g.homes[1] = n.homes[1]
=============================================================================
