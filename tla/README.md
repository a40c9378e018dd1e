# Formal models of machinery

machinery is a Go toolchain that keeps a design, the artifacts generated from
it and the evidence about it consistent. Its hard part is not the translation
of documents but the places where several processes, crashes and people meet in
one directory, and the checks whose verdict has to be true of things that go on
changing. This project models those places in TLA+, checks them with TLC on
small instances and proves the most important properties with TLAPS for every
size.

Every definition follows the Go code. `PROJECT.json` gives the source lines of
each one (`map`), the runs, one mutant per property that shows it can fail, the
hazards the properties are for, the findings and the theorems.

## 1. The system

### Parts, state, operations

| Part | State it keeps | Operations | Modules |
|---|---|---|---|
| Assurance store (`internal/tdd/store.go`, `registration_store.go`) | a directory outside the checkout: head, archived heads, controls, bundles, a staging directory with a writer token | `InitStore`, `openStore`, `acquireStoreWriter`, `CommitRegistration`, `release` | `AssuranceStore`, `HeadRegister` |
| Registration (`internal/assuranceflow`, `BuildRegistrationSuccessor`) | the head document: plans and milestone entries | `Register`, `ValidateRegistrationGraph`, `BuildRegistrationSuccessor` | `Registration` |
| Assurance documents (`internal/tdd/manifest.go`, `internal/tdd/adapters`) | manifests with reviews and calibrations; a frozen suite and its report | `Validate`; `Prepare` and `Run` of four adapters | `Declarations`, `Calibration`, `AdapterRun` |
| Artifact sets (`internal/artifactset`, `internal/fsatomic`) | targets, staged and parked files, a journal under three names, quarantines | `Commit`, `Reconcile*`, recovery | `ArtifactSet` |
| Modelith, pack, formal, projection and embed transactions | one journaled set of files or trees each | publish, roll back, finalize, recover | `ModelithTx`, `PackTx`, `FormalTx`, `ProjectionTx`, `EmbedTx` |
| Design lock (`internal/designlock`) | a sentinel beside the design, an advisory lock, private snapshots | `Acquire`, `PublishExpected*`, `ResumeExpected`, `Release`; the snapshots of readers | `DesignLock`, `TreeSnapshot` |
| Caches and runtimes (`internal/cachestage`, `internal/runtimeclosure`) | stages of an extraction, a lock file; open handles on a runtime | provision, recover; fingerprint, retain, validate, close | `CacheStage`, `RuntimeClosure` |
| Installer (`internal/install`, `internal/dirscan`) | agent homes, native targets, a receipt, a journal | install, update, uninstall, recover; census of caches and sources | `Installer`, `InstallTx`, `InstallJournal`, `JournalRegister`, `Census` |
| Agent hooks (`internal/hook`) | a ledger per project, routes, a store with an identity, an initialization marker | pre-tool, post-tool, stop, adopt, release, retention | `HookLedger`, `HookStore`, `HookRetention`, `HookPolicy` |
| Process custody (`internal/processscope`, `processcontrol`) | scopes, channels, jobs and retirements in the broker; guardians, targets and their groups | `Child`, `Attach`, `Run`, `Close`; `serveChannel`, `retireJob`, `runBroker`, `runGuardian` | `Custody` |
| Gates (`internal/gates`, `cmd/machinery/baseline.go`) | `ratchet.json`, `attestations.yaml`, the plan and its packets; nothing else between runs | select, check, baseline, attest | `GateSelect`, `Ratchet`, `Attestation`, `BuildPlan`, `Milestones`, `EmbedTable` |
| Datalog (`internal/datalog`) | relations during an evaluation | compile, stratify, evaluate, explain | `Datalog` |
| Lint and generators (`internal/lint`, `internal/refine`, `internal/tla`) | the generated files | lint a machine and its matrix; reconcile and emit | `MachineLint`, `LifecycleGen`, `TerminalGen`, `SagaGen`, `GeneratedOutput` |
| Formal runs, pack contents, agent adapters, command line | none of their own | wiring, rendering, running checkers | not modelled |

### How the parts interact

`Register` reads the archived head, derives the successor (`Registration`) and
hands it to `CommitRegistration` (`AssuranceStore`), the only writer of the
store; every other command opens the store without a lock. Generators publish
their outputs as one artifact set inside a publication of the design lock; the
gates read a snapshot of the design that the same lock protects from the
program's own writers, but from nobody else's (`TreeSnapshot`). The hook watches
an agent's turns, records what was touched and asks the gates at the end of a
turn (`HookPolicy` over `HookLedger` over `HookStore`). The installer places
documents through a journaled transaction (`Installer` over `InstallTx` over
`InstallJournal`). Process custody carries every subprocess that gates, engines
and test adapters start.

### What is hard here, and what correctness means

* **Store.** Writers exclude each other only by `mkdir` and a lease; readers look
  at head and archive at two moments; a process may die between archive and
  advance. Correct: one writer, a head that only grows, no answer taken back, no
  head that names missing bytes, calls that return.
* **Registration.** The rules compare with the expected head only. Correct: a
  lineage without gaps, nothing undeclared registered, other designs untouched.
* **Publications.** Renames that must look like one, in directories that people
  edit, interrupted anywhere, and a recovery that may be interrupted as well.
  Correct: all or nothing, nothing of anybody's lost, every leftover explained,
  a rerun that ends.
* **Custody.** Three kinds of processes decide together when a job is over, each
  with timers of its own. Correct: "cleaned" is true, no stranger is signalled,
  no report is of a retirement half done, the loss of the owner cleans up.
* **Installer and hooks.** They act between the commands of a person and may be
  killed at any step. Correct: the receipt describes the disk, an installation
  is whole, an unchecked change stays on record until a gate that checks as much
  has passed.
* **Generators and lint.** A published proof is about a machine only if what was
  accepted behaves as the emitted model says. Correct: simulation in both
  directions, convergence of reruns, accepted machines that settle and swallow
  nothing.
* **Evidence and gates.** A verdict is about bytes that others may rewrite.
  Correct: what was accepted was reviewed, ran, and stood as it was read; debt
  only shrinks; the rule engine computes the perfect model.

The hazards in `PROJECT.json` name the line at which each of these bites.

## 2. Modules

A component has one module. Five **suites** put components side by side so that
one run asks one question of all of them: a behaviour of a suite moves the one
component named by `which` and leaves the variables of the others alone. The
components of a suite keep separate files, so nothing is lost by not
interleaving them, and the state space is their sum rather than their product.
A component appears under several tags when one instance cannot show everything.

| Suite | Tags | Components |
|---|---|---|
| `Publications` | artifact, modelith, pack, formal, projection, embed, cache, design, table, registration; with fairness projection rerun, embed rerun, cache wait, design rerun, store wait | `ArtifactSet`, `ModelithTx`, `PackTx`, `FormalTx`, `ProjectionTx`, `EmbedTx`, `CacheStage`, `DesignLock`, `EmbedTable`, `Registration`, `AssuranceStore` |
| `Operations` | journal, install, install people, install twice, ledger, ledger routes, ledger lanes, store, retention, policy, policy routes, topology, topology copies, refresh | `InstallJournal` (refining `JournalRegister`), `InstallTx`, `HookLedger`, `HookStore`, `HookRetention`, `HookPolicy`, `Installer` |
| `Generators` | lifecycle, terminal, saga, refinements, pairs | `LifecycleGen`, `TerminalGen`, `SagaGen`, `GeneratedOutput` |
| `Evidence` | declarations, calibration, adapters, closure, launcher, scan, walk, plugin cache, install source (also unstamped), plans, review (also inside), checks (also around), hook snapshot, input file, workspace | `Declarations`, `Calibration`, `AdapterRun`, `RuntimeClosure`, `Census`, `BuildPlan` with `Milestones`, `TreeSnapshot` |
| `Gates` | select, handoff, lint, lint matrix, ratchet rules / facts / damage, datalog, attest | `GateSelect`, `MachineLint`, `Ratchet`, `Datalog`, `Attestation` |

`AssuranceStore`, `Custody` and, for one finding, `MachineLint` are run by
themselves. Proofs stand in `AssuranceStoreProofs`,
`RegistrationProofs` and `CustodyProofs`, at the end of `Ratchet` and
`GeneratedOutput`, and in the suites `Evidence`, `Gates` and `Generators`, there
beside the instance that they are about.

Abstract specifications: `HeadRegister` (an atomic compare-and-append register,
implemented by `AssuranceStore`) and `JournalRegister` (a journal that holds
nothing or one whole record, implemented by `InstallJournal`).

A definition introduced by "Mutant of ..." is not part of a specification. It
stands before the definition it changes; putting it in that one's place shows
that a property notices. `PROJECT.json` lists one per property and run; the
others document further ways in which the code could be wrong that the same
properties catch.

## 3. The components

### AssuranceStore

**State.** The names in the store: `head`, `archived` (ledger/heads), `unsynced`
(entries whose fsync is pending), `controls`, `retained`, `staging`, `token` with
`expired`, `headNext`; the history variable `residue` says whether the staging
directory was last left by a call that an I/O error kept from entering or from
leaving it. A head document is the sequence of registrations it
accumulates, so a sequence is also its digest and file name, `Len` its
generation and its front the document that "previous" names. Per process: `pc`,
the request (`expected`, `successor`), `seen` and `outcome`.

**Actions.** One per file-system operation, in program order: `Start`,
`ReadHead`, `Validate` (openStore and validateHeadChain), `MakeStaging`,
`MakeToken`, `TakeOver`, `WriteOwner`, `Timeout` (acquireStoreWriter), `Compare`,
`PublishControls`, `Stage`, `Revalidate`, `Archive`, `SyncHeads`, `Recheck`,
`Advance`, `Verify` (CommitRegistration), `Sweep`, `DropToken`, `RemoveStaging`
(release). I/O errors end a call where they strike: `AcquireFails` in the loop,
the second disjunct of `WriteOwner` when owner.json cannot be written,
`ReleaseFails` at any step of release; the token or the staging directory then
stays, and `ReleaseError` is what the caller hears. `TakeOver` renames whatever token is there by then, as the code does,
not the one it judged. `Crash` stops a process anywhere, `ExpireLease` lets a
lease pass, `Retain` is Capture's product.

**Parameters.** `LeaseExpiry` says whose token may outlive the lease: nobody's, a
dead process's, or anybody's (a suspended holder). `Races` says whether several
registrars may be active while a token is past its lease: without races they
overlap freely until a lease runs out, and whoever meets the expired token, its
suspended maker or the one that takes it over, is alone until it is gone. The
guarantees depend on both, so runs and theorems name them. Document contents, permissions, export and import are left out;
`PublishControls` is one step because control files are immutable and named by
content.

### Registration

One step registers a design: any plan and any selection of manifests that the
checkout may hold, subject to `ValidGraph`, `ValidTargets` and
`ValidUntargeted`; then `NextMilestones` builds the entries of the next head. A
rejected registration changes nothing and is not a step. `history` accumulates
what committed heads named. Two formulas the module states are not invariants:
`RegisteredStay` and `RevisionNamesOneManifest` (section 7).

### Custody

**State.** The owner side: what each worker of `runScoped` waits for, the child
scope it was given, what it returned, replies and result channels. The broker:
one goroutine per channel and main (`bpc`, with `todo`), the scope table,
`nonces`, `jobOrder`, job records, per job the retirement and the reader of its
guardian. The operating system: `guardian`, `target` and `strays`, the processes
a target leaves in its group.

**Actions.** `Child`, `AttachReply`, `RunReply`, `Cancel`, `RunEnds`, `CloseReply`
follow `runScoped` call by call; a request can fail at any time, and its late
reply stays for whoever asks next. `handleRun` is four steps because other
goroutines run between them; `retireJob` is `RetireTerm`, `RetireKill`,
`RetireReap`, `RetireDrain`, claimed by a cancel, a failed start, a close or
main, and joined by everybody else. The join is bounded as in the code:
`JoinRunsOut` gives it up at any moment before that retirement has settled, and
the report is then built on what is there. Before the launch a job's group number is
zero, so its retirement signals the broker's own group: `RetireKill` then ends
the broker. `OwnerDies`, `BrokerDies` and `Shutdown` happen at any time, and
every timer may fire at any moment. Left out: nested capability scopes (`Join`),
containers, the bootstrap of `Open`, streams, a guardian that dies by itself.

### The publications

All of them share a shape: stage, journal, park, install, commit, clean up; a
kill between any two file-system operations; an I/O error in any of them; people
who edit at any moment. Each operation is followed by an fsync of its directory,
so after a power loss a step is on disk or it is not, and nothing later is. A
file is a number that stands for content and native identity together; where the
code compares times as well, the model has them (`moved` in `ArtifactSet`,
`ChangeTime` in `FormalTx`), and the instances are those of Linux, where a rename
changes the ctime. Byte limits, symbolic links, journal codecs and
tampering with private names are left out. Where recovery gets stuck although
the code promises otherwise, the property names that leftover, and section 7
lists it. `DesignLock` brackets publications: the sentinel names the writer and
its inputs, readers fail closed while it is there, and the named writer resumes.
`CacheStage` has no journal: a stage is published by a rename under a file lock,
and leftovers are quarantined. Its quarantine names are private and
unpredictable; `RecoverFiles` has no caller outside tests.

### Installer and hooks

`InstallJournal` is the journal directory at the grain of single file
operations, `InstallTx` places artifacts with an atomic journal, and `Installer`
sees whole operations: a failure or a kill restores the listed paths, except the
first placement of an artifact whose second one was begun (`Again`, `kept`), or
gets stuck on a path that changed (`RollbackIncomplete`). Downloads,
prompts and local `--from` sources are left out; `ForgetHomeInstalls` and
`ForgetTargetInstalls` have no caller outside tests. Some documented promises do
not hold after an uninstall that names part of what was recorded; the ghost
`taken` excuses exactly those paths (section 7).

`HookLedger` is the life of one obligation through its files, `HookStore` the
identity of the store that holds it, `HookRetention` the compaction of old
records, `HookPolicy` the decisions, with the ledger as one record. A
marker file that a patch moves counts as an edit to the hook's files.

### Generators and lint

In each generator an author edits a machine, reconciliation accepts it or not,
and the accepted machine runs beside the emitted model. Of the compensation
`SagaGen` assumes only that it reports success when nothing is open; where the
machine takes an error or a timeout that the model has no step for, `drifted`
records it. `GeneratedOutput` is about who owns which file of the formal
directory; semantics lie in directories (`Dir`), and refine looks for the owner
of a family in the directory of the semantics it runs on, as the code does.
`MachineLint` fixes a small state tree (a leaf, a compound state with two
children, an invoking state, a final one) and lets the author edit routes, tags,
refusals, delays and the matrix; an accepted machine then runs as XState runs it.
Malformed JSON, counters, deadlines and `_io` are left out.

### Evidence

`Declarations` and `Calibration` let authors edit a complete manifest set, and
`Validate` accepts or refuses. `BuildPlan` and `Milestones` are Gb-plan,
Gw-packet and Ga-accept over a plan, its packets and a git history that moves
while the gate runs; texts are sets of markers, commit prefixes are names. The
authors' `desk` fixes in each behaviour what they start from and may write.
`AdapterRun` has the test runners as environment (they are external); Go suites
of several packages are outside the model. `RuntimeClosure`, `Census` and
`TreeSnapshot` are readers without a lock on what they read: a reader is the
sequence of operations it still has to do, an editor acts between any two, and
an edit may leave new times, a change time only, or on a coarse clock none.
`RuntimeClosure` keeps names and sizes fixed; each behaviour has a fine or a
coarse `clock`, and whether Java's mutation `sentinel` could be set up is drawn
when Open asks for it. `Census` abstracts the limits, and
an edit within one tick below the version directory or in an install source
escapes it. In `TreeSnapshot` a root replaced after its last look-up escapes;
private copies are not tampered with.

### Gates

`GateSelect` has both derivations of the gates that apply, the command's and the
hook's. `Ratchet` has the sections of ratchet.json and the gates that read them;
a baseline run is one step because it holds the design lock. `Datalog` evaluates
in any topological order of the strata; join orders are abstracted.
`Attestation` has a reviewer who judges, `machinery attest` that renders the
judgement as a row, people who edit artifacts, rows and the implementation, and
the gate that holds rows to what it captured and, given an implementation,
looks again when it ends (`Stood`). Digests are free of collisions,
and rows are taken at their word about who reviewed: attribution, not
authentication. The capture is atomic here; `TreeSnapshot` has its grain. Empty
acceptance directories and the shape of the YAML are left out.

## 4. Runs

| Run | Question | Instance and why it is enough |
|---|---|---|
| `store_exclusive` | With leases that expire but are not raced for: is the writer exclusive, does the head name archived bytes, are answers kept, is one winner per head, is nothing left behind without an error that a caller heard, and is `HeadRegister` implemented? | 2 processes, 2 registrations, 2 generations, crashes, I/O errors and expiring leases anywhere: two racers, a retry, a conflict, an idempotent confirmation. The code looks at the head only through equality with `expected` and `successor` and at chains one longer than it |
| `custody_scopes` | Are signals aimed right, is "cleaned" true, is what a close reports settled unless its join ran out, does the loss of the owner clean up? | 1 worker beside the root: the close of the root, main and the child's channel already race for one job |
| `publications` | Whole or nothing, nothing lost, leftovers explained, no step that breaks a promise; is the lineage of registrations unbroken and everything registered declared? The properties name what the code does lose or refuse | 2 or 3 files per set, 1 or 2 calls, 2 kills, 1 error, 1 or 2 edits: a kill in a transaction and another in its recovery; 2 designs, 2 milestones, 2 revisions: a second revision is the first that has a predecessor |
| `publications_rerun` | Does running the interrupted command again end it, does every registration call return, and is a dead writer's token taken over? | smaller sets, with fairness; 2 registrars, one registration, leases of the dead expire |
| `operations` | Are receipts true, installations whole, refusals known, obligations kept, outside of the losses that the properties name? | 2 artifacts, 3 calls and an edit; an artifact placed twice; 2 sessions and 2 tools; 2 faults, 2 kills and 2 adoptions; 2 projects; 3 operations over the homes |
| `generators` | Is what is accepted what the model says, do runs leave nothing of a gone source, keep what is not theirs, do models end what they start? | 2 stages, 2 phases with a retry, 3 saga steps, 2 machines; 1 to 3 edits away from an accepted document |
| `evidence` | Are accepted documents, reports and readings true? | 2 or 3 manifests, 2 tests with 3 assertions, a whole plan, one with packets and one with shards, reviews whose history moves, trees of 1 to 3 names, 1 or 2 edits (3 writes to a runtime, 2 to a launcher, on both clocks and with or without a sentinel) |
| `gates` | Do selections agree, do accepted designs hold, does debt shrink, is the model perfect? | 3 changes of artifacts; 2 edits of a machine; 2 rows and 3 edits of reviewed artifacts; 5 edits and 3 recordings; 4 rules over 3 symbols |
| `store_orphan` | Can the store always be opened? No. | no race for an expired token, one crash |
| `lint_unchecked` | Does an accepted machine never leave an unchecked state into success? No. | two edits |
| `install_killed` | Does recovery finish a killed installation? No. | the instance `install` of `operations` |
| `hook_newer` | Does a Stop never clear an edit it did not check? No. | the instance `ledger` of `operations` |

**Bounds.** Constants named `Max...` (and `AuthorEdits`, `ReviewEdits`,
`ReviewRows`) cap counters that the code leaves unbounded; the value is chosen
so that every disjunct of the next-state relations is taken and every mutant is
caught. So are `RuleLimit`, `TupleLimit` and `RoundLimit`, which the rule engine
has itself, `...Edits`, `...Retries`, `...Writes` and `CalNames`. The constants of the
components about which a suite proves something are constants of the suite, with
values in its cfg; the theorems of section 6 hold for all values.

**Deadlock** is not checked in any run because every instance ends: registrars
may all have crashed, processes have ended, edits and calls are used up.

## 5. Fairness

* Store: a process that has not crashed keeps executing (WF of its steps; it
  waits only in a polling loop), time passes (WF of `ExpireLease`), and the
  deadline of a call passes: SF of `Timeout`, because every call carries a
  context deadline that stays passed, and the loop looks at it only at its top.
  Nothing is assumed about how often registrars call or crash, or that I/O errors
  stop; the takeover of a dead token is claimed if registrars keep trying to make
  theirs.
* Custody: goroutines and processes that can take a step take it, killed targets
  die, a call's own timers fire. Nobody has to start or end a target, close the
  root, signal or die.
* Publications: a process that is not killed goes on, and the interrupted command
  is run again. For the design lock SF of rerunning the named writer: the
  message asks for it, and a rerun may meet the lock taken. For provisioning WF
  of each caller's own steps; the lock is waited for with a limit.
* Generators: the fairness that the emitted modules state themselves.

## 6. Proofs

TLAPS checks every theorem and lemma; nothing is assumed beyond the named
assumptions on constants, which TLC evaluates in the runs. 21 of the 39 checked
properties are stated by a theorem; `LineageUnbroken` and `RegisteredDeclared`,
checked in the suite, are proved of `Registration` itself.

### AssuranceStore, for any processes, registrations and generations

`TypeCorrect` and `DocumentsSupported` hold however leases expire. Under
`ExclusiveLease` (no token expires, or registrars do not race for one that did): `WriterExclusive`,
`HeadAlwaysArchived`, `ArchiveNeverAhead`, `HeadOnlyAppends`, `AnswersStayTrue`,
`AtMostOneCommit`, `QuiescentStoreExports`, `StoreImplementsRegister`. The
condition is needed: with a dead writer and two waiters TLC refutes
`HeadArchived`, and with suspended holders `HeadAppends` too.

The inductive invariant `StoreInv` says: whoever is inside has its own name in
the token, so a second holder is impossible (`LeaseInv`, `TokenInv`); a
successor is its expected head plus one registration (`ShapeInv`); which answers
go with which step (`OutcomeInv`); at each step after the comparison the head is
still the expected one, the staged head is the caller's own, and after the
archive step the successor is archived (`PhaseInv`); and the histories behind
answers already given (`AnswerInv`, `WonInv`). Only the holder changes the head
or removes an archive, and its head is unchanged since its own comparison, so the
rename appends one registration and the archive removed on an error path is
never on the chain. `SupportInv` carries the controls and bundles behind every
document from staging to head. For the transaction directory, `StagingInv` and
`LeavingInv` say who is responsible for removing it, or that `residue` holds and
the caller whose I/O error left it has not been served. The refinement maps an
answered call to its answer, a call past its rename to "won", and shows each
action of the store to be a step of the register or a stutter.

### Registration, for any designs, milestones and revisions

`TypeCorrect`, `LineageHolds`, `DeclaredHolds`, `OneDesignAtATime`. The lineage
needs that what the head names is in the history (`CurrentInHistory`), because
the rules look at the head and the property at the history.

### Custody, for any workers and any job limit

`Invariance`, `SignalsAreOwn`, `CleanedMeansGone`, `ReportsAreSettled`. Per job
(`Owned`): an unclaimed job has no retirement; a guardian is reaped only by a
retirement past its signals; a guardian is launched once, for a registered job;
the reaped flag is true of a reaped guardian; a settled, terminated job has an
empty group; and the close of a child has its job to retire until that
retirement has settled or its join ran out (`Joins`). The root lacks the last part: a job can be registered
after the root's close took its list, so the theorem promises less there.

### Evidence

`ReportsAreTrue`, for any tests, assertions, parents and faults, for the four
languages the code has (`AdapterAssumption`): what an adapter reports is true of
the run, with the exceptions per language that the property lists. The invariant is about shapes, about what was pinned before anything ran
(`Pinning`), about which failing test has a cause of its own (`Blame`), and about
how a run ended (`Ending`). `LauncherSettles`, for any number of rewrites:
`SettledInv` says that while Open has still to ask a sentinel and no event was
seen, on any clock, and while it has still to compare the metadata and the change
time is the one it noted, on a fine clock, the bytes retained are those in place.
On a coarse clock without a sentinel nothing is claimed.

`AcceptedDocuments`, for any manifests, designs, keys and tests, any expectations,
pairs and controls, any plans, slice maps, reviews and histories, and any number
of edits. Three arguments. *Declarations* (`Inv`): a review holds what its reviewer
saw, and every edit takes the acceptance back; that the designs can be put in an
order follows from `Acyclic` by counting, since what `Visited` comes to gets
smaller along an edge. *Calibration*: what is accepted has the form that Validate
checks; that a pass without repeated ids names every assertion is again counting.
*Plans*: `Judged` says that what the gates found on the snapshot is still what they
find, `Anchored` where the anchor of the history came from, and `Settled` that every
bound commit was held to it, though HEAD may have moved and objects may have been
pruned since. The rest is what a gate without findings says of the documents: one
lemma per promise, from `checkPlanDoc`, `checkPairwisePackets` or
`checkMatrixShards`, `claimLedger`, `checkDoDCoverage` and `checkThreatReview`. The
constants are assumed to be what the parsers make (`WellFormed` of each module):
finitely many manifests and rows, sequences where documents have lists, commits
that are in the history, and no element of the architecture or of the domain
model under `BUILD/`.

### Generators

* `GeneratedOutput!OutputsKept` and `OutputsConverged`, for any machines, semantics
  and compositions: a run keeps what other generators and people wrote outside the
  families it owns, and the outputs of other sources that it looks for and finds; a
  run that succeeded leaves no module of a source that is gone, and of its own
  sources what they give now. The invariant ties
  every generated name to the source that its header names. `OutputsAreCurrent`
  carries it into the suite.
* `EmittedIsFaithful`, for any stages, phases, retry states, saga steps, flags and
  number of edits. In each generator the invariant relates the state of the
  accepted machine to that of the emitted model, so that a step of one is a step
  of the other, up to the late error of a saga (section 7). `WellDeclared` asks for what reconciliation refuses to go without:
  no terminal among the stages, no state in two roles, no step twice. One state
  for success and failure passes reconciliation but is refuted by the emitted
  module's own check; of two retry states for one phase the later one counts, as in
  the code.
* `StepsKept`: an emitted aggregate moves forward, is reopened or faults, and
  `OutputsKept` in the suite.

### Gates

* `Ratchet!DebtOnlyShrinks` and `RecordingsKeep`, for any parts, files, findings,
  tokens and counts: what ratchet.json records was granted by a baseline run, and
  a recording writes the sections of the gates it names (`Inv`: `Shape`, `Kept`,
  `Grants`). Of a file that was damaged only the import edges and the armed gate
  are claimed (`~Damage`): the code really loses the rest. `Gates!DebtOnlyShrinks` and `Gates!RecordingsKeep` carry them
  into the suite.
* `Gates!SelectionsAgree`: for every set of artifacts, every staged list and
  every implementation; it needs no invariant beyond the types.
* `Gates!AcceptedAsJudged`, two arguments. *Lint*, for any number of edits: the
  accepted design stands while it runs (`LintInv`), and the machine is in a state
  of `Reached`. `Reached` is the closure of the entry under six steps because
  there are six states, which is shown by cardinality: each step adds a state or
  is the last. A run of eventless unguarded steps visits pairwise different
  states, since the lint refuses a cycle among them, so it is at most as long as
  there are states behind the one it stands in. *Attest*, for any claims, paths,
  entries, rows and edits: `AttInv` says that a row's covers agree with what its
  reviewer saw, that an inventory digest is of the tree that was seen, that the
  gate's capture describes itself, that an untouched record is as rendered, and
  that while nothing was written since the capture it is what is there now. What
  is accepted held at the capture; that it still stood at the end is proved for a
  gate that was given an implementation, as `Release` looks again only then.

* `RulesComputePerfectModel`, for any declarations, rules and facts that are well
  formed (finitely many, and a fact has a value for each attribute), with
  recursion, negation and aggregates: when the evaluator is done no rule derives
  a tuple that it missed, every tuple is derived and explained in finitely many
  steps, and nothing is invented. The invariant says of strata that are done
  that their rules derive nothing new (`Settled`), of the one under way that
  whatever its rules derive without this round's new tuples is there (`Owed`), and
  of every tuple that it was derived (`Proved`) in a round later than what it rests
  on (`Explained`). Semi-naive evaluation is the hard step: a match that uses a
  new tuple has a first atom that reads one, and the firing with that atom as its
  delta derives it. Strict reads are of lower strata, so a later stratum never
  changes what an earlier one derived. The first atom is found by
  well-foundedness, because the induction theorems cannot be used.

### Only model-checked, and why

* Liveness (`CallsReturn`, `DeadWriterReplaced`, `OwnerLossCleansUp`, `RerunsEnd`,
  `EmittedEnd`) and `ENABLED` are outside what the prover handles.
* `MatrixReconciles` counts over sequences with folds, and what a fold computes
  for every sequence needs induction over data, for which no installed prover can
  instantiate the library's theorems.
* `ReadAsItStood` depends on what a sequence of operations does to snapshots of
  trees; its inductive invariant has to describe every suffix of every reader's
  program, which is left for later.
* The properties of `Publications` and `Operations`: each is a
  conjunction over components whose invariants have not been stated inductively
  yet. Section 8 gives the order in which they are worth doing.

## 7. Findings

Reproduced by a run:

1. `store_orphan`: an archive left by a registration that stopped between
   archive and advance makes the store unopenable for ever once a different
   registration of the same head commits (`store.go:642`).
2. `lint_unchecked`: a transition that an untagged ancestor of an unchecked state
   declares is not looked at, so an accepted machine leaves an unchecked state
   straight into an accepting one (`failclosed.go:149`).
3. `install_killed`: a run killed while it copies into a stage, or between
   declaring a post-image and making it true, leaves a journal that every later
   recovery refuses (`install/transaction.go:2204`), where
   docs/agent-portability.md:109-111 promises that recovery finishes it.
4. `hook_newer`: revision numbers start again after a clear, so a slow Stop
   clears a newer ledger with an edit it never checked (`hook.go:4043`, against
   `:4009`).

Seen while modelling. The modules follow the code, the properties name or
exclude the case, and most modules still state the stronger formula that TLC
refutes:

* **Store and registration.** Two waiters that saw one dead token expired both
  become writers, and the loser removes the archive the new head names
  (`registration_store.go:773`). A failed fsync of ledger/heads is skipped by the
  retry (`HeadDurable`). Two registrations between a reader's two looks make it
  report a rollback (`NoFalseRollback`). A release that fails leaves the staging
  directory, so the store is not exportable until a later call cleans up
  (`registration_store.go:633-647`). Registering some milestones of a design
  drops its other registered ones (`registration_store.go:389`, `RegisteredStay`).
* **Custody.** A run admitted before the root is closing is launched after the
  close took its list, and the close answers "cleaned" (`broker.go:552`,
  `CleanedTreeIsEmpty`). The job limit is read and used under two locks
  (`broker.go:573`); two goroutines may close one result channel (`broker.go:795`).
  A join that runs out reports "cleaned" of a job whose guardian is reaped and
  whose group is still watched (`broker.go:882`).
* **Artifact sets.** A crash around the `mkdir` of the journal-update quarantine
  leaves a directory that recovery refuses (`durable.go:905`); where rename
  changes the ctime, a staged file in quarantine is refused (`durable.go:1189`).
* **Modelith, pack, formal.** Torn retirement, restoration and phase transition
  (`modelithtx/transaction.go:843`, `:960`, `:1001`), a stage taken over by another
  renderer (`:295`); a pack quarantine under an unjournaled name; a formal
  rollback that is not restartable, a torn witness record, and a file made while
  the old one is parked (`formal/transaction.go:1494`, `:973`, `:1491`).
* **Design lock, projection, embed.** An edit of the inputs blocks every rerun
  (`designlock.go:1559`); an empty quarantine blocks everybody (`:1819`); staged
  files without a bound record, hollow quarantines and linked targets block a
  projection (`project_transaction.go:601`, `:787`, `:442`); torn stages block a
  refresh (`embedtransaction.go:762`).
* **Installer.** A parked record and an interrupted retirement are refused as
  foreign residue (`install/transaction.go:661`, `:733`); a run killed while
  copying never recovers (`:2204`); a second placement is not restored (`:2646`,
  against docs/agent-portability.md:106-108); a
  change before the placement is overwritten (`:3208`); a copy removes what
  appears at its destination (`receipt.go:957`). Uninstalling a home that only a
  target records leaves the receipt's entry; naming the canonical home alone
  drops the second one; a recorded "claude" plugin can never be cleared.
* **Hooks.** A kill during a replacement starts an empty
  record or wedges later writes (`:3808`, `:3312`); a completion misses a ledger in
  quarantine (`boundary.go:484`); the marker is absent during its replacement
  (`hook.go:3234`), and a store is then taken for the first one (`:2386`);
  adoption may reset, may not be repeatable, and loses its
  journal (`adopt.go:41`, `:259`, `:226`); compaction orphans routes, overlooks
  fresh crash evidence and stops above its target (`retention.go:585`, `:347`,
  `:358`); a recorded route does not decide a Stop (`hook.go:1403`).
* **Generators and gates.** Reopening to the first stage is modelled and cannot
  be committed (`refine.go:405`); a final retry state is not refused (`:902`); two
  effects may share a flag (`:1283`); an error or timeout of a compensation that
  has undone everything is accepted (`:1269-1273`) and not in the model (`:1467`);
  hand-written members of an owned family are removed (`:2133`), and so is a live
  family whose semantics lie in another directory than the run's (`:2120-2122`);
  semantics may name another machine (`:962`). A refresh is not
  idempotent for shared keys and the gate reports rows localized in their key
  (`embedrefresh.go:463`, `embed.go:447`). The hook and the command differ for
  three gates (`hook.go:1848`; `suite.go:1-3` and docs/claude-plugin.md:66 speak of
  the exact same suite). A G4-only baseline over a damaged file lets debt in again
  (`cmd/machinery/baseline.go:105-119`, against `:175` and README.md:491 "it grows
  only with --grow"), and findings of a rule file at its limit are noted as
  resolved (`rules.go:495`). Unguarded eventless cycles through a compound's
  initial child are not seen, which the comment at `lint.go:602-603` says must be
  caught. Without an implementation Gv-attest does not look again at the end
  (`suite.go:133`); the dead-end check counts an
  ancestor's onDone.
* **Evidence.** An obligation row without tests counts as mapped, and a repeated
  id stands in for a missing one (`manifest.go:2200`, `:2266`). Adapters: caught
  assertions, late rewriting, custody after the record and any nonzero exit for
  TypeScript; panics (`go.go:902`, an ERROR by docs/test-assurance-contract.md:268
  and :282) and failed parents for Go; digests after discovery for
  Python. Launcher bytes are compared with themselves, and a census walks once
  (`python.go:249`, `elixir.go:544`, `typescript.go:520`). Java goes on without a
  mutation sentinel when none can be set up, and two writes within a tick then go
  unseen (`java.go:374-383`, `:405`). `file:` citations bypass
  the bound of a shard (`packet.go:1257`).

## 8. What is left

1. `CacheStage`, `DesignLock` and `HookPolicy`: their invariants are close to
   inductive. `ArtifactSet!AllOrNothing` for any number of items.
2. `ReadAsItStood` for `Census`, by an invariant over suffixes of the programs.
3. `AssuranceStore`: export and import against a concurrent registration.
   `Custody`: two workers and joined scopes.

**Not modelled.** Runs of the model checkers and the contents of packs, rendering
of prompts and rules, command-line parsing, the discovery and probing of
runtimes, the Alloy and oracle generators, canonical encodings and bundles, the
document checks of the gates that section 2 does not name: they are pure
functions of one input, rendering, or I/O without a protocol.
