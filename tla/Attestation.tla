---------------------------- MODULE Attestation ----------------------------
(* Gv-attest (internal/gates/attest.go): a reviewer judges parts of a design *)
(* or of an implementation, machinery attest renders what was judged as a    *)
(* row of attestations.yaml, people go on editing all of it, and the gate    *)
(* holds every row to the artifacts as they are.                             *)
EXTENDS Integers

CONSTANTS Claims,    \* the claims of the vocabulary that are owed, one of each kind
          Paths,     \* the artifacts of the design
          Entries,   \* the files of an implementation root
          Inside,    \* the implementation root contains the design
          MaxEdits, MaxRows

None == "none"               \* no kind, or no root
Nothing == [nothing |-> TRUE]
Roots == {"impl", "copy"}
Slots == 1..MaxRows           \* the places of rows in the record

----------------------------------------------------------------------------
(* The vocabulary: what a claim is about, when it is owed, and its kind.    *)

subjects(c) == Paths \cap (CASE c = "g2" -> {"ARCHITECTURE.md"}
                             [] c = "g3" -> {"m.machine", "m.matrix"}
                             [] c \in {"gt", "g4", "g4.standin"} -> {"BUILD.md", "BUILD/p.md"}
                             [] c = "g4.pack" -> {"pack/pack.yaml", "pack/x"}
                             [] c = "ga" -> {"acceptance/m.yaml"})

\* Content 2 of a build document declares neighbor stand-ins.
declaresNeighborStandIns(d) == \E p \in {"BUILD.md", "BUILD/p.md"} \cap Paths : d[p] = 2
Present(d, p) == p \in Paths /\ d[p] # 0
owed(c, d) == CASE c = "g2" -> Present(d, "ARCHITECTURE.md")
                [] c = "g3" -> Present(d, "m.machine")
                [] c \in {"gt", "g4"} -> Present(d, "BUILD.md")
                [] c = "g4.standin" -> declaresNeighborStandIns(d)
                [] c = "g4.pack" -> Present(d, "pack/pack.yaml")
                [] c = "ga" -> Present(d, "acceptance/m.yaml")
attestationClaimKinds(c) == CASE c \in {"gt", "g4.pack", "g4.standin"} -> "current"
                             [] c = "ga" -> "historical"
                             [] OTHER -> "plan"
Compatible(c, kind) == \/ kind = attestationClaimKinds(c)
                       \/ attestationClaimKinds(c) = "current" /\ kind = "plan"

\* Mutant of attestationRequiredPaths: only the root document of a build plan.
attestationRequiredPathsRoot(c, d) == {p \in subjects(c) : (c = "g2" \/ d[p] # 0) /\ p # "BUILD/p.md"}

\* The files that a row for the claim must cover.
attestationRequiredPaths(c, d) == {p \in subjects(c) : c = "g2" \/ d[p] # 0}

VARIABLES design,    \* [Paths -> 0..2]: content of an artifact, 0 when there is none
          impl,      \* [Roots -> [Entries -> 0..2]]
          version,   \* of attestations.yaml: 1, 2, or 0 when there is none
          rows,      \* [Slots -> a row or Nothing]
          writes,    \* how often it was written
          edits, clean,  \* nothing changed since the only row was rendered
          held,      \* what a gate that is running has captured, or Nothing
          result     \* what the last gate that ended found
docs == <<version, rows, writes>>
vars == <<design, impl, docs, edits, clean, held, result>>

----------------------------------------------------------------------------
(* The subject of a current review.                                         *)

\* Mutant of captured: the record itself is one of the files.
capturedRecord(r) == [root |-> r, files |-> impl[r], design |-> IF Inside THEN design ELSE <<>>,
                      record |-> IF Inside THEN writes ELSE 0]

\* Every file under the root but the evidence itself, which is written after.
captured(r) == [root |-> r, files |-> impl[r], design |-> IF Inside THEN design ELSE <<>>, record |-> 0]
\* A manifest lists the entries and names their digest (sha256 is collision free).
captureAttestationSubject(r) == [entries |-> captured(r), hash |-> captured(r)]
attestationDigest(m) == m.entries

\* Mutant of compareAttestationManifest: what was added is not looked at.
compareAttestationManifestAdded(m, fresh) ==
    /\ m.entries.root = fresh.entries.root /\ attestationDigest(m) = m.hash
    /\ \A e \in Entries : m.entries.files[e] # 0 => m.entries.files[e] = fresh.entries.files[e]

compareAttestationManifest(m, fresh) ==
    /\ m.entries.root = fresh.entries.root /\ attestationDigest(m) = m.hash
    /\ m.entries = fresh.entries /\ m.hash = fresh.hash

----------------------------------------------------------------------------
(* machinery attest, and people.                                            *)

\* A row carries what was judged: the files, and the tree of a current review.
Row(c, kind, covers, m, r) == [claim |-> c, kind |-> kind, covers |-> covers, manifest |-> m,
                               sawFiles |-> covers, sawTree |-> captured(r), sawRoot |-> r]
Hashed(S) == [p \in S |-> design[p]]

Listed(q) == {i \in Slots : q[i] # Nothing}
Write(v, q) == version' = v /\ rows' = q /\ writes' = writes + 1
Put(v, i, x) == Write(v, [rows EXCEPT ![i] = x])
Edit == edits < MaxEdits /\ edits' = edits + 1 /\ UNCHANGED <<held, result>>

\* RenderAttestation, and the reviewer who merges the row that was rendered
\* from what the reviewer had judged, in the place of an older row or not.
Attest == \E c \in Claims, kind \in {"plan", "current", "historical"}, r \in Roots, i \in Slots :
    LET S == attestationRequiredPaths(c, design)
    IN /\ Edit /\ Compatible(c, kind) /\ S # {} /\ \A p \in S : design[p] # 0
       /\ kind # "current" => r = "impl"
       /\ i \in Listed(rows) => rows[i].claim = c
       /\ Put(2, i, Row(c, kind, Hashed(S), IF kind = "current" THEN captureAttestationSubject(r) ELSE Nothing, r))
       /\ clean' = (Listed(rows) \subseteq {i}) /\ UNCHANGED <<design, impl>>

\* A legacy record: no kinds.
WriteLegacy == \E c \in Claims, i \in Slots :
    LET S == attestationRequiredPaths(c, design)
    IN /\ Edit /\ Listed(rows) = {} /\ S # {}
       /\ Put(1, i, Row(c, None, Hashed(S), Nothing, "impl")) /\ clean' = FALSE /\ UNCHANGED <<design, impl>>

Change == /\ Edit /\ clean' = FALSE /\ UNCHANGED docs
          /\ \/ \E p \in Paths, v \in 0..2 : v # design[p] /\ design' = [design EXCEPT ![p] = v] /\ UNCHANGED impl
             \/ \E e \in Entries, v \in 0..2 : v # impl["impl"][e] /\ impl' = [impl EXCEPT !["impl"][e] = v] /\ UNCHANGED design

\* What people make of a row: they judge a file again or leave one out, change
\* the kind, drop the inventory or correct an entry of it by hand.
With(f, p) == [q \in DOMAIN f \cup {p} |-> IF q = p THEN design[p] ELSE f[q]]
JudgeAgain(x, p) == [x EXCEPT !.covers = With(x.covers, p), !.sawFiles = With(x.sawFiles, p)]
LeaveOut(x, p) == [x EXCEPT !.covers = [q \in DOMAIN x.covers \ {p} |-> x.covers[q]]]
Corrected(m, e) == [m EXCEPT !.entries.files[e] = impl["impl"][e]]
Correct(x, e) == [x EXCEPT !.manifest = Corrected(x.manifest, e)]
Rewritings(x) ==
    {JudgeAgain(x, p) : p \in Paths} \cup {LeaveOut(x, p) : p \in DOMAIN x.covers}
    \cup {[x EXCEPT !.kind = k] : k \in {None, "plan", "current"}}
    \cup IF x.manifest = Nothing THEN {} ELSE {[x EXCEPT !.manifest = Nothing]} \cup {Correct(x, e) : e \in Entries}

\* People rewrite a row, or change the version of the record.
Rewrite == /\ Edit /\ clean' = FALSE /\ UNCHANGED <<design, impl>>
           /\ \/ version # 0 /\ Write(3 - version, rows)
              \/ \E i \in Listed(rows) : \E y \in Rewritings(rows[i]) \ {rows[i]} : Put(version, i, y)

----------------------------------------------------------------------------
(* The gate.                                                                *)

\* AcquireSnapshot and captureAttestationSubject.
Capture == \E r \in Roots \cup {None} :
    /\ held = Nothing
    /\ held' = [design |-> design, version |-> version, rows |-> rows, root |-> r, clean |-> clean, writes |-> writes,
                fresh |-> IF r = None THEN Nothing ELSE captureAttestationSubject(r)]
    /\ result' = Nothing /\ UNCHANGED <<design, impl, docs, edits, clean>>

\* The row's own schema, at the version of the record.
parseAttestationRow(x, v) ==
    /\ DOMAIN x.covers # {}
    /\ IF v = 1 THEN x.kind = None /\ x.manifest = Nothing
       ELSE /\ x.kind # None /\ Compatible(x.claim, x.kind)
            /\ IF x.kind = "current" THEN x.manifest # Nothing ELSE x.manifest = Nothing
kindOf(x, v) == LET class == attestationClaimKinds(x.claim)
                IN IF v # 1 THEN x.kind ELSE IF class = "current" THEN "plan" ELSE class

\* Mutant of checkAttestationFreshness: only that the covered files exist.
checkAttestationFreshnessExists(x, d) == \A p \in DOMAIN x.covers : d[p] # 0

checkAttestationFreshness(x, d) == \A p \in DOMAIN x.covers : d[p] # 0 /\ d[p] = x.covers[p]
checkAttestationSubjects(x, d) == attestationRequiredPaths(x.claim, d) \subseteq DOMAIN x.covers
RowHolds(x, h) ==
    /\ parseAttestationRow(x, h.version)
    /\ checkAttestationFreshness(x, h.design) /\ checkAttestationSubjects(x, h.design)
    /\ ~(h.version = 1 /\ attestationClaimKinds(x.claim) = "current")
    /\ kindOf(x, h.version) = "current" => h.root # None /\ compareAttestationManifest(x.manifest, h.fresh)

RowsOf(h) == {h.rows[i] : i \in Listed(h.rows)}
Once(q) == \A i, j \in Listed(q) : q[i].claim = q[j].claim => i = j
checkAttestationsInSnapshot(h) ==
    /\ h.version # 0 /\ Listed(h.rows) # {} /\ Once(h.rows) /\ \A x \in RowsOf(h) : RowHolds(x, h)

\* Warnings: owed claims without a row, and plans where a review is owed.
checkAttestationCoverage(h) == {c \in Claims : owed(c, h.design) /\ \A x \in RowsOf(h) : x.claim # c}
PlanOnly(h) == {x \in RowsOf(h) : attestationClaimKinds(x.claim) = "current" /\ kindOf(x, h.version) # "current"}

\* Mutant of Stood: nothing is looked at again.
StoodOnce(h) == TRUE

\* Release looks again at what a current review was compared with, and at the
\* design, the record included.
Stood(h) == h.root # None => captureAttestationSubject(h.root) = h.fresh /\ design = h.design /\ writes = h.writes

CheckAttestationsWithImplementation ==
    /\ held # Nothing /\ held' = Nothing
    /\ result' = [pass |-> checkAttestationsInSnapshot(held) /\ Stood(held), at |-> held,
                  clean |-> clean /\ held.clean /\ held.writes = writes,
                  warns |-> checkAttestationCoverage(held) # {} \/ PlanOnly(held) # {},
                  stood |-> design = held.design /\ version = held.version /\ rows = held.rows,
                  now |-> IF held.root = None THEN Nothing ELSE captured(held.root)]
    /\ UNCHANGED <<design, impl, docs, edits, clean>>

Init == /\ design \in [Paths -> {1}] /\ impl = [r \in Roots |-> [e \in Entries |-> 1]]
        /\ version = 0 /\ rows = [i \in Slots |-> Nothing] /\ writes = 0 /\ edits = 0 /\ clean = FALSE
        /\ held = Nothing /\ result = Nothing
Next == Attest \/ WriteLegacy \/ Change \/ Rewrite \/ Capture \/ CheckAttestationsWithImplementation
Spec == Init /\ [][Next]_vars

----------------------------------------------------------------------------
(* Properties.                                                              *)

TypeOK == /\ design \in [Paths -> 0..2] /\ impl \in [Roots -> [Entries -> 0..2]]
          /\ version \in 0..2 /\ DOMAIN rows = Slots /\ edits \in 0..MaxEdits

Passed == result # Nothing /\ result.pass

\* A gate that passes holds every claim to what its reviewer judged: each
\* subject that the design had when the gate captured it was judged, and judged
\* as it was then.  If an implementation was given, the design and the record
\* stood so when the gate ended; otherwise nothing is looked at again
\* (suite.go:133), and they may have been edited since.
HeldAsJudged == Passed =>
    /\ \A x \in RowsOf(result.at) : \A p \in subjects(x.claim) : result.at.design[p] # 0 =>
         p \in DOMAIN x.sawFiles /\ x.sawFiles[p] = result.at.design[p]
    /\ result.at.root # None => result.stood

\* A current review that counts is of the whole implementation as it stood when
\* the gate ended, every file that was added or removed since included.
CurrentAsJudged == Passed => \A x \in RowsOf(result.at) :
    x.kind = "current" => x.sawTree = result.now /\ x.sawRoot = result.at.root

\* A gate that passes without a warning left no owed claim out, and settled no
\* current review by a plan.
Covered == Passed /\ ~result.warns => \A c \in Claims : owed(c, result.at.design) =>
    \E x \in RowsOf(result.at) : x.claim = c /\ (attestationClaimKinds(c) = "current" => x.kind = "current")

\* What machinery attest renders the gate accepts, as long as nothing changed,
\* also where the record lies in the tree that it describes.
RenderedPasses ==
    (/\ result # Nothing /\ result.clean
     /\ \A x \in RowsOf(result.at) : x.kind = "current" => result.at.root = x.sawRoot) => result.pass
=============================================================================
