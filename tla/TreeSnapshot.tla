---------------------------- MODULE TreeSnapshot ----------------------------
(* How a gate run holds the design and the implementation still: the reader  *)
(* takes fingerprints of trees that editors go on changing, copies them into *)
(* private directories, works on the copies, and looks at the originals      *)
(* again before its verdict counts (internal/designlock: designlock.go,      *)
(* source_snapshot.go, external_snapshot.go, file_snapshot.go,               *)
(* attestation_snapshot.go, private_snapshot.go; Snapshot in gates/suite.go).*)
(*                                                                           *)
(* The advisory lock binds the writers of the program only (DesignLock); the *)
(* editors here do not take it.  A reader is the sequence `todo' of the      *)
(* operations that it still has to do, and an editor may act between any two *)
(* of them.  Names are absolute, in the originals and in the copies.  A file *)
(* has a stamp, its size and times: an edit within one tick of a coarse      *)
(* clock leaves it as it was.                                                *)
EXTENDS Integers, Sequences, FiniteSets

CONSTANTS Reader,      \* "review", "checks", "hook", "input" or "workspace"
          Layout,      \* where the implementation is: "apart", "around", "inside" or "same"
          DesignNames, \* the names in the design
          ImplNames,   \* the names in the implementation
          Loose,       \* the names that come and go
          Odd,         \* what else such a name may be at first: "link", "alias" or "dir"
          Kinds,       \* what editors do
          MaxEdits     \* bound on the edits

VARIABLES tree,        \* the originals, as their names lead to them
          shadow,      \* what the handle of a replaced directory still shows
          todo,        \* what the reader still has to do
          walk,        \* the pass over a tree that it is in
          kept,        \* what it remembers of earlier passes
          wit,         \* the entries that it witnessed, per policy
          priv,        \* its private directories
          pending,     \* the review is current, if the release succeeds
          err,         \* something failed
          out,         \* its answer
          seen,        \* what there was to see, since the last mark
          touched,     \* what was edited while the review had to stand
          blind,       \* what was edited without a trace
          edits

vars == <<tree, shadow, todo, walk, kept, wit, priv, pending, err, out, seen, touched, blind, edits>>

Design == IF Layout = "around" THEN <<"i", "d">> ELSE <<"d">>
Impl == CASE Layout = "inside" -> <<"d", "i">> [] Layout = "same" -> <<"d">> [] OTHER -> <<"i">>
Paths == {Design, Impl} \cup {Design \o <<n>> : n \in DesignNames} \cup {Impl \o <<n>> : n \in ImplNames}
Roots == {Design, Impl}
Order == <<".git", "C", "c", "d", "f", "g", "i", "x">>
Name(p) == p[Len(p)]
Fold(n) == IF n = "C" THEN "c" ELSE n

\* attestationWithin, insideDesign, insideSource, externalDesignRel.
Within(p, q) == Len(p) <= Len(q) /\ SubSeq(q, 1, Len(p)) = p
Below(p) == {q \in Paths : Within(p, q) /\ q # p}
Excluded(root) == IF Design \in Below(root) THEN {Design} \cup Below(Design) ELSE {}

Missing == [kind |-> "none", ino |-> <<>>, mode |-> 0, body |-> "", stamp |-> 0]
Value(e) == IF e.kind = "dir" THEN <<"dir", e.mode, "">> ELSE <<e.kind, e.mode, e.body>>

\* What there is below a root, git's own directory aside.
Present(t, root) == {q \in Below(root) : \A p \in Below(root) \cup {root} : Within(p, q) => t[p].kind # "none" /\ Name(p) # ".git"}
Values(t, root) == [q \in Present(t, root) |-> Value(t[q])]
Now(t) == [design |-> Values(t, Design), impl |-> Values(t, Impl)]
Minus(values, drop) == [q \in DOMAIN values \ drop |-> values[q]]

----------------------------------------------------------------------------
(* The programs of the readers.                                              *)

Do(op, at) == [do |-> op, at |-> at, pol |-> "", as |-> ""]
As(op, field) == [do |-> op, at |-> <<>>, pol |-> "", as |-> field]
Named(op, at, field) == [do |-> op, at |-> at, pol |-> "", as |-> field]
Pass(root, pol) == [do |-> "pass", at |-> root, pol |-> pol, as |-> ""]

\* fingerprintFiltered: two passes that agree.
fingerprintFiltered(root) == <<Pass(root, "print"), As("keep", "one"), Pass(root, "print"), As("agree", "one")>>

\* fingerprintExternalTree: the design is nobody's external tree.
fingerprintExternalTree(root) == fingerprintFiltered(root) \o <<Do("drop", root)>>

\* copyExternalTree: a preflight and the copy through one handle, then the
\* original by its name again.
copyExternalTree(root) ==
  <<Pass(root, "preflight"), Pass(root, "copy"), As("keep", "values")>>
    \o fingerprintExternalTree(root) \o <<As("agree", "values")>>

\* Mutant of materializeDesignSource: the copy is not compared with the fingerprint.
materializeDesignSourceBlind ==
  <<Named("same", Design, "root"), As("make", "src")>> \o copyExternalTree(Design) \o <<As("keep", "src")>>

\* materializeDesignSource: the copy is of the generation that was fingerprinted.
materializeDesignSource ==
  <<Named("same", Design, "root"), As("make", "src")>> \o copyExternalTree(Design)
    \o <<As("agree", "snap"), As("keep", "src")>>

\* acquire, once it has the lock.
acquire == <<Named("note", Design, "root")>> \o fingerprintFiltered(Design) \o <<As("keep", "snap")>>
             \o materializeDesignSource \o <<Do("acquired", Design)>>

\* TrackExternalTree, MaterializeExternalTree and the part of
\* checkExternalUnchanged that is about trees.
TrackExternalTree(root) == <<Named("note", root, "ext")>> \o fingerprintExternalTree(root) \o <<As("keep", "ext")>>
checkExternalTree(root) == <<Named("same", root, "ext")>> \o fingerprintExternalTree(root) \o <<As("agree", "ext")>>
MaterializeExternalTree(root) ==
  IF Within(Design, root) THEN <<Do("inner", root)>>
  ELSE TrackExternalTree(root) \o <<As("make", "impl")>> \o copyExternalTree(root)
         \o <<As("agree", "ext"), As("keep", "copy")>> \o checkExternalTree(root)

\* MaterializeRegularFile copies one file; fingerprintExternal looks at it again.
OneFile == Impl \o <<"c">>
One(pol) == [do |-> "one", at |-> OneFile, pol |-> pol, as |-> ""]
checkExternalFile == <<Named("same", OneFile, "file"), One("print"), As("agree", "ext")>>

\* CheckUnchanged of the lock, with what is tracked.
CheckUnchanged(external) ==
  <<Named("same", Design, "root")>> \o fingerprintFiltered(Design) \o <<As("agree", "snap")>> \o external
MaterializeRegularFile ==
  <<As("make", "impl"), One("copy"), Named("note", OneFile, "file"), As("keep", "ext"), As("keep", "copy")>>
    \o CheckUnchanged(checkExternalFile)

\* MaterializeDesignWorkspace: the surroundings only if the held design refers
\* to them, and the held design in their middle.
MaterializeDesignWorkspace == <<Do("scope", Impl)>> \o MaterializeExternalTree(Impl) \o <<Do("join", Design)>>

\* checkDesign through the handle of the original; the retained copy is private.
checkDesign == <<Pass(Design, "held"), As("agree", "snap")>>

\* Mutant of CheckCapture: the names of the roots are not looked up again.
CheckCaptureHeld == <<Pass(Impl, "strict"), As("agree", "ents")>> \o checkDesign

\* CheckUnchanged of an attestation capture: names, inventory and design again.
CheckCapture == <<Named("same", Impl, "impl"), Named("same", Design, "design"),
                  Pass(Impl, "strict"), As("agree", "ents")>> \o checkDesign

\* MaterializeAttestationTree, captureAttestationSubject.
Copied == IF Within(Design, Impl) THEN <<>> ELSE <<As("make", "impl")>>
MaterializeAttestationTree ==
  <<Named("open", Impl, "impl"), Named("open", Design, "design"), Named("same", Design, "root")>> \o checkDesign
    \o Copied \o <<Pass(Impl, "strict"), As("keep", "ents")>> \o CheckCapture

\* Release: the captures, the lock's generation and the private directories;
\* then the pending results are final.
Closing == <<As("isolate", "impl"), As("empty", "impl"), As("isolate", "src"), As("empty", "src"), Do("final", Design)>>
\* Mutant of Release: the captures are closed without a look at the originals.
ReleaseUnchecked == <<Do("releasing", Design)>> \o CheckUnchanged(<<>>) \o Closing

Release == <<Do("releasing", Design)>> \o (IF Reader = "review" THEN CheckCapture \o CheckUnchanged(<<>>) ELSE <<>>)
             \o Closing

\* RunSelected and the callers of the other snapshots: work on the copies, then
\* CheckUnchanged.
Program ==
  CASE Reader = "review" -> acquire \o MaterializeAttestationTree \o <<Do("rows", Impl)>> \o Release
    [] Reader = "checks" -> acquire \o MaterializeExternalTree(Impl) \o <<Do("releasing", Design)>>
         \o CheckUnchanged(IF Within(Design, Impl) THEN <<>> ELSE checkExternalTree(Impl)) \o Closing
    [] Reader = "hook" -> <<Do("policy", Design)>> \o acquire \o <<Do("held policy", Design)>> \o Release
    [] Reader = "input" -> acquire \o MaterializeRegularFile \o <<Do("releasing", Design)>>
         \o CheckUnchanged(checkExternalFile) \o Closing
    [] Reader = "workspace" -> acquire \o MaterializeDesignWorkspace \o <<Do("releasing", Design)>>
         \o CheckUnchanged(checkExternalTree(Impl)) \o Closing

----------------------------------------------------------------------------
(* The operations.                                                           *)

Is(op) == todo # <<>> /\ Head(todo).do = op
op1 == Head(todo)
Onward == todo' = Tail(todo) /\ UNCHANGED err

\* Whatever fails, the private directories are given back.
Fail == /\ err' = TRUE
        /\ todo' = SelectSeq(Tail(todo), LAMBDA o : o.do \in {"isolate", "empty", "final"})
Check(holds) == IF holds THEN Onward ELSE Fail
Others == <<tree, shadow, priv, pending, out, seen, touched, blind, edits>>
Ghosts == <<tree, shadow, seen, touched, blind, edits>>

\* What the handle of the pass shows under a name.
View(p) == IF walk.handle = tree[walk.root].ino THEN tree[p] ELSE shadow[p]

\* IgnoreFileName: one of its two texts omits the loose file.
IgnoreFile == Design \o <<"g">>
Ignores(body) == IF body = "b" THEN {Design \o <<"x">>} ELSE {}
Skipped == IF Reader = "hook" /\ walk.pol \in {"print", "preflight", "copy"} THEN Ignores(kept.policy) ELSE {}

\* Opening a root: the pass shows what the handle leads to.  The copy uses the
\* handle of its preflight, a capture the ones that it retains.
StartPass ==
  /\ Is("pass")
  /\ LET h == CASE op1.pol = "copy" -> walk.handle
                [] op1.pol = "strict" -> kept.ino["impl"]
                [] op1.pol = "held" -> kept.ino["design"]
                [] OTHER -> tree[op1.at].ino IN
     IF tree[op1.at].kind = "dir" \/ op1.pol \notin {"print", "preflight"}
     THEN /\ walk' = [root |-> op1.at, pol |-> op1.pol, handle |-> h, got |-> <<>>, info |-> Missing,
                      bytes |-> "", ids |-> {}, mutated |-> FALSE]
          /\ todo' = <<Do("look", op1.at)>> \o Tail(todo)
          /\ UNCHANGED err
     ELSE Fail /\ UNCHANGED walk
  /\ UNCHANGED <<kept, wit, Others>>

\* One file, under its own parent.
StartOne ==
  /\ Is("one")
  /\ walk' = [root |-> Impl, pol |-> op1.pol, handle |-> tree[Impl].ino, got |-> <<>>, info |-> Missing,
              bytes |-> "", ids |-> {}, mutated |-> FALSE]
  /\ IF tree[Impl].kind = "dir" /\ tree[op1.at].kind = "file"
     THEN todo' = <<Do("look", op1.at)>> \o Tail(todo) /\ UNCHANGED err
     ELSE Fail
  /\ UNCHANGED <<kept, wit, Others>>

SameDirectory(a, b) == a.kind = "dir" /\ b.kind = "dir" /\ a.ino = b.ino /\ a.mode = b.mode

\* Mutant of sameFingerprintFile: the times are not compared.
sameFingerprintFileTimeless(a, b) == a.kind = "file" /\ b.kind = "file" /\ a.ino = b.ino /\ a.mode = b.mode

sameFingerprintFile(a, b) ==
  a.kind = "file" /\ b.kind = "file" /\ a.ino = b.ino /\ a.mode = b.mode /\ a.stamp = b.stamp

\* captureAttestationRoot: an entry is what it was when it was first witnessed.
Witnessed(p, e) ==
  walk.pol \in {"strict", "held"} /\ p \in DOMAIN wit[walk.pol] =>
    LET w == wit[walk.pol][p] IN
    IF e.kind = "dir" THEN SameDirectory(w, e) ELSE sameFingerprintFile(w, e)

\* validateInventoryPath: no two names that differ in case only (the copy
\* itself relies on its preflight).
Portable(names) == \A m, n \in names : Fold(m) = Fold(n) => m = n

\* Git's administration is passed over; a strict capture refuses it below the
\* root, and one that is a link at the root.
GitAccepted(p, here) ==
  walk.pol = "strict" => \A q \in here : Name(q) = ".git" => p = walk.root /\ View(q).kind \in {"dir", "file"}

\* The children of a directory in the order of their names, then the directory
\* itself again; only the copy does not look back.
Visits(p, here) ==
  LET listed == SelectSeq(Order, LAMBDA n : p \o <<n>> \in here /\ n # ".git" /\ p \o <<n>> \notin Skipped
                             /\ (walk.pol \in {"copy", "preflight"} => p \o <<n>> \notin Excluded(walk.root)))
  IN [i \in DOMAIN listed |-> Do("look", p \o <<listed[i]>>)]
       \o (IF walk.pol = "copy" THEN <<>> ELSE <<Named("leave", p, "")>>)

\* fingerprintRootFiltered, validateExternalTreeForCopy, copyExternalTree and
\* captureAttestationRoot at one entry: links and special files are refused, a
\* strict capture refuses a second name of a file it has met.  A file is opened
\* here, and watched if its fingerprint is taken.
Look ==
  /\ Is("look")
  /\ LET p == op1.at
         e == View(p)
         here == {q \in Below(p) : Len(q) = Len(p) + 1 /\ View(q).kind # "none"}
         known == IF p = walk.root THEN walk.got ELSE [q \in DOMAIN walk.got \cup {p} |-> IF q = p THEN Value(e) ELSE walk.got[q]]
     IN
     /\ IF \/ e.kind \notin {"dir", "file"} \/ ~Witnessed(p, e)
           \/ e.kind = "dir" /\ (~GitAccepted(p, here) \/ (walk.pol # "copy" /\ ~Portable({Name(q) : q \in here \ Skipped})))
           \/ e.kind = "file" /\ walk.pol = "strict" /\ e.ino \in walk.ids
        THEN Fail /\ UNCHANGED <<walk, kept>>
        ELSE /\ todo' = (IF e.kind = "dir" THEN Visits(p, here)
                           ELSE IF walk.pol = "preflight" THEN <<>>
                           ELSE <<Do("read", p), Do("again", p)>>) \o Tail(todo)
             /\ walk' = [walk EXCEPT !.info = e, !.mutated = FALSE,
                                     !.got = IF e.kind = "dir" THEN known ELSE @,
                                     !.ids = IF e.kind = "file" THEN @ \cup {e.ino} ELSE @]
             /\ kept' = IF e.kind = "dir" THEN [kept EXCEPT !.dirs = [q \in DOMAIN @ \cup {p} |-> IF q = p THEN e ELSE @[q]]] ELSE kept
             /\ UNCHANGED err
     /\ wit' = IF walk.pol \in {"strict", "held"} /\ p \notin DOMAIN wit[walk.pol]
               THEN [wit EXCEPT ![walk.pol] = [q \in DOMAIN @ \cup {p} |-> IF q = p THEN e ELSE @[q]]] ELSE wit
  /\ UNCHANGED Others

\* streamFingerprint and copySnapshotFile read the open file, whatever its name
\* leads to by now.
Read ==
  /\ Is("read") /\ Onward
  /\ LET e == View(op1.at) IN
     walk' = [walk EXCEPT !.bytes = IF e.kind = "file" /\ e.ino = walk.info.ino THEN e.body ELSE walk.info.body]
  /\ UNCHANGED <<kept, wit, Others>>

\* The handle and the name must still be the file that was opened, and the
\* watch of a fingerprint must be silent.
Again ==
  /\ Is("again")
  /\ LET p == op1.at IN
     /\ Check(sameFingerprintFile(walk.info, View(p)) /\ ~(walk.pol = "print" /\ walk.mutated))
     /\ walk' = [walk EXCEPT !.got = [q \in DOMAIN @ \cup {p} |->
                                        IF q = p THEN <<"file", walk.info.mode, walk.bytes>> ELSE @[q]]]
  /\ UNCHANGED <<kept, wit, Others>>
Leave ==
  /\ Is("leave")
  /\ Check(SameDirectory(kept.dirs[op1.at], View(op1.at)))
  /\ UNCHANGED <<walk, kept, wit, Others>>

\* What a pass found is remembered, compared (firstFingerprintChange), and
\* freed of the design.
Keep ==
  /\ Is("keep") /\ Onward
  /\ kept' = [kept EXCEPT ![op1.as] = walk.got]
  /\ UNCHANGED <<walk, wit, Others>>
Agree ==
  /\ Is("agree")
  /\ Check(walk.got = kept[op1.as])
  /\ UNCHANGED <<walk, kept, wit, Others>>
Drop ==
  /\ Is("drop") /\ Onward
  /\ walk' = [walk EXCEPT !.got = Minus(@, Excluded(op1.at))]
  /\ UNCHANGED <<kept, wit, Others>>

\* The identity of a root or of a file: noted, retained with its handle, and
\* looked up again by name.  A capture compares the mode of a root too.
Note ==
  /\ Is("note")
  /\ Check(tree[op1.at].kind \in {"dir", "file"})
  /\ kept' = [kept EXCEPT !.ino[op1.as] = tree[op1.at].ino]
  /\ UNCHANGED <<walk, wit, Others>>
openAttestationRoot ==
  /\ Is("open")
  /\ Check(tree[op1.at].kind = "dir")
  /\ kept' = [kept EXCEPT !.ino[op1.as] = tree[op1.at].ino, !.mode[op1.as] = tree[op1.at].mode]
  /\ UNCHANGED <<walk, wit, Others>>
Same ==
  /\ Is("same")
  /\ Check(/\ tree[op1.at].kind # "none" /\ tree[op1.at].ino = kept.ino[op1.as]
           /\ op1.as \in {"impl", "design"} => tree[op1.at].mode = kept.mode[op1.as])
  /\ UNCHANGED <<walk, kept, wit, Others>>

\* The immutable source holds what the lock was acquired with; the marks are
\* where the properties begin to look.
Acquired ==
  /\ Is("acquired") /\ Onward
  /\ out' = "held"
  /\ UNCHANGED <<walk, kept, wit, priv, pending, Ghosts>>
Releasing ==
  /\ Is("releasing") /\ Onward
  /\ seen' = {Now(tree)}
  /\ UNCHANGED <<tree, shadow, walk, kept, wit, priv, pending, out, touched, blind, edits>>

\* A root inside the design is taken from the retained source.
Inner ==
  /\ Is("inner")
  /\ LET src == [q \in DOMAIN kept.src \cup {Design} |-> IF q = Design THEN <<"dir", 0, "">> ELSE kept.src[q]] IN
     /\ Check(op1.at \in DOMAIN src /\ src[op1.at][1] = "dir")
     /\ kept' = [kept EXCEPT !.copy = [q \in DOMAIN kept.src \cap Below(op1.at) |-> kept.src[q]]]
  /\ UNCHANGED <<walk, wit, Others>>

\* designUsesParentRelativeInput reads the retained source; without such a
\* reference the source itself is the workspace.
Refers(src) == \E q \in DOMAIN src : Name(q) = "f" /\ src[q][3] = "b"
Scope ==
  /\ Is("scope")
  /\ IF Refers(kept.src)
     THEN Onward /\ UNCHANGED kept
     ELSE /\ kept' = [kept EXCEPT !.copy = kept.src]
          /\ todo' = Closing /\ UNCHANGED err
  /\ UNCHANGED <<walk, wit, Others>>
Join ==
  /\ Is("join") /\ Onward
  /\ kept' = [kept EXCEPT !.copy = [q \in DOMAIN @ \cup DOMAIN kept.src |->
                                      IF q \in DOMAIN kept.src THEN kept.src[q] ELSE @[q]]]
  /\ UNCHANGED <<walk, wit, Others>>

\* AcquireHookSnapshot reads its policy before the lock, and again in the copy.
HookPolicyRead ==
  /\ Is("policy") /\ Onward
  /\ kept' = [kept EXCEPT !.policy = tree[IgnoreFile].body]
  /\ UNCHANGED <<walk, wit, Others>>

\* Mutant of HookPolicyHeld: the policy of the copy is not read.
HookPolicyHeldLate ==
  /\ Is("held policy") /\ Onward
  /\ UNCHANGED <<walk, kept, wit, Others>>

HookPolicyHeld ==
  /\ Is("held policy")
  /\ Check(IF IgnoreFile \in DOMAIN kept.src THEN kept.src[IgnoreFile][3] = kept.policy ELSE kept.policy = "")
  /\ UNCHANGED <<walk, kept, wit, Others>>

\* checkAttestationsInSnapshot: the captured inventory is the reviewed one.
Rows ==
  /\ Is("rows") /\ Onward
  /\ pending' = (kept.ents = kept.row)
  /\ UNCHANGED <<tree, shadow, walk, kept, wit, priv, out, seen, touched, blind, edits>>

\* newPrivateSnapshot, and Close: the name is moved aside, and what was moved is
\* emptied if it is the directory that was made, and put back if not.
Make ==
  /\ Is("make") /\ Onward
  /\ priv' = [priv EXCEPT ![op1.as].name = "own"]
  /\ UNCHANGED <<walk, kept, wit, pending, out, Ghosts>>
Isolate ==
  /\ Is("isolate") /\ Onward
  /\ LET d == priv[op1.as] IN
     priv' = [priv EXCEPT ![op1.as].name = "none", ![op1.as].aside = d.name]
  /\ UNCHANGED <<walk, kept, wit, pending, out, Ghosts>>

\* Mutant of Empty: what was moved aside is emptied whatever it is.
EmptyAny ==
  /\ Is("empty") /\ Onward
  /\ priv' = [priv EXCEPT ![op1.as].aside = "none"]
  /\ UNCHANGED <<walk, kept, wit, pending, out, Ghosts>>

Empty ==
  /\ Is("empty")
  /\ LET d == priv[op1.as] IN
     IF d.aside = "theirs"
     THEN /\ Fail
          /\ priv' = IF d.name = "none" THEN [priv EXCEPT ![op1.as].name = "theirs", ![op1.as].aside = "none"] ELSE priv
     ELSE Onward /\ priv' = [priv EXCEPT ![op1.as].aside = "none"]
  /\ UNCHANGED <<walk, kept, wit, pending, out, Ghosts>>

\* Mutant of finalizeAttestationResults: the error of the release is not looked at.
finalizeAttestationResultsAnyway ==
  /\ Is("final")
  /\ todo' = <<>> /\ UNCHANGED err
  /\ out' = IF pending THEN "established" ELSE IF err THEN "refused" ELSE "done"
  /\ UNCHANGED <<walk, kept, wit, priv, pending, Ghosts>>

\* finalizeAttestationResults: a pending review counts if nothing failed.
finalizeAttestationResults ==
  /\ Is("final")
  /\ todo' = <<>> /\ UNCHANGED err
  /\ out' = IF err THEN "refused" ELSE IF pending THEN "established" ELSE "done"
  /\ UNCHANGED <<walk, kept, wit, priv, pending, Ghosts>>

----------------------------------------------------------------------------
(* The editors.                                                              *)

Fresh(p, k) == [kind |-> k, ino |-> <<p, 0>>, mode |-> 0, body |-> IF k = "file" THEN "a" ELSE "", stamp |-> 0]
Edited(p, kind, now) ==
  LET e == tree[p] IN
  CASE kind = "write" -> [e EXCEPT !.body = IF @ = "a" THEN "b" ELSE "a"]
    [] kind = "replace" -> [e EXCEPT !.ino = <<p, now>>]
    [] kind = "chmod" -> [e EXCEPT !.mode = 1 - @]
    [] kind = "toggle" -> IF e.kind = "none" THEN [Fresh(p, "file") EXCEPT !.ino = <<p, now>>] ELSE Missing

\* An edit that the capture has yet to look for: its names are looked up once
\* more, or its entries.
Watched(p, kind) ==
  /\ Reader = "review" /\ kept.ents # <<>>
  /\ \E i \in DOMAIN todo : IF p \in Roots /\ kind = "replace" THEN todo[i].do = "same" /\ todo[i].as = "impl"
                            ELSE todo[i].pol = "strict" /\ kept.ino["impl"] = tree[Impl].ino

\* A write, a replacement by rename, a change of mode, a name that comes or
\* goes; a directory is replaced with everything in it.
Edit(p, kind, quiet) ==
  /\ edits < MaxEdits /\ todo # <<>> /\ kind \in Kinds
  /\ CASE kind = "write" -> tree[p].kind = "file"
       [] kind = "replace" -> tree[p].kind = "file" \/ (p \in Roots /\ shadow = <<>> /\ ~quiet)
       [] kind = "chmod" -> tree[p].kind # "none" /\ ~quiet
       [] kind = "toggle" -> Name(p) \in Loose /\ tree[p].kind \in {"none", "file"} /\ ~quiet
  /\ LET now == edits + 1
         moved == IF p \in Roots /\ kind = "replace" THEN {p} \cup Below(p) ELSE {p} IN
     /\ tree' = [q \in Paths |-> IF q \notin moved \/ (q # p /\ tree[q].kind = "none") THEN tree[q]
                                 ELSE IF quiet THEN Edited(q, kind, now) ELSE [Edited(q, kind, now) EXCEPT !.stamp = now]]
     /\ shadow' = IF p \in Roots /\ kind = "replace" THEN tree ELSE shadow
     /\ walk' = IF walk.info.ino = tree[p].ino THEN [walk EXCEPT !.mutated = TRUE] ELSE walk
     /\ touched' = IF Watched(p, kind) THEN touched \cup moved ELSE touched
     /\ blind' = IF quiet /\ kind = "write" THEN blind \cup {p} ELSE blind
     /\ seen' = seen \cup {Now(tree')}
     /\ edits' = now
  /\ UNCHANGED <<todo, kept, wit, priv, pending, err, out>>

\* Somebody puts a directory of theirs at the name of a private one.
Usurp(x) ==
  /\ edits < MaxEdits /\ todo # <<>> /\ "usurp" \in Kinds
  /\ priv[x].name = "own" \/ (priv[x].name = "none" /\ priv[x].aside # "none")
  /\ priv' = [priv EXCEPT ![x].name = "theirs", ![x].usurped = TRUE]
  /\ edits' = edits + 1
  /\ UNCHANGED <<tree, shadow, todo, walk, kept, wit, pending, err, out, seen, touched, blind>>

Init ==
  /\ \E loose \in [{p \in Paths \ Roots : Name(p) \in Loose} -> {"none", "file"} \cup Odd], body \in {"a", "b"} :
       LET first == [p \in Paths |->
                       IF p \in Roots \/ (p \notin DOMAIN loose /\ Name(p) = ".git") THEN Fresh(p, "dir")
                       ELSE IF p \notin DOMAIN loose THEN [Fresh(p, "file") EXCEPT !.body = IF Name(p) \in {"f", "g"} THEN body ELSE "a"]
                       ELSE IF loose[p] = "none" THEN Missing
                       ELSE IF loose[p] = "alias" THEN [Fresh(p, "file") EXCEPT !.ino = <<Impl \o <<"c">>, 0>>]
                       ELSE Fresh(p, loose[p])] IN
       /\ tree = first
       /\ seen = {Now(first)}
       /\ kept = [one |-> <<>>, values |-> <<>>, snap |-> <<>>, src |-> <<>>, ext |-> <<>>, ents |-> <<>>, copy |-> <<>>,
                  row |-> Now(first).impl, policy |-> "", dirs |-> <<>>,
                  ino |-> [x \in {"root", "ext", "impl", "design", "file"} |-> <<>>],
                  mode |-> [x \in {"impl", "design"} |-> 0]]
  /\ shadow = <<>> /\ todo = Program
  /\ walk = [root |-> Design, pol |-> "", handle |-> <<>>, got |-> <<>>, info |-> Missing, bytes |-> "", ids |-> {}, mutated |-> FALSE]
  /\ wit = [x \in {"strict", "held"} |-> <<>>] /\ priv = [x \in {"src", "impl"} |-> [name |-> "none", aside |-> "none", usurped |-> FALSE]]
  /\ pending = FALSE /\ err = FALSE /\ out = "busy" /\ touched = {} /\ blind = {} /\ edits = 0

Step == \/ StartPass \/ StartOne \/ Look \/ Read \/ Again \/ Leave \/ Keep \/ Agree \/ Drop \/ Note \/ openAttestationRoot
        \/ Same \/ Acquired \/ Releasing \/ Inner \/ Scope \/ Join \/ HookPolicyRead \/ HookPolicyHeld \/ Rows \/ Make
        \/ Isolate \/ Empty \/ finalizeAttestationResults
Next == \/ Step
        \/ \E p \in Paths, kind \in Kinds \ {"usurp"}, quiet \in BOOLEAN : Edit(p, kind, quiet)
        \/ \E x \in DOMAIN priv : Usurp(x)
Spec == Init /\ [][Next]_vars

----------------------------------------------------------------------------

\* The reader's state has its shape.
TypeOK ==
  /\ \A p \in Paths : tree[p].kind \in {"none", "file", "dir", "link"} /\ tree[p].mode \in 0..1
  /\ out \in {"busy", "held", "refused", "done", "established"}
  /\ pending \in BOOLEAN /\ err \in BOOLEAN /\ edits \in 0..MaxEdits
  /\ \A x \in DOMAIN priv : priv[x].name \in {"none", "own", "theirs"}

\* A design is held as it stood at one instant, and the copy that the gates
\* read is that design, whatever was edited while it was fingerprinted and
\* copied; the paths that a hook omits are the ones that the held ignore file
\* omits.
HeldAtOneInstant ==
  /\ Is("acquired") /\ ~err =>
       /\ kept.src = kept.snap
       /\ \E s \in seen : kept.src = Minus(s.design, IF Reader = "hook" THEN Ignores(kept.policy) ELSE {})
  /\ Reader = "hook" /\ Is("releasing") /\ ~err =>
       \E s \in seen : kept.src = Minus(s.design, IF IgnoreFile \in DOMAIN s.design THEN Ignores(s.design[IgnoreFile][3]) ELSE {})

\* A current review counts only for the implementation that was reviewed: after
\* the release began it still stood, under its own name and beside the held
\* design, and no file of it was rewritten, replaced or given another mode since
\* it was captured.  Only a rewriting within a tick of the clock escapes.
ReviewStood ==
  out = "established" =>
    /\ kept.ents = kept.row
    /\ \E s \in seen : s.design = kept.snap /\ s.impl = kept.ents
    /\ touched \cap DOMAIN kept.ents \subseteq blind

\* The verdict of a run on copies counts only if originals and copies agreed at
\* one instant after the gates had run.
CopiesStood ==
  out = "done" /\ kept.copy # <<>> =>
    \E s \in seen :
      CASE Reader = "checks" -> s.design = kept.snap /\ Minus(s.impl, Excluded(Impl)) = kept.copy
        [] Reader = "input" -> OneFile \in DOMAIN s.impl /\ s.impl[OneFile] = kept.copy[OneFile]
        [] Reader = "workspace" -> Refers(kept.src) => Minus(s.impl, {Design}) = kept.copy
        [] OTHER -> TRUE

\* A directory that somebody put at the name of a private one is never removed,
\* and a run that met it does not succeed.
TheirsKept ==
  \A x \in DOMAIN priv : priv[x].usurped => priv[x].name = "theirs" \/ priv[x].aside = "theirs"
=============================================================================
