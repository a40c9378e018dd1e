--------------------------- MODULE RuntimeClosure ---------------------------
(* The pinned runtime closures (internal/runtimeclosure): a handle is       *)
(* opened by retaining a launcher and fingerprinting a tree file by file,   *)
(* validated, used and closed, while someone rewrites the files.  Sizes and *)
(* names stay; what tells versions of a file apart is its content and its   *)
(* change time, which on a coarse clock two writes may share.  Both clocks   *)
(* are met: one is drawn for a behaviour, as is whether a watch can be set.  *)
EXTENDS Integers, Sequences, FiniteSets

CONSTANTS Langs,       \* of "go", "ts", "py", "ex", "java"
          MaxWrites,
          Clocks       \* of "fine" and "coarse"

Languages == {"go", "ts", "py", "ex", "java"}
Launcher == "bin"
Tree == <<"a", "b">>
TreeFiles == {"a", "b"}
Files == TreeFiles \cup {Launcher}


VARIABLES lang, clock, body, ctime, now, writes,
          pc,        \* "open", "ready", "validate" or "close": the call; "closed" and "failed" end it
          prog,      \* file operations the call still performs
          snap,      \* snap[f]: the change time last seen by the call
          got,       \* got[f]: the content the call has read
          rec, info, \* what Open recorded: contents, and the launcher's change time
          sentinel,  \* the launcher is watched: FALSE if the platform gave no watch
          moved,     \* kernel events on the launcher since it was opened
          seen,      \* trees that existed since the call began
          calm,      \* nothing was written since the call began
          held       \* the launcher was not written between the first and the last look at it
vars == <<lang, clock, body, ctime, now, writes, pc, prog, snap, got, rec, info, sentinel, moved, seen, calm, held>>

Coarse == clock = "coarse"   \* two writes may get the same change time
TreeNow == [f \in TreeFiles |-> body[f]]

----------------------------------------------------------------------------
(* What each runtime does to a file, in order.                              *)

Op(o, f) == <<[op |-> o, file |-> f]>>
Each(F(_)) == F(Tree[1]) \o F(Tree[2])

fingerprintGoRoot == LET one(f) == Op("read", f) IN Each(one)
hashTypeScriptFile(f) == Op("open", f) \o Op("read", f)
hashElixirFile(f) == Op("open", f) \o Op("read", f)
fingerprintPythonStdlib == LET one(f) == Op("stat", f) \o hashTypeScriptFile(f) IN Each(one)
fingerprintElixirTree == LET one(f) == Op("stat", f) \o hashElixirFile(f) IN Each(one)
inventoryTypeScriptRoot == LET one(f) == Op("stat", f) IN Each(one)
fingerprintTypeScriptPackage == inventoryTypeScriptRoot \o Each(hashTypeScriptFile)
inventoryJavaRoot == LET one(f) == Op("stat", f) IN Each(one)
hashJavaClosureFile(f) == Op("open", f) \o Op("read", f) \o Op("after", f)

\* Mutant of fingerprintJavaRoot: every file is looked at and hashed on its own.
fingerprintJavaRootSingly == LET one(f) == Op("stat", f) \o hashJavaClosureFile(f) IN Each(one)

fingerprintJavaRoot == LET one(f) == Op("after", f)
                       IN inventoryJavaRoot \o Each(hashJavaClosureFile) \o Each(one)

\* Mutant of openJavaLauncher: the sentinel is set up once the bytes are read.
openJavaLauncherBlind == Op("stat", Launcher) \o Op("open", Launcher) \o Op("read", Launcher)
                         \o Op("after", Launcher) \o Op("watch", Launcher) \o Op("events", Launcher)

openJavaLauncher == LET do(o) == [op |-> o, file |-> Launcher]
                    IN <<do("stat"), do("watch"), do("open"), do("read"), do("after"), do("events")>>
openTypeScriptBinary == LET do(o) == [op |-> o, file |-> Launcher] IN <<do("stat"), do("open"), do("read"), do("after")>>

OpenGo == Op("read", Launcher) \o fingerprintGoRoot
OpenTypeScript == openTypeScriptBinary \o fingerprintTypeScriptPackage
OpenPython == openTypeScriptBinary \o fingerprintPythonStdlib
OpenElixir == Op("read", Launcher) \o fingerprintElixirTree
OpenJava == openJavaLauncher \o fingerprintJavaRoot
Open == CASE lang = "go" -> OpenGo [] lang = "ts" -> OpenTypeScript [] lang = "py" -> OpenPython
          [] lang = "ex" -> OpenElixir [] lang = "java" -> OpenJava

revalidateGo == Op("read", Launcher) \o Op("same", Launcher) \o fingerprintGoRoot
revalidateTypeScript == Op("sameInfo", Launcher) \o fingerprintTypeScriptPackage

revalidatePython == Op("sameInfo", Launcher) \o fingerprintPythonStdlib

\* Mutant of revalidateElixir: the launchers are trusted.
revalidateElixirTree == fingerprintElixirTree

revalidateElixir == Op("read", Launcher) \o Op("same", Launcher) \o fingerprintElixirTree

\* Mutant of ValidateJava: equal bytes are enough for the launcher.
ValidateJavaBytes == Op("read", Launcher) \o Op("same", Launcher) \o fingerprintJavaRoot

ValidateJava == Op("sameInfo", Launcher) \o Op("read", Launcher) \o Op("sameInfo", Launcher) \o Op("same", Launcher)
                \o fingerprintJavaRoot
Revalidate == CASE lang = "go" -> revalidateGo [] lang = "ts" -> revalidateTypeScript
                [] lang = "py" -> revalidatePython [] lang = "ex" -> revalidateElixir
                [] lang = "java" -> ValidateJava

----------------------------------------------------------------------------
(* Calls.                                                                   *)

Begin(call, p) == /\ pc' = call /\ prog' = p /\ seen' = {TreeNow} /\ calm' = TRUE
                  /\ snap' = [f \in Files |-> -1]
                  /\ UNCHANGED <<lang, clock, body, ctime, now, writes, got, rec, info, sentinel, moved, held>>
Validate == pc = "ready" /\ Begin("validate", Revalidate)
Close == pc = "ready" /\ Begin("close", Revalidate)

sameJavaFileSnapshot(f, t) == ctime[f] = t
Passes(o) == LET f == o.file IN
    CASE o.op \in {"stat", "watch", "read"} -> TRUE
      [] o.op \in {"open", "after"} -> sameJavaFileSnapshot(f, snap[f])
      [] o.op = "events" -> ~(sentinel /\ moved)
      [] o.op = "sameInfo" -> sameJavaFileSnapshot(f, info)
      [] o.op = "same" -> got[f] = rec[f]

Step == /\ prog # <<>> /\ prog' = Tail(prog)
        /\ LET o == Head(prog) IN
           /\ pc' = IF Passes(o) THEN pc ELSE "failed"
           /\ snap' = IF o.op = "stat" THEN [snap EXCEPT ![o.file] = ctime[o.file]] ELSE snap
           /\ got' = IF o.op = "read" THEN [got EXCEPT ![o.file] = body[o.file]] ELSE got
           /\ sentinel' \in (IF o.op = "watch" THEN BOOLEAN ELSE {sentinel /\ o.op # "events"})
           /\ moved' = IF o.op = "watch" THEN FALSE ELSE moved
           /\ held' = IF o.op = "stat" /\ o.file = Launcher THEN TRUE ELSE held
        /\ UNCHANGED <<lang, clock, body, ctime, now, writes, rec, info, seen, calm>>

\* Mutant of Finish: the launcher alone makes a handle.
FinishEarly == /\ pc = "open" /\ Len(prog) <= 3 /\ rec' = got /\ info' = snap[Launcher] /\ pc' = "ready"
               /\ UNCHANGED <<lang, clock, body, ctime, now, writes, prog, snap, got, sentinel, moved, seen, calm, held>>

\* The closure digest of a revalidation is the one that was recorded.
Finish == /\ prog = <<>> /\ pc \in {"open", "validate", "close"}
          /\ \/ pc = "open" /\ rec' = got /\ info' = snap[Launcher] /\ pc' = "ready"
             \/ /\ pc # "open" /\ UNCHANGED <<rec, info>>
                /\ pc' = IF \E f \in TreeFiles : got[f] # rec[f] THEN "failed"
                         ELSE IF pc = "close" THEN "closed" ELSE "ready"
          /\ UNCHANGED <<lang, clock, body, ctime, now, writes, prog, snap, got, sentinel, moved, seen, calm, held>>

\* The launcher is no longer looked at.
Released == pc = "close" /\ \A i \in DOMAIN prog : prog[i].file # Launcher \/ prog[i].op = "same"

Write(f, fresh) ==
    /\ pc \notin {"closed", "failed"} /\ writes < MaxWrites /\ writes' = writes + 1
    /\ fresh \/ Coarse
    /\ body' = [body EXCEPT ![f] = 1 - @]
    /\ now' = (IF fresh THEN now + 1 ELSE now) /\ ctime' = [ctime EXCEPT ![f] = now']
    /\ moved' = (moved \/ f = Launcher) /\ held' = (held /\ (f # Launcher \/ Released)) /\ calm' = FALSE
    /\ seen' = seen \cup {[g \in TreeFiles |-> body'[g]]}
    /\ UNCHANGED <<lang, clock, pc, prog, snap, got, rec, info, sentinel>>

Init == /\ lang \in Langs /\ clock \in Clocks /\ body = [f \in Files |-> 0] /\ ctime = [f \in Files |-> 0] /\ now = 0 /\ writes = 0
        /\ pc = "open" /\ prog = Open
        /\ snap = [f \in Files |-> -1] /\ got = [f \in Files |-> -1] /\ rec = [f \in Files |-> -1]
        /\ info = -1 /\ sentinel = FALSE /\ moved = FALSE /\ seen = {TreeNow} /\ calm = TRUE /\ held = FALSE
Next == Validate \/ Close \/ Step \/ Finish \/ \E f \in Files, fresh \in BOOLEAN : Write(f, fresh)
Spec == Init /\ [][Next]_vars

----------------------------------------------------------------------------
(* Properties.                                                              *)

TypeOK == /\ body \in [Files -> 0..1] /\ got \in [Files -> -1..1] /\ ctime \in [Files -> 0..MaxWrites]
          /\ pc \in {"open", "ready", "validate", "close", "closed", "failed"}
          /\ (pc = "ready" => \A f \in Files : rec[f] >= 0)

Done == prog = <<>> /\ pc \in {"open", "validate", "close"}

\* On a fine clock, what the Java fingerprint hashed was the tree at one
\* instant.  Of the other languages that is not true (SingleInstant): a file is
\* not looked at after it was hashed (elixir.go:544, typescript.go:520).
JavaInstant == (Done /\ lang = "java" /\ ~Coarse) => [f \in TreeFiles |-> got[f]] \in seen
SingleInstant == (Done /\ ~Coarse) => [f \in TreeFiles |-> got[f]] \in seen

\* On a fine clock, a Java, TypeScript or Python handle that closes without an
\* error held one launcher from its first to its last look at it, also when the
\* old bytes were put back; Go and Elixir keep the bytes, not the change time
\* (go.go:294, elixir.go:319).
LauncherHeld == (pc = "closed" /\ lang \in {"java", "ts", "py"} /\ ~Coarse) => held

\* A change of the launcher or the tree that is there when the closing call
\* begins is reported, in particular one made between two calls; nothing is said
\* of files that are written while that call runs.
DriftSeen == (pc = "closed" /\ calm) => \A f \in Files : body[f] = rec[f]

\* The launcher bytes that Open retained are those in place at its last look:
\* when it asks the sentinel, if there is one, on either clock; and when it
\* compares the metadata, on a fine clock.  On a coarse clock without a sentinel
\* (none on the platform, or its setup failed: java.go:374-383, 405) other bytes
\* may be in place.
LastLook == \/ Head(prog).op = "events" /\ sentinel
            \/ Head(prog) = [op |-> "after", file |-> Launcher] /\ ~Coarse
LauncherSettled == (pc = "open" /\ prog # <<>> /\ LastLook /\ prog' # prog /\ pc' = "open")
                        => got[Launcher] = body[Launcher]
----------------------------------------------------------------------------
(* The inductive invariant of LauncherSettled (proofs in Evidence): the       *)
(* sentinel, if any, is armed before the bytes are read and asked after, and  *)
(* no write on a fine clock leaves the change time that was noted.            *)

Ops == [op : {"stat", "open", "read", "after", "watch", "events", "same", "sameInfo"}, file : Files]
Asks(o) == o.op = "events"

Compares(o) == o = [op |-> "after", file |-> Launcher]

\* Where the sentinel is asked, the launcher was read two steps before, and
\* where its metadata is compared, one step before; nothing in between reads or
\* arms again.  Every rest of such a program is one.
Sentinel(s) == \A i \in DOMAIN s :
    /\ Asks(s[i]) /\ i > 1 => s[i - 1] = [op |-> "after", file |-> Launcher]
    /\ Asks(s[i]) /\ i > 2 => s[i - 2] = [op |-> "read", file |-> Launcher]
    /\ Compares(s[i]) /\ i > 1 => s[i - 1] = [op |-> "read", file |-> Launcher]

Timed == /\ now \in Nat /\ ctime \in [Files -> Int] /\ snap \in [Files -> Int]
         /\ snap[Launcher] <= now /\ ctime[Launcher] <= now

SettledInv ==
  /\ lang \in Languages
  /\ prog \in Seq(Ops) /\ got = [f \in Files |-> got[f]] /\ body = [f \in Files |-> body[f]]
  /\ Timed
  /\ pc = "open" =>
       /\ Sentinel(prog)
       /\ \A i \in DOMAIN prog : Asks(prog[i]) /\ i <= 2 /\ ~moved => got[Launcher] = body[Launcher]
       /\ prog # <<>> /\ Compares(Head(prog)) /\ ~Coarse /\ snap[Launcher] = ctime[Launcher]
            => got[Launcher] = body[Launcher]

Eventless == {s \in Seq(Ops) : \A i \in DOMAIN s : ~Asks(s[i]) /\ ~Compares(s[i])}
=============================================================================
