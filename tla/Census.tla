------------------------------- MODULE Census -------------------------------
(* Reading a directory tree that somebody else may change while it is read:  *)
(* the two-pass directory scan (internal/dirscan), the proof that a home's   *)
(* plugin cache serves the running version (install.go) and the snapshot of  *)
(* an install source (source_snapshot.go).  None of them holds a lock on the *)
(* tree.  Each takes what it read for true only if inode numbers, times,     *)
(* digests and the kernel's mutation events agree that nothing moved.        *)
(*                                                                           *)
(* A reader is the sequence `todo' of the steps it still has to take, and an *)
(* editor may act between any two of them.  Every edit leaves one of three   *)
(* marks: new times; a new change time only, because the modification time   *)
(* was set back; or no new time at all, because it fell into the tick of a   *)
(* coarse clock.  The kernel reports an event for each of them.              *)
EXTENDS Integers, FiniteSets, Sequences

CONSTANTS Reader,      \* who reads: "scan", "walk", "plugin" or "snapshot"
          HasChange,   \* the platform has change times
          HasEvents,   \* the platform has a mutation-event channel
          Limit,       \* most entries that a scan may return
          Attempts,    \* readAttempts: how often a disturbed scan is tried
          Passes,      \* witnessPasses of the plugin's success witness
          Marks,       \* the marks that edits leave: "clock", "set back", "tick"
          MaxEdits     \* bound on the edits

VARIABLES tree,        \* per entry: is it here, its inode, times and content
          todo,        \* the steps that the reader still has to take
          inv,         \* what the reader recorded of an entry
          hand,        \* the open file of the reader: what it was and its bytes
          watched,     \* the directories whose events the reader receives
          mutated,     \* the watched directories with an event
          found,       \* plugin: the marketplaces with the running version
          tries,       \* attempts of the scan so far
          copy,        \* snapshot: the bytes that were materialized
          out,         \* what the reader answered
          stretch,     \* the entries that the answer is about from here on
          moved,       \* of those, the ones that changed since
          blind,       \* entries with an edit that no time of the platform shows
          was,         \* the tree when the stretch ended
          edits

view == <<tree, todo, inv, hand, watched, mutated, found, tries, copy, out>>
vars == <<view, stretch, moved, blind, was, edits>>

\* The trees: the entries, the directory of each, and which are files.
Entries == CASE Reader = "scan" -> {".", "x", "y"}
             [] Reader = "walk" -> {".", "a", "x", "aw"}
             [] Reader = "plugin" -> {".", "a", "b", "av", "aw", "bv", "d", "f", "g"}
             [] Reader = "snapshot" -> {"s", "f", "x", "r"}
Parent(n) == CASE n \in {".", "s"} -> ".."
               [] n \in {"a", "b", "y"} -> "."
               [] n \in {"av", "aw"} -> "a"
               [] n = "bv" -> "b"
               [] n = "d" -> "av"
               [] n = "r" -> "agents"
               [] n = "x" -> IF Reader = "snapshot" THEN "s" ELSE "."
               [] OTHER -> IF Reader = "plugin" THEN "d" ELSE "s"
Files == Entries \cap {"f", "g", "r"}
Children(d) == {n \in Entries : Parent(n) = d}

\* What an editor may do: rewrite a file, replace an entry, take it away or
\* bring it.
Loose == Entries \ {".", "a", "b", "d", "s"}
Names(d) == {n \in Children(d) : tree[n].here}
Nothing == [stat |-> <<>>, names |-> {}, digest |-> "none"]

\* installFileChangeID, changeWitness: the change time, if there is one.
ChangeID(n) == IF HasChange \/ Reader \in {"scan", "walk"} THEN tree[n].ct ELSE 0

\* Mutant of Stat: the change identity is not compared.
StatNoChange(n) == IF tree[n].here THEN <<tree[n].ino, tree[n].mt>> ELSE <<>>

\* sameInstallTopologyEntry, sameSourceSnapshotEntry and stableInfo compare
\* identity, mode, size and modification time, and the change identity on top.
Stat(n) == IF tree[n].here THEN <<tree[n].ino, tree[n].mt, ChangeID(n)>> ELSE <<>>
Observed(n) == [stat |-> Stat(n), names |-> IF n \in {"a", "b", ".", "d", "s"} THEN Names(n) ELSE {}, digest |-> "none"]

----------------------------------------------------------------------------
(* The readers.                                                              *)

At(do, n) == [do |-> do, at |-> n]
Each(do, seq) == [i \in DOMAIN seq |-> At(do, seq[i])]

\* Mutant of readOnce: the watch is armed after the first pass.
readOnceLate == <<At("note", "."), At("begin", "."), At("arm", "."), At("same", "."), At("list", "."),
                  At("end", "."), At("same", "."), At("watches", "."), At("answer", ".")>>

\* readOnce: the watch is armed before the first look, and two passes through
\* separately opened handles must agree with the state before the first.
readOnce == <<At("arm", "."), At("note", "."), At("begin", "."), At("same", "."), At("list", "."),
              At("end", "."), At("same", "."), At("watches", "."), At("answer", ".")>>

\* Mutant of WalkBounded: each directory asks its own watch only.
WalkBoundedEach ==
  <<At("arm", "."), At("note", "."), At("begin", "."), At("list", "."), At("arm", "a"), At("note", "a"),
    At("begin", "a"), At("list", "a"), At("same", "a"), At("watches", "a"), At("same", "."),
    At("end", "."), At("answer", ".")>>

\* WalkBounded: the watch of a directory stays until the whole tree was walked,
\* and all of them are asked once more at the end.  A scan that starts again
\* below such a watch only meets it later.
WalkBounded ==
  <<At("arm", "."), At("note", "."), At("begin", "."), At("list", "."), At("arm", "a"), At("note", "a"),
    At("begin", "a"), At("list", "a"), At("same", "a"), At("watches", "a"), At("same", "."),
    At("end", "."), At("watches", "."), At("answer", ".")>>

\* walkPluginCacheTopologyWatched: the directories down to the version
\* directories, each with its leaves; the watch of a directory comes first,
\* and stays armed in later walks.
walkPluginCacheTopologyWatched(do) ==
  IF do = "note" THEN <<At("arm", "."), At(do, "."), At("arm", "a"), At(do, "a"), At("arm", "b"), At(do, "b")>>
  ELSE Each(do, <<".", "a", "b">>)

\* revalidatePluginCacheTopologyCensus: every directory again, bottom up.
revalidatePluginCacheTopologyCensus == Each("same", <<"b", "a", ".">>)

\* capturePluginCacheTopologyWatched: two walks, the census, the cache itself
\* and the watches.  A later capture compares with the first.
capturePluginCacheTopologyWatched(do) ==
  walkPluginCacheTopologyWatched(do) \o walkPluginCacheTopologyWatched("same")
    \o revalidatePluginCacheTopologyCensus \o <<At("same", "."), At("watches", ".")>>

\* capturePluginCacheTopology: the same under a channel of its own, whose events
\* the channel of the call receives too.
capturePluginCacheTopology ==
  walkPluginCacheTopologyWatched("same") \o walkPluginCacheTopologyWatched("same")
    \o revalidatePluginCacheTopologyCensus \o <<At("same", ".")>>

\* readCachedPluginFileRoot and walkCachedPluginInventory: a file is opened,
\* read, and looked at again under its name.
readCachedPluginFileRoot(do, f) == <<At("open", f), At("bytes", f), At(do, f)>>
walkCachedPluginInventory(do, entry) ==
  <<At(entry, "d")>> \o readCachedPluginFileRoot(do, "f") \o readCachedPluginFileRoot(do, "g")

\* validateCachedMachineryPlugin: an inventory, the meaning of every owned
\* member, the inventory again and the plugin's root.
validateCachedMachineryPlugin ==
  walkCachedPluginInventory("record", "note") \o <<At("begin", "f"), At("begin", "g")>>
    \o readCachedPluginFileRoot("valid", "f") \o readCachedPluginFileRoot("valid", "g")
    \o walkCachedPluginInventory("equal", "same") \o <<At("same", "a")>>

\* validateCachedPluginSuccessWitness: the inventory between two captures,
\* several times, then the metadata of every member, a capture and the root.
revalidateCachedPluginInventoryMetadata == Each("meta", <<"g", "f">>) \o <<At("same", "d")>>
WitnessPass ==
  capturePluginCacheTopology \o walkCachedPluginInventory("equal", "same") \o capturePluginCacheTopology
\* Mutant of validateCachedPluginSuccessWitness: one look at the topology, and none at the inventory.
validateCachedPluginSuccessWitnessOnce ==
  <<At("end", "f"), At("end", "g"), At("end", "av")>> \o capturePluginCacheTopology

validateCachedPluginSuccessWitness ==
  (IF Passes = 1 THEN WitnessPass ELSE WitnessPass \o WitnessPass)
    \o <<At("end", "f"), At("end", "g")>> \o revalidateCachedPluginInventoryMetadata
    \o <<At("end", "av")>> \o capturePluginCacheTopology \o <<At("same", "a")>>

\* Mutant of pluginInstalled: the watches of the call are not asked at the end.
pluginInstalledUnwatched ==
  <<At("arm", "..")>> \o capturePluginCacheTopologyWatched("note")
    \o <<At("begin", "av"), At("begin", "bv"), At("look", "a"), At("look", "b"), At("choose", ".")>>
    \o validateCachedMachineryPlugin
    \o capturePluginCacheTopologyWatched("same") \o validateCachedPluginSuccessWitness \o <<At("answer", ".")>>

\* pluginInstalled: a capture, the search for the running version in every
\* marketplace, its validation, a second capture, the success witness and the
\* watches of the whole call.
pluginInstalled ==
  <<At("arm", "..")>> \o capturePluginCacheTopologyWatched("note")
    \o <<At("begin", "av"), At("begin", "bv"), At("look", "a"), At("look", "b"), At("choose", ".")>>
    \o validateCachedMachineryPlugin \o capturePluginCacheTopologyWatched("same")
    \o validateCachedPluginSuccessWitness
    \o <<At("watches", "."), At("answer", ".")>>

\* copyEntry and copyFile: the names of the tree, a copy of each file under its
\* open handle, the directory again (its identity only), then the files that
\* are named one by one.
copyEntry == <<At("preflight", "s"), At("names", "s"), At("open", "f"), At("bytes", "f"), At("copied", "f"),
               At("open", "x"), At("copied", "x"), At("settle", "s"),
               At("open", "r"), At("bytes", "r"), At("copied", "r")>>

\* revalidateDirectoryCensus: the directory, its names, its children, the
\* directory again.
revalidateDirectoryCensus == <<At("meta", "s"), At("list", "s"), At("meta", "f"), At("meta", "x"), At("meta", "s")>>

\* Mutant of verifyUnchanged: only the census is taken again.
verifyUnchangedCensus == revalidateDirectoryCensus

\* verifyUnchanged, before the installation is committed: every entry with its
\* digest, and the census.
verifyUnchanged == <<At("list", "s"), At("bytes", "f"), At("equal", "f"), At("meta", "x"),
                     At("bytes", "r"), At("equal", "r")>> \o revalidateDirectoryCensus

\* acquireInstallSourceSnapshot, the installation from the copy, and the check before its commit.
acquireInstallSourceSnapshot ==
  copyEntry \o revalidateDirectoryCensus \o Each("begin", <<"s", "f", "x", "r">>)
    \o <<At("end", "s")>> \o verifyUnchanged \o <<At("answer", "s")>>

Program == CASE Reader = "scan" -> readOnce
             [] Reader = "walk" -> WalkBounded
             [] Reader = "plugin" -> pluginInstalled
             [] Reader = "snapshot" -> acquireInstallSourceSnapshot

----------------------------------------------------------------------------
(* The steps of a reader.                                                    *)

Is(do) == /\ todo # <<>>
          /\ Head(todo).do = do
n1 == Head(todo).at
Onward == todo' = Tail(todo)
Refuse == todo' = <<>> /\ out' = "refused"
Proceed == Onward /\ UNCHANGED out
Ghosts == <<stretch, moved, blind, was, edits>>
Rest == <<tree, Ghosts>>

\* Watch: the watch is on the open directory, and what happened before it is
\* not reported.
Watch ==
  /\ Is("arm") /\ Proceed
  /\ watched' = watched \cup {n1}
  /\ UNCHANGED <<inv, hand, mutated, found, tries, copy, Rest>>

\* Note: a directory and its leaves as the first pass sees them.  A listed
\* entry that is gone when it is looked at refuses.
Leaves(d) == {n \in Children(d) : n \in {"av", "aw", "bv", "x", "y"}}
Note ==
  /\ Is("note")
  /\ IF tree[n1].here /\ (Reader \in {"scan", "walk"} => Cardinality(Names(n1)) <= Limit)
     THEN Proceed ELSE Refuse
  /\ inv' = [n \in Entries |-> IF n \in {n1} \cup Leaves(n1) THEN Observed(n) ELSE inv[n]]
  /\ UNCHANGED <<hand, watched, mutated, found, tries, copy, Rest>>

\* ErrChanged: a scan that was disturbed starts again, a bounded number of times;
\* every other reader refuses.
Changed ==
  IF Reader = "scan" /\ tries < Attempts
  THEN todo' = readOnce /\ tries' = tries + 1 /\ watched' = {} /\ mutated' = {} /\ UNCHANGED out
  ELSE Refuse /\ UNCHANGED <<tries, watched, mutated>>
Stays == Proceed /\ UNCHANGED <<tries, watched, mutated>>

\* comparePluginCacheTopologyEntries, sameDirectoryState: a directory and its
\* leaves must be as they were recorded.
Same ==
  /\ Is("same")
  /\ IF \A n \in {n1} \cup Leaves(n1) : Observed(n) = inv[n] THEN Stays ELSE Changed
  /\ UNCHANGED <<inv, hand, found, copy, Rest>>

\* sameEntryNames: the names alone.
List ==
  /\ Is("list")
  /\ IF Names(n1) = inv[n1].names THEN Stays ELSE Changed
  /\ UNCHANGED <<inv, hand, found, copy, Rest>>

\* Mutant of Watches: the events are not asked for.
WatchesBlind ==
  /\ Is("watches") /\ Stays
  /\ UNCHANGED <<inv, hand, found, copy, Rest>>

\* validateTopologyMutationWatches: an event of any watched directory refuses.
Watches ==
  /\ Is("watches")
  /\ IF mutated = {} THEN Stays ELSE Changed
  /\ UNCHANGED <<inv, hand, found, copy, Rest>>

\* Opening a file retains the entry that its name led to; a name that was not
\* listed is passed over, and one that was and is gone refuses.
Open ==
  /\ Is("open")
  /\ IF tree[n1].here \/ (n1 = "x" /\ "x" \notin inv["s"].names) THEN Proceed ELSE Refuse
  /\ hand' = [stat |-> Stat(n1), bytes |-> tree[n1].body]
  /\ UNCHANGED <<inv, watched, mutated, found, tries, copy, Rest>>

\* The bytes are read while the entry may be rewritten under its open handle.
Bytes ==
  /\ Is("bytes")
  /\ IF tree[n1].here THEN Proceed ELSE Refuse
  /\ hand' = [stat |-> IF Head(Tail(todo)).do = "equal" /\ Reader = "snapshot" THEN Stat(n1) ELSE hand.stat,
              bytes |-> tree[n1].body]
  /\ UNCHANGED <<inv, watched, mutated, found, tries, copy, Rest>>

\* The handle and the name must still be the entry that was opened, with its
\* identity and modification time; the change time is not looked at here.
Unmoved == /\ tree[n1].here
           /\ SubSeq(Stat(n1), 1, 2) = SubSeq(hand.stat, 1, 2)

\* walkCachedPluginInventory records the metadata of after the read, and the
\* digest of what was read.
Taken == [stat |-> Stat(n1), names |-> {}, digest |-> hand.bytes]
Record ==
  /\ Is("record")
  /\ IF Unmoved THEN Proceed ELSE Refuse
  /\ inv' = [inv EXCEPT ![n1] = Taken]
  /\ UNCHANGED <<hand, watched, mutated, found, tries, copy, Rest>>

\* The bytes must mean what the running version expects of the member.
Valid ==
  /\ Is("valid")
  /\ IF Unmoved /\ hand.bytes = "good" THEN Proceed ELSE Refuse
  /\ UNCHANGED <<inv, hand, watched, mutated, found, tries, copy, Rest>>

\* compareCachedPluginInventories and verifyEntry: metadata and digest again.
Equal ==
  /\ Is("equal")
  /\ IF (Reader = "plugin" => Unmoved) /\ Taken = inv[n1] THEN Proceed ELSE Refuse
  /\ UNCHANGED <<inv, hand, watched, mutated, found, tries, copy, Rest>>

\* revalidateCachedPluginInventoryMetadata and the census: metadata only.
Meta ==
  /\ Is("meta")
  /\ IF Stat(n1) = inv[n1].stat THEN Proceed ELSE Refuse
  /\ UNCHANGED <<inv, hand, watched, mutated, found, tries, copy, Rest>>

\* pluginInstalled looks for the running version in each marketplace; the
\* container of `a' refuses when it holds no version at all, and that of `b'
\* comes and goes with its only version.
Look ==
  /\ Is("look")
  /\ LET v == IF n1 = "a" THEN "av" ELSE "bv" IN
     /\ IF n1 = "a" /\ Names(n1) = {} THEN Refuse ELSE Proceed
     /\ found' = IF tree[v].here THEN found \cup {n1} ELSE found
  /\ UNCHANGED <<inv, hand, watched, mutated, tries, copy, Rest>>

\* No running version is an answer, two are ambiguous; the copy in the second
\* marketplace has none of the owned members.
Choose ==
  /\ Is("choose")
  /\ CASE found = {} -> todo' = <<>> /\ out' = "absent"
       [] found = {"a"} -> Proceed
       [] OTHER -> Refuse
  /\ UNCHANGED <<inv, hand, watched, mutated, found, tries, copy, Rest>>

\* validateInstallSourceTraversal refuses a source without its required entries.
Preflight ==
  /\ Is("preflight")
  /\ IF tree["s"].here /\ tree["r"].here THEN Proceed ELSE Refuse
  /\ UNCHANGED <<inv, hand, watched, mutated, found, tries, copy, Rest>>

\* copyEntry lists a directory before it copies what it listed, and records its
\* metadata when all of it was copied.
NamesOf ==
  /\ Is("names") /\ Proceed
  /\ inv' = [inv EXCEPT ![n1] = Observed(n1)]
  /\ UNCHANGED <<hand, watched, mutated, found, tries, copy, Rest>>
Settle ==
  /\ Is("settle")
  /\ IF tree[n1].ino = inv[n1].stat[1] THEN Proceed ELSE Refuse
  /\ inv' = [inv EXCEPT ![n1].stat = Stat(n1)]
  /\ UNCHANGED <<hand, watched, mutated, found, tries, copy, Rest>>
Copied ==
  /\ Is("copied")
  /\ IF n1 = "x" /\ "x" \notin inv["s"].names
     THEN Proceed /\ UNCHANGED <<inv, copy>>
     ELSE /\ IF Unmoved THEN Proceed ELSE Refuse
          /\ inv' = [inv EXCEPT ![n1] = IF n1 = "x" THEN Observed(n1) ELSE Taken]
          /\ copy' = [copy EXCEPT ![n1] = IF n1 = "x" THEN "good" ELSE hand.bytes]
  /\ UNCHANGED <<hand, watched, mutated, found, tries, Rest>>

Answer ==
  /\ Is("answer")
  /\ todo' = <<>> /\ out' = "accepted"
  /\ UNCHANGED <<inv, hand, watched, mutated, found, tries, copy, Rest>>

\* The stretch of time that an answer speaks about.
Begin ==
  /\ Is("begin") /\ Proceed
  /\ stretch' = stretch \cup ({n1} \cup (IF Reader \in {"scan", "walk"} THEN Leaves(n1) ELSE {}))
  /\ moved' = moved \ (IF Reader = "scan" THEN Entries ELSE {})
  /\ was' = <<>>
  /\ UNCHANGED <<tree, inv, hand, watched, mutated, found, tries, copy, blind, edits>>
End ==
  /\ Is("end") /\ Proceed
  /\ stretch' = IF n1 \in Files THEN stretch \ {n1} ELSE {}
  /\ was' = IF was = <<>> THEN tree ELSE was
  /\ UNCHANGED <<tree, inv, hand, watched, mutated, found, tries, copy, moved, blind, edits>>

----------------------------------------------------------------------------
(* The editor.                                                               *)

\* The times that an edit leaves on the entry and, if names changed, on its
\* directory.
Stamped(e, mark, now) ==
  CASE mark = "clock" -> [e EXCEPT !.mt = now, !.ct = now]
    [] mark = "set back" -> [e EXCEPT !.ct = now]
    [] mark = "tick" -> e
Hidden(mark) == mark = "tick" \/ (mark = "set back" /\ ~HasChange /\ Reader \notin {"scan", "walk"})

\* An event goes to the watch on the entry's directory, and to one on the entry
\* itself when it is moved or removed.
Events(n, whole) == IF HasEvents THEN watched \cap ({Parent(n)} \cup (IF whole THEN {n} ELSE {})) ELSE {}

Edit(n, kind, mark) ==
  /\ edits < MaxEdits /\ todo # <<>>
  /\ edits' = edits + 1
  /\ LET now == edits + 1
         e == CASE kind = "write" -> [tree[n] EXCEPT !.body = IF @ = "good" THEN "bad" ELSE "good"]
                [] kind = "replace" -> [tree[n] EXCEPT !.ino = now, !.body = "bad"]
                [] kind = "toggle" -> [tree[n] EXCEPT !.here = ~@]
         d == Parent(n) IN
     tree' = [m \in Entries |->
                CASE m = n -> Stamped(e, mark, now)
                  [] m = d /\ kind # "write" -> Stamped(tree[m], mark, now)
                  [] OTHER -> tree[m]]
  /\ mutated' = mutated \cup Events(n, kind # "write")
  /\ moved' = moved \cup ({n} \cap stretch)
  /\ blind' = IF Hidden(mark) THEN blind \cup {n} ELSE blind
  /\ UNCHANGED <<todo, inv, hand, watched, found, tries, copy, out, stretch, was>>

Fresh == [here |-> TRUE, ino |-> 0, mt |-> 0, ct |-> 0, body |-> "good"]
Init ==
  /\ \E absent \in SUBSET (Loose \ {"f", "g", "r"}), bad \in SUBSET (Files \cap {"f"}) :
       tree = [n \in Entries |-> [Fresh EXCEPT !.here = n \notin absent, !.body = IF n \in bad THEN "bad" ELSE "good"]]
  /\ todo = Program /\ inv = [n \in Entries |-> Nothing] /\ hand = [stat |-> <<>>, bytes |-> "none"]
  /\ watched = {} /\ mutated = {} /\ found = {} /\ tries = 1 /\ copy = [n \in Entries |-> "none"]
  /\ out = "busy" /\ stretch = {} /\ moved = {} /\ blind = {} /\ was = <<>> /\ edits = 0

Step == \/ Watch \/ Note \/ Same \/ List \/ Watches \/ Open \/ Bytes \/ Record \/ Valid \/ Equal \/ Meta
        \/ Look \/ Choose \/ Preflight \/ NamesOf \/ Settle \/ Copied \/ Answer \/ Begin \/ End
Next == \/ Step
        \/ \E n \in Loose, mark \in Marks :
             \/ n \in Files /\ Edit(n, "write", mark)
             \/ n \in Files /\ Edit(n, "replace", mark)
             \/ n \notin Files \ {"r"} /\ Edit(n, "toggle", mark)
Spec == Init /\ [][Next]_vars

----------------------------------------------------------------------------

\* The reader's state has its shape.
TypeOK ==
  /\ \A n \in Entries : tree[n].here \in BOOLEAN /\ tree[n].body \in {"good", "bad"}
  /\ out \in {"busy", "accepted", "absent", "refused"}
  /\ tries \in 1..Attempts /\ edits \in 0..MaxEdits
  /\ watched \subseteq Entries \cup {".."} /\ mutated \subseteq watched

\* What a reader accepts stood as it was read for the whole stretch between its
\* first and its last look: nobody added, removed, replaced or rewrote an entry
\* meanwhile.  An edit that no time of the platform shows escapes only where no
\* watch covers it.
StoodThroughout ==
  out = "accepted" => \A n \in moved : n \in blind /\ ~(HasEvents /\ Parent(n) \in watched)

\* A plugin that counts as installed had every owned member with the meaning
\* that was validated, in one marketplace only; of a member with an edit that
\* no time of the platform shows (install.go:1248) nothing is said.
PluginWhole ==
  Reader = "plugin" /\ out = "accepted" =>
    /\ \A f \in {"f", "g"} \ blind : was[f].here /\ was[f].body = "good"
    /\ HasEvents \/ "av" \notin blind => was["av"].here
    /\ HasEvents \/ "bv" \notin blind => ~was["bv"].here

\* What is installed from a snapshot is the source as it was at one moment, but
\* for entries with an edit that no time of the platform shows.
CopyTrue ==
  Reader = "snapshot" /\ out = "accepted" =>
    /\ \A f \in Files \ blind : was[f].body = copy[f]
    /\ "x" \notin blind => (was["x"].here <=> copy["x"] # "none")

\* A scan returns no more than its ceiling, and scans and walks return exactly
\* the names that were there together (without events: if every edit showed).
ScanExact ==
  Reader \in {"scan", "walk"} /\ out = "accepted" =>
    /\ Cardinality(inv["."].names) <= Limit
    /\ (HasEvents \/ blind = {}) =>
         \A d \in Entries \cap {".", "a"} : inv[d].names = {n \in Children(d) : was[n].here}
=============================================================================
