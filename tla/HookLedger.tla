------------------------------ MODULE HookLedger ------------------------------
(***************************************************************************)
(* The durable project obligation of the agent hooks (internal/hook: hook.go,  *)
(* boundary.go, crash_recovery.go, release.go).  Before a governed tool runs,  *)
(* PreToolUse records its token in the project's ledger; PostToolUse removes   *)
(* the token and leaves the obligation; a Stop runs the gates and, when they   *)
(* pass over the ledger revision it read, removes the ledger.  Hook processes  *)
(* of several sessions share one ledger and its lock, and may be killed at any *)
(* step.  The touch classes (design, impl) are left out: a ledger always has   *)
(* one, so "touched" is "there is a ledger".                                   *)
(***************************************************************************)
EXTENDS Naturals, FiniteSets

CONSTANTS Sessions, NoSession,
          Tokens,      \* tool calls
          Owner, Lane, \* the session and lane ("main", "sub") of each call
          Routes,      \* routing configurations
          Narrower,    \* <<new, old>>: new checks less than old
          Retain,      \* hookStateRouteRetention
          Halt,        \* TRUE: no event arrives after the step a finding is about
          MaxKills, MaxErrors, MaxChanges, MaxReleases

Lanes == {"main", "sub"}


VARIABLES
  pub,     \* the ledger file
  tmp,     \* the durable temp of a ledger write
  q,       \* the replacement quarantine
  dq,      \* the ledger inside a deletion quarantine
  rt,      \* rt[s]: the route snapshot of session s, 0 when there is none
  rtmp,    \* the durable temp of a route write
  W,       \* the hook process that holds the project's state lock
  tool,    \* tool[t]: how far call t has come
  stop,    \* stop[s]: the Stop that session s is running
  cfg,     \* the routing configuration in force
  edited,  \* calls that changed the governed trees
  owed,    \* changes that no discharging Stop has checked
  under,   \* under[t]: the configuration in force when t was armed, 0 before
  waived,  \* calls whose configuration the operator accepted as replaced
  weak,    \* changes discharged by a narrower configuration
  aba,     \* a Stop cleared another ledger than the one it read
  restarted, \* a ledger was begun anew while the real one was in quarantine
  born,    \* ledgers created so far
  kills, errors, changes, releases

files == <<pub, tmp, q, dq, rt, rtmp>>
hist == <<edited, owed, under, waived, weak, aba, restarted, born>>
bounds == <<kills, errors, changes, releases>>
vars == <<files, W, tool, stop, cfg, hist, bounds>>

\* hookStateRecord, with the number of the ledger as history.  Revision 0: no ledger.
Rec == [rev : Nat, pend : SUBSET Tokens, ended : SUBSET Tokens, routes : SUBSET Routes, no : Nat]
NoRec == [rev |-> 0, pend |-> {}, ended |-> {}, routes |-> {}, no |-> 0]
NoTmp == [k |-> "none", r |-> NoRec]
NoQ == [open |-> FALSE, obj |-> NoRec]
NoRtmp == [k |-> "none", s |-> NoSession, r |-> 0]
NoW == [op |-> "none", pc |-> "none", t |-> {}, s |-> NoSession, rec |-> NoRec, cfg |-> 0,
        evid |-> FALSE]
NoStop == [pc |-> "idle", rev |-> 0, no |-> 0, cfg |-> 0, seen |-> {}]

Init ==
  /\ pub = NoRec /\ tmp = NoTmp /\ q = NoQ /\ dq = NoRec
  /\ rt = [s \in Sessions \cup {NoSession} |-> 0] /\ rtmp = NoRtmp /\ W = NoW
  /\ tool = [t \in Tokens |-> "idle"] /\ stop = [s \in Sessions |-> NoStop] /\ cfg \in Routes
  /\ edited = {} /\ owed = {} /\ under = [t \in Tokens |-> 0] /\ waived = {} /\ weak = {}
  /\ aba = FALSE /\ restarted = FALSE /\ born = 0
  /\ kills = 0 /\ errors = 0 /\ changes = 0 /\ releases = 0

\* The state lock is free, and another event may arrive.
Free == W = NoW /\ (Halt => ~aba /\ ~restarted)
Exists(r) == r # NoRec
SnapshotsExist == \E s \in DOMAIN rt : rt[s] # 0
InFlight(t) == tool[t] \in {"arming", "running"}

-----------------------------------------------------------------------------
(* The end of a hook process, and what it means for the call or Stop it served. *)

\* A call whose arming fails is denied; a completion that fails is not repeated.
ToolAfter(ok) ==
  tool' = [t \in Tokens |->
             IF t \notin W.t THEN tool[t]
             ELSE CASE W.op = "pre" -> IF ok THEN "running" ELSE "over"
                    [] W.op = "post" \/ W.op = "close" -> "over"
                    [] OTHER -> tool[t]]
StopAfter == stop' = IF W.op = "clear" THEN [stop EXCEPT ![W.s] = NoStop] ELSE stop
Done(ok) == W' = NoW /\ ToolAfter(ok) /\ StopAfter

-----------------------------------------------------------------------------
(* Crash recovery, at the start of an arming or a completion. *)

\* recoverHookDeletionQuarantines.
Restored == IF Exists(dq) THEN dq ELSE pub
\* recoverOneHookCrashTemp: a ledger temp is stale when the ledger is as new.
TempStale == tmp.k = "full" /\ Exists(Restored) /\ tmp.r.rev <= Restored.rev
\* A route temp is stale when it is the snapshot already, or no ledger refers to it.
RouteTempStale == rtmp.k = "full" /\ (rt[rtmp.s] = rtmp.r \/ rtmp.r \notin Restored.routes)
\* What is not stale is moved aside as evidence.
Evidence == (tmp # NoTmp /\ ~TempStale) \/ (rtmp # NoRtmp /\ ~RouteTempStale)

\* Mutant of Mutated: a completion forgets the token but not that it ended.
MutatedKeepsEnded(op, C, c, r) ==
  CASE op = "pre" -> [r EXCEPT !.pend = @ \cup C, !.ended = @ \ C, !.routes = @ \cup {c}]
    [] op = "post" -> [r EXCEPT !.pend = @ \ C, !.routes = @ \cup {c}]
    [] op = "boundary" -> [r EXCEPT !.ended = @ \cup (C \cap r.pend)]
    [] op = "routes" -> [r EXCEPT !.routes = {}]
    [] OTHER -> [r EXCEPT !.pend = @ \ C]

\* updateStateLocked, addPending, removePending: what operation op with calls C makes of
\* record r under configuration c.
Mutated(op, C, c, r) ==
  CASE op = "pre" -> [r EXCEPT !.pend = @ \cup C, !.ended = @ \ C, !.routes = @ \cup {c}]
    [] op = "post" -> [r EXCEPT !.pend = @ \ C, !.ended = @ \ C, !.routes = @ \cup {c}]
    [] op = "boundary" -> [r EXCEPT !.ended = @ \cup (C \cap r.pend)]
    [] op = "routes" -> [r EXCEPT !.routes = {}]
    [] OTHER -> [r EXCEPT !.pend = @ \ C, !.ended = @ \ C]

\* mutateStateLocked: the next revision of a ledger, or the first of a new one.
NextRev(old, r) == [r EXCEPT !.rev = @ + 1, !.no = IF Exists(old) THEN @ ELSE born + 1]

\* The lock holder goes on to write the record made from r.
WriteFrom(op, C, s, r, evid) ==
  LET m == IF evid THEN r ELSE Mutated(op, C, cfg, r)
  IN  /\ W' = [op |-> op, pc |-> "write", t |-> C, s |-> s, cfg |-> cfg, evid |-> evid,
               rec |-> NextRev(r, m)]
      /\ born' = IF Exists(r) THEN born ELSE born + 1
      /\ restarted' = (restarted \/ (~Exists(r) /\ Exists(q.obj)))

\* recoverHookCrashTempsLocked: stale temps go; if others were moved aside, the ledger is
\* marked before anything else is written.
RecoverTemps(op, t) ==
  /\ pub' = Restored /\ dq' = NoRec /\ tmp' = NoTmp /\ rtmp' = NoRtmp
  /\ WriteFrom(op, {t}, Owner[t], Restored, Evidence)

-----------------------------------------------------------------------------
(* The host: tools run, events arrive. *)

\* pre, armShellState, armFileState, armProjectState: the call is armed under the loaded
\* configuration.
PreBegin(t) ==
  /\ Free /\ tool[t] = "idle" /\ RecoverTemps("pre", t)
  /\ tool' = [tool EXCEPT ![t] = "arming"] /\ under' = [under EXCEPT ![t] = cfg]
  /\ UNCHANGED <<q, rt, stop, cfg, edited, owed, waived, weak, aba, bounds>>

ToolEdit(t) ==
  /\ tool[t] = "running" /\ t \notin edited
  /\ edited' = edited \cup {t} /\ owed' = owed \cup {t}
  /\ UNCHANGED <<files, W, tool, stop, cfg, under, waived, weak, aba, restarted, born, bounds>>

\* The call ends; its PostToolUse event is delivered later, or lost.
ToolEnd(t) ==
  /\ tool[t] = "running" /\ \E f \in {"finished", "over"} : tool' = [tool EXCEPT ![t] = f]
  /\ UNCHANGED <<files, W, stop, cfg, hist, bounds>>

\* post, completeToolState.
PostBegin(t) ==
  /\ Free /\ tool[t] = "finished" /\ RecoverTemps("post", t)
  /\ UNCHANGED <<q, rt, tool, stop, cfg, edited, owed, under, waived, weak, aba, bounds>>

\* An operation that neither recovers nor creates a ledger; nothing is written when it
\* changes nothing, and a temp is an error to it.
Amend(op, C) ==
  /\ Free /\ Exists(pub) /\ tmp = NoTmp /\ Mutated(op, C, cfg, pub) # pub
  /\ WriteFrom(op, C, NoSession, pub, FALSE)

\* closeArmedToken: the call touched nothing that is governed now.
CloseBegin(t) ==
  /\ tool[t] = "finished" /\ Amend("close", {t})
  /\ UNCHANGED <<files, tool, stop, cfg, edited, owed, under, waived, weak, aba, bounds>>

\* Its look for the ledger is taken without the lock; it changes nothing when the ledger
\* is not there, or does not have the token.
CloseNothing(t) ==
  /\ tool[t] = "finished" /\ (Exists(pub) => Free /\ tmp = NoTmp /\ t \notin pub.pend)
  /\ tool' = [tool EXCEPT ![t] = "over"]
  /\ UNCHANGED <<files, W, stop, cfg, edited, owed, under, waived, weak, aba, restarted,
                 born, bounds>>

CloseTemp(t) ==
  /\ Free /\ tool[t] = "finished" /\ Exists(pub) /\ tmp # NoTmp
  /\ tool' = [tool EXCEPT ![t] = "over"]
  /\ UNCHANGED <<files, W, stop, cfg, hist, bounds>>

\* boundaryCloses: the calls a boundary event of session s proves ended.  An event of a
\* lane comes after the calls of that lane have resolved, one of a batch names resolved
\* calls, and SessionEnd takes the background lanes with it.
BoundaryCloses(s, C) ==
  LET mine == {t \in Tokens : Owner[t] = s}
      lane(l) == {t \in mine : Lane[t] = l}
  IN  \/ \E l \in Lanes : C = lane(l) /\ \A t \in C : ~InFlight(t)
      \/ \E t \in mine : C = {t} /\ ~InFlight(t)
      \/ C = mine /\ \A t \in lane("main") : ~InFlight(t)

\* runBoundary.
BoundaryBegin(s, C) ==
  /\ BoundaryCloses(s, C) /\ Amend("boundary", C)
  /\ UNCHANGED <<files, tool, stop, cfg, edited, owed, under, waived, weak, aba, bounds>>

\* ReleaseStateWith: an operator who knows that no tool runs releases tokens, or the
\* recorded routes.  The journal entry is left out.
ReleaseBegin(op, C) ==
  /\ releases < MaxReleases /\ releases' = releases + 1
  /\ \A t \in C : ~InFlight(t)
  /\ Amend(op, C)
  /\ waived' = IF op = "routes" THEN waived \cup {t \in Tokens : under[t] # 0} ELSE waived
  /\ UNCHANGED <<files, tool, stop, cfg, edited, owed, under, weak, aba, kills, errors, changes>>

ChangeConfig ==
  /\ changes < MaxChanges /\ changes' = changes + 1
  /\ \E r \in Routes \ {cfg} : cfg' = r
  /\ UNCHANGED <<files, W, tool, stop, hist, kills, errors, releases>>

-----------------------------------------------------------------------------
(* writeHookStateBody and replaceStateFileAtomic: the ledger is replaced. *)

FullTmp == [k |-> "full", r |-> W.rec]

\* recoverHookReplacementQuarantines: the ledger an interrupted replacement left.
LostBoth == q.open /\ ~Exists(pub) /\ ~Exists(q.obj)
Resumed == IF Exists(pub) THEN pub ELSE q.obj

WriteLost ==
  /\ W.pc = "write" /\ LostBoth /\ Done(FALSE)
  /\ UNCHANGED <<files, cfg, edited, owed, under, waived, weak, aba, restarted, born, bounds>>

\* The temp is synced; the ledger, if there is one, is moved into the quarantine, with a
\* copy of the new one.
Isolate ==
  /\ W.pc = "write" /\ ~LostBoth /\ Exists(Resumed)
  /\ tmp' = FullTmp /\ q' = [open |-> TRUE, obj |-> Resumed] /\ pub' = NoRec
  /\ W' = [W EXCEPT !.pc = "window"]
  /\ UNCHANGED <<dq, rt, rtmp, tool, stop, cfg, hist, bounds>>

\* What follows a write: a marked ledger refuses the arming and lets the completion
\* write its own record; an arming and a completion write their route.
AfterWrite ==
  IF W.evid
  THEN IF W.op = "pre" THEN Done(FALSE)
       ELSE /\ W' = [W EXCEPT !.evid = FALSE, !.pc = "write",
                               !.rec = NextRev(W.rec, Mutated(W.op, W.t, W.cfg, W.rec))]
            /\ UNCHANGED <<tool, stop>>
  ELSE IF W.op \in {"pre", "post"} THEN W' = [W EXCEPT !.pc = "route"] /\ UNCHANGED <<tool, stop>>
       ELSE Done(TRUE)

\* A first ledger is created in place.
Create ==
  /\ W.pc = "write" /\ ~LostBoth /\ ~Exists(Resumed)
  /\ pub' = W.rec /\ AfterWrite
  /\ UNCHANGED <<tmp, q, dq, rt, rtmp, cfg, hist, bounds>>

\* The temp becomes the ledger; finishHookReplacementQuarantine.
Rename ==
  /\ W.pc = "window" /\ pub' = tmp.r /\ tmp' = NoTmp /\ q' = NoQ /\ AfterWrite
  /\ UNCHANGED <<dq, rt, rtmp, cfg, hist, bounds>>

\* retainProjectRouteSnapshots: the snapshot just written and others, the newest, stay.
RetainedSets(f, keep) ==
  LET all == {s \in DOMAIN f : f[s] # 0}
  IN  {K \in SUBSET all : keep \in K /\ (K = all \/ Cardinality(K) = Retain)
                          /\ (Cardinality(all) <= Retain => K = all)}

\* publishRouteSnapshotLocked.
RoutePublish ==
  /\ W.pc = "route" /\ Done(TRUE)
  /\ LET f == [rt EXCEPT ![W.s] = W.cfg]
     IN  \E K \in RetainedSets(f, W.s) : rt' = [s \in DOMAIN f |-> IF s \in K THEN f[s] ELSE 0]
  /\ UNCHANGED <<pub, tmp, q, dq, rtmp, cfg, hist, bounds>>

-----------------------------------------------------------------------------
(* stop: read the ledger, take the snapshot, run the gates, discharge. *)

Mine(s) == {t \in pub.pend : Owner[t] = s}

\* partitionPending.
OwnBlocks(s) == Mine(s) \ pub.ended # {}
Unclassified == {t \in pub.pend : Owner[t] = NoSession}
\* Mutant of Orphaned: an ended call of any lane is ignored.
OrphanedAnyLane(s, l) == {t \in pub.pend : ~(Owner[t] = s /\ t \in pub.ended /\ l = "main")}

Orphaned(s, l) ==
  {t \in pub.pend : ~(Owner[t] = s /\ t \in pub.ended /\ l = "main" /\ Lane[t] = "main")}

\* Mutant of Narrowed: a configuration whose snapshot is gone is not compared.
NarrowedKnown == \E r \in pub.routes \ {cfg} :
  (\E s \in DOMAIN rt : rt[s] = r) /\ <<cfg, r>> \in Narrower

\* narrowedRoutes: an earlier configuration that checked more, or cannot be compared.
Narrowed == \E r \in pub.routes \ {cfg} :
  (\E s \in DOMAIN rt : rt[s] = r) => <<cfg, r>> \in Narrower

\* Mutant of Discharges: a call of someone else does not withhold the discharge.
DischargesAny(s, l) == ~OwnBlocks(s) /\ ~Narrowed /\ l \in Lanes

\* A Stop that may end the obligation.  The others block, or run the gates for their
\* message only: they leave the ledger alone.
Discharges(s, l) == ~OwnBlocks(s) /\ Unclassified = {} /\ Orphaned(s, l) = {} /\ ~Narrowed

\* readStateRecord.  The main Stop of a session comes when its main calls have resolved.
StopRead(s, l) ==
  /\ Free /\ stop[s].pc = "idle"
  /\ l = "main" => \A t \in Tokens : Owner[t] = s /\ Lane[t] = "main" => ~InFlight(t)
  /\ tmp = NoTmp /\ rtmp = NoRtmp /\ Exists(pub) /\ Discharges(s, l)
  /\ stop' = [stop EXCEPT ![s] = [pc |-> "snapshot", rev |-> pub.rev, no |-> pub.no, cfg |-> cfg,
                                  seen |-> {}]]
  /\ UNCHANGED <<files, W, tool, cfg, hist, bounds>>

\* AcquireHookSnapshot; the configuration is loaded again.
StopSnapshot(s) ==
  /\ stop[s].pc = "snapshot" /\ cfg = stop[s].cfg
  /\ stop' = [stop EXCEPT ![s].pc = "gates", ![s].seen = edited]
  /\ UNCHANGED <<files, W, tool, cfg, hist, bounds>>

\* RunSelected and CheckUnchanged: the gates let the turn end.
StopGreen(s) ==
  /\ stop[s].pc = "gates" /\ edited = stop[s].seen
  /\ stop' = [stop EXCEPT ![s].pc = "clear"]
  /\ UNCHANGED <<files, W, tool, cfg, hist, bounds>>

\* The configuration or a tree changed, or the gates are red: the obligation stays.
StopBlocks(s) ==
  /\ stop[s].pc \in {"snapshot", "gates"} /\ stop' = [stop EXCEPT ![s] = NoStop]
  /\ UNCHANGED <<files, W, tool, cfg, hist, bounds>>

\* Mutant of RevisionMatches: a newer revision may be cleared when no call is in flight.
RevisionMatchesIdle(s) == Exists(Restored) => Restored.rev = stop[s].rev \/ Restored.pend = {}

\* A ledger that is gone, or is in the quarantine of a replacement, is not compared.
RevisionMatches(s) == Exists(Restored) => Restored.rev = stop[s].rev

\* clearStateRevision.
ClearBegin(s) ==
  /\ Free /\ stop[s].pc = "clear" /\ rtmp = NoRtmp /\ RevisionMatches(s)
  /\ pub' = Restored /\ dq' = NoRec
  /\ W' = [NoW EXCEPT !.op = "clear", !.pc = "clear", !.s = s]
  /\ aba' = (aba \/ (Exists(Restored) /\ Restored.no # stop[s].no))
  /\ UNCHANGED <<tmp, q, rt, rtmp, tool, stop, cfg, edited, owed, under, waived, weak, restarted,
                 born, bounds>>

ClearRefused(s) ==
  /\ Free /\ stop[s].pc = "clear" /\ (rtmp # NoRtmp \/ ~RevisionMatches(s))
  /\ pub' = Restored /\ dq' = NoRec /\ stop' = [stop EXCEPT ![s] = NoStop]
  /\ UNCHANGED <<tmp, q, rt, rtmp, W, tool, cfg, hist, bounds>>

\* removeHookFileWitness: the snapshots go first and the ledger last, each through a
\* quarantine.
NoRoutes == [s \in DOMAIN rt |-> 0]
Clear ==
  /\ W.pc = "clear" /\ Done(TRUE)
  /\ rt' = NoRoutes /\ pub' = NoRec
  /\ owed' = owed \ stop[W.s].seen
  /\ weak' = weak \cup {t \in (owed \cap stop[W.s].seen) \ waived :
                          <<stop[W.s].cfg, under[t]>> \in Narrower}
  /\ UNCHANGED <<tmp, q, dq, rtmp, cfg, edited, under, waived, aba, restarted, born, bounds>>

-----------------------------------------------------------------------------
(* A hook process is killed, or meets an error it can clean up after. *)

Disk(p, t, k, d, f, g) == pub' = p /\ tmp' = t /\ q' = k /\ dq' = d /\ rt' = f /\ rtmp' = g
Isolated == [open |-> TRUE, obj |-> Resumed]
TornTmp == [k |-> "torn", r |-> NoRec]

\* Mutant of KilledClearing: the ledger may go before the snapshots.
KilledClearingLast ==
  \/ Disk(pub, tmp, q, dq, rt, rtmp)
  \/ \E S \in SUBSET DOMAIN rt :
       Disk(NoRec, tmp, q, NoRec, [s \in DOMAIN rt |-> IF s \in S THEN 0 ELSE rt[s]], rtmp)

\* Killed while the snapshots go, with the ledger in its quarantine, or after.
KilledClearing ==
  \/ \E S \in SUBSET DOMAIN rt :
       Disk(pub, tmp, q, dq, [s \in DOMAIN rt |-> IF s \in S THEN 0 ELSE rt[s]], rtmp)
  \/ Disk(NoRec, tmp, q, pub, NoRoutes, rtmp)

\* Killed in a write: before the temp, with a torn or a synced one, after an interrupted
\* replacement was resumed, and with the ledger isolated.
KilledWriting ==
  \/ \E t \in {tmp, TornTmp, FullTmp} : Disk(pub, t, q, dq, rt, rtmp)
  \/ ~LostBoth /\ Disk(Resumed, FullTmp, NoQ, dq, rt, rtmp)
  \/ ~LostBoth /\ Exists(Resumed) /\ Disk(NoRec, FullTmp, Isolated, dq, rt, rtmp)

\* Killed before the rename, or after it and before the quarantine is gone.
KilledInWindow ==
  \/ Disk(pub, tmp, q, dq, rt, rtmp)
  \/ Disk(tmp.r, NoTmp, q, dq, rt, rtmp)
  \/ Disk(tmp.r, NoTmp, [q EXCEPT !.obj = NoRec], dq, rt, rtmp)

KilledRouting ==
  \E g \in {rtmp, [k |-> "torn", s |-> W.s, r |-> 0], [k |-> "full", s |-> W.s, r |-> W.cfg]} :
    Disk(pub, tmp, q, dq, rt, g)

Kill ==
  /\ W # NoW /\ kills < MaxKills /\ kills' = kills + 1 /\ Done(FALSE)
  /\ CASE W.pc = "write" -> KilledWriting
       [] W.pc = "window" -> KilledInWindow
       [] W.pc = "route" -> KilledRouting
       [] OTHER -> KilledClearing
  /\ UNCHANGED <<cfg, hist, errors, changes, releases>>

\* restoreHookReplacementQuarantine, removeOwnedHookStateTemp: before the rename the
\* ledger is put back and the temp removed; after it the quarantine stays.
IOError ==
  /\ W # NoW /\ errors < MaxErrors /\ errors' = errors + 1 /\ Done(FALSE)
  /\ CASE W.pc = "write" -> Disk(pub, NoTmp, q, dq, rt, rtmp)
       [] W.pc = "window" -> \/ Disk(q.obj, NoTmp, NoQ, dq, rt, rtmp)
                             \/ Disk(tmp.r, NoTmp, q, dq, rt, rtmp)
       [] W.pc = "route" -> Disk(pub, tmp, q, dq, rt, rtmp)
       [] OTHER -> KilledClearing
  /\ UNCHANGED <<cfg, hist, kills, changes, releases>>

-----------------------------------------------------------------------------
Host ==
  \/ \E t \in Tokens : \/ PreBegin(t) \/ ToolEdit(t) \/ ToolEnd(t) \/ PostBegin(t)
                       \/ CloseBegin(t) \/ CloseNothing(t) \/ CloseTemp(t)
  \/ \E s \in Sessions, C \in SUBSET Tokens : BoundaryBegin(s, C)
  \/ \E C \in SUBSET Tokens : ReleaseBegin("release", C)
  \/ ReleaseBegin("routes", {}) \/ ChangeConfig

Writer == WriteLost \/ Isolate \/ Create \/ Rename \/ RoutePublish \/ Clear

StopStep(s) ==
  \/ \E l \in Lanes : StopRead(s, l)
  \/ StopSnapshot(s) \/ StopGreen(s) \/ StopBlocks(s) \/ ClearBegin(s)
  \/ ClearRefused(s)

Next == Host \/ Writer \/ (\E s \in Sessions : StopStep(s)) \/ Kill \/ IOError

Spec == Init /\ [][Next]_vars

-----------------------------------------------------------------------------
(* Properties. *)

\* Types of the state.
TypeOK ==
  /\ {pub, dq, q.obj, tmp.r, W.rec} \subseteq Rec
  /\ tmp.k \in {"none", "torn", "full"} /\ rtmp.k \in {"none", "torn", "full"}
  /\ rt \in [Sessions \cup {NoSession} -> Routes \cup {0}]
  /\ cfg \in Routes /\ owed \subseteq edited /\ edited \subseteq Tokens
  /\ pub.ended \subseteq pub.pend

\* The ledger, wherever an interrupted write left it.
Ledger == IF Exists(pub) THEN pub ELSE IF Exists(q.obj) THEN q.obj ELSE dq

\* A change to the governed trees that no discharging Stop has checked keeps the
\* obligation: the ledger is on disk, or in the hands of a recovery that restores it
\* (armProjectState arms before the tool runs, clearStateRevision removes only the
\* revision that was checked).
ObligationKept == owed # {} => Exists(Ledger) \/ aba \/ restarted

\* While a tool runs its token is in the ledger, so no Stop can discharge under it
\* (partitionPending).
InFlightRecorded ==
  \A t \in Tokens : tool[t] = "running" => t \in Ledger.pend \/ aba \/ restarted

\* A change armed under one configuration is never discharged by gates run under one that
\* checks less, unless the operator accepted the change (narrowedRoutes).
NarrowNeverDischarges == weak # {} => aba \/ restarted

\* A route snapshot never outlives the ledger it belongs to (clearStateRevision removes
\* the ledger last; the ledger binds a route before its snapshot is written).
RoutesNeedLedger == SnapshotsExist => Exists(Ledger) \/ tmp # NoTmp \/ restarted

\* What the refusal of a clear promises: edits that arrive while the gates run change the
\* revision, so their obligation is not cleared.
NewerObligationRetained == owed # {} => Exists(Ledger)

\* Tokens and routes leave the ledger by name only, whatever write is cut short.
OnlyNamedTokensLeave == \A t \in Tokens : tool[t] = "running" => t \in Ledger.pend

\* One interrupted write never blocks every later command.
NeverWedged == ~(W.pc = "write" /\ LostBoth)

\* A completion or a boundary event that reports success has closed its tokens, if the
\* ledger held them.
ClosedTokensLeave == \A t \in Tokens : CloseNothing(t) => t \notin Ledger.pend
=============================================================================
