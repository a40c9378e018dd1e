--------------------------- MODULE AssuranceStore ---------------------------
(***************************************************************************)
(* The external test-assurance store of internal/tdd: the registration     *)
(* transaction CommitRegistration, its mkdir-token writer lease, and the   *)
(* validation every reader performs when it opens the store.               *)
(*                                                                         *)
(* The store is a directory; its whole state is the names and bytes on     *)
(* disk.  A head document is represented by the sequence of registrations  *)
(* it accumulates: <<>> is the generation-zero head, Len is the            *)
(* generation and Front is the document its "previous" digest names.       *)
(* Canonical encoding and SHA-256 make equal sequences equal digests, so a *)
(* sequence also stands for its own digest and archive file name.          *)
(*                                                                         *)
(* Every registrar is a separate operating-system process that runs the    *)
(* code step by step; one action below is one file-system operation (or a  *)
(* run of them nobody else can tell apart).                                *)
(***************************************************************************)
EXTENDS Naturals, Sequences, TLC

CONSTANTS
    Procs,        \* registrar processes; an identifier is never reused
    Updates,      \* authored registrations (targets + plan + their controls)
    MaxGeneration,\* bound on the length of the head chain
    LeaseExpiry,  \* whose writer token may outlive its 660 s lease
    Races,        \* may registrars race for a token that outlived its lease?
    None          \* no token, no head.next

ASSUME BoundsAssumption == MaxGeneration \in Nat \ {0}
ASSUME LeaseAssumption ==
    /\ LeaseExpiry \in {"never", "crashed", "any"}
    /\ Races \in BOOLEAN
ASSUME NoneAssumption == None \notin Procs /\ None \notin Seq(Updates)

\* Registrars and registrations are interchangeable.
Symmetry == Permutations(Procs) \cup Permutations(Updates)

VARIABLES
    head,      \* ledger/head.json
    archived,  \* ledger/heads/<digest>.json
    unsynced,  \* archived heads whose directory entry was not yet fsynced
    controls,  \* controls/<digest>.json, one control set per registration
    retained,  \* objects/<digest>/bundle.json, one bundle per registration
    staging,   \* does the transaction staging directory exist?
    token,     \* staging/writer.lock: the pid in owner.json, or None
    expired,   \* is the token past its deadline?
    headNext,  \* staging/head.next: the staged successor, or None
    residue,   \* history: was staging last left by a call that an I/O error
               \* kept from entering or from leaving it?
    pc,        \* what each process does next
    expected,  \* req.ExpectedHead
    successor, \* req.Successor.HeadDigest
    seen,      \* the head openStore read, before it validated the chain
    outcome    \* the result the call returns, or will return after release

storeVars == <<head, archived, unsynced, controls, retained>>
lockVars  == <<staging, token, expired, headNext, residue>>
reqVars   == <<expected, successor>>
vars == <<storeVars, lockVars, pc, reqVars, seen, outcome>>

Heads == Seq(Updates)

Labels == {"idle", "open", "validate", "acquire", "token", "takeover",
           "owner", "compare", "controls", "stage", "revalidate", "archive",
           "syncHeads", "recheck", "advance", "verify", "sweep", "drop",
           "rmdir", "crashed"}

Outcomes == {"none", "committed", "idempotent", "HEAD_CONFLICT", "TIMEOUT",
             "CONTROL_ROLLBACK", "HISTORY_UNAVAILABLE", "MISSING_CONTRACT",
             "STALE_INPUT", "CUSTODY_ERROR"}

\* The registration a successor document adds to its predecessor.
UpdateOf(h) == h[Len(h)]

\* A head and everything its "previous" links reach.
Chain(h) == {SubSeq(h, 1, n) : n \in 0..Len(h)}

\* The process is inside a call.
Running(p) == pc[p] \notin {"idle", "crashed"}

\* The process returned from acquireStoreWriter and has not dropped its token.
Holding(p) == pc[p] \in {"compare", "controls", "stage", "revalidate",
                         "archive", "syncHeads", "recheck", "advance",
                         "verify", "sweep", "drop"}

\* A token of p is nobody's: p died, or could neither use nor remove it.
Abandoned(p) == pc[p] # "owner" /\ ~Holding(p)

\* A token has outlived its lease, or a process has seen that it had and is
\* about to take it over.
LeaseOver == expired \/ \E p \in Procs : pc[p] = "takeover"

\* At most one process is inside a call.
RunsAlone == \A p, q \in Procs : Running(p) /\ Running(q) => p = q

---------------------------------------------------------------------------
(* Moving a process from one label to the next, and ending its call.       *)

Goto(p, label) == pc' = [pc EXCEPT ![p] = label]

\* Return an error (or result) without holding the writer.
Return(p, result) ==
    /\ Goto(p, "idle")
    /\ outcome' = [outcome EXCEPT ![p] = result]

\* Leave through the deferred release, remembering what to report.
Leave(p, result) ==
    /\ Goto(p, "sweep")
    /\ outcome' = [outcome EXCEPT ![p] = result]

---------------------------------------------------------------------------
(* Opening the store.                                                      *)

\* validateHeadChain: the whole chain is archived, and any other archived
\* head is a direct successor of the head that was read.
ValidChain(h) ==
    /\ Chain(h) \subseteq archived
    /\ \A a \in archived \ Chain(h) :
           /\ Len(a) = Len(h) + 1
           /\ SubSeq(a, 1, Len(a) - 1) = h

\* Mutant of Start: derives the successor from the current head instead of
\* the expected one.
StartRebased(p) ==
    /\ pc[p] = "idle"
    /\ Goto(p, "open")
    /\ Races \/ ~LeaseOver \/ \A q \in Procs : ~Running(q)
    /\ Len(head) < MaxGeneration
    /\ \E e \in archived, u \in Updates :
        /\ expected' = [expected EXCEPT ![p] = e]
        /\ successor' = [successor EXCEPT ![p] = Append(head, u)]
    /\ outcome' = [outcome EXCEPT ![p] = "none"]
    /\ UNCHANGED <<storeVars, lockVars, seen>>

\* A new call: the successor of an archived head has been derived
\* (ReadArchivedHead and BuildRegistrationSuccessor).
Start(p) ==
    /\ pc[p] = "idle"
    /\ Goto(p, "open")
    /\ Races \/ ~LeaseOver \/ \A q \in Procs : ~Running(q)
    /\ \E e \in archived, u \in Updates :
        /\ Len(e) < MaxGeneration
        /\ expected' = [expected EXCEPT ![p] = e]
        /\ successor' = [successor EXCEPT ![p] = Append(e, u)]
    /\ outcome' = [outcome EXCEPT ![p] = "none"]
    /\ UNCHANGED <<storeVars, lockVars, seen>>

\* openStore reads head.json without any lock ...
ReadHead(p) ==
    /\ pc[p] = "open"
    /\ Goto(p, "validate")
    /\ seen' = [seen EXCEPT ![p] = head]
    /\ UNCHANGED <<storeVars, lockVars, reqVars, outcome>>

\* ... and validates the archive directory against what it read.  The view
\* is closed again before the writer is acquired.
Validate(p) ==
    /\ pc[p] = "validate"
    /\ \/ /\ ValidChain(seen[p])
          /\ expected[p] \in archived
          /\ Goto(p, "acquire")
          /\ UNCHANGED outcome
       \/ /\ ~ValidChain(seen[p])
          /\ Return(p, "CONTROL_ROLLBACK")
       \/ /\ ValidChain(seen[p])
          /\ expected[p] \notin archived
          /\ Return(p, "HISTORY_UNAVAILABLE")
    /\ seen' = [seen EXCEPT ![p] = <<>>]
    /\ UNCHANGED <<storeVars, lockVars, reqVars>>

---------------------------------------------------------------------------
(* acquireStoreWriter: one turn of the loop is MakeStaging, MakeToken and,  *)
(* for a token seen expired, TakeOver.                                     *)

\* MkdirAll(staging).
MakeStaging(p) ==
    /\ pc[p] = "acquire"
    /\ Goto(p, "token")
    /\ staging' = TRUE
    /\ UNCHANGED <<storeVars, token, expired, headNext, residue, reqVars, seen, outcome>>

\* The context deadline is looked at once per turn.
Timeout(p) ==
    /\ pc[p] = "acquire"
    /\ Return(p, "TIMEOUT")
    /\ UNCHANGED <<storeVars, lockVars, reqVars, seen>>

\* Mutant of MakeToken: MkdirAll succeeds on a token that is already there.
MakeTokenShared(p) ==
    /\ pc[p] = "token"
    /\ \/ /\ staging
          /\ Goto(p, "owner")
          /\ token' = p
          /\ expired' = FALSE
       \/ /\ ~staging
          /\ Goto(p, "acquire")
          /\ UNCHANGED <<token, expired>>
    /\ UNCHANGED <<storeVars, staging, headNext, residue, reqVars, seen, outcome>>

\* Mutant of MakeToken: waits for the token without looking at the deadline.
MakeTokenSpinning(p) ==
    /\ pc[p] = "token"
    /\ \/ /\ staging
          /\ token = None
          /\ Goto(p, "owner")
          /\ token' = p
          /\ expired' = FALSE
       \/ /\ ~staging
          /\ Goto(p, "acquire")
          /\ UNCHANGED <<token, expired>>
    /\ UNCHANGED <<storeVars, staging, headNext, residue, reqVars, seen, outcome>>

\* Mkdir(writer.lock): staging may be gone again, the token may be there.
MakeToken(p) ==
    /\ pc[p] = "token"
    /\ \/ /\ staging
          /\ token = None
          /\ Goto(p, "owner")
          /\ token' = p
          /\ expired' = FALSE
       \/ /\ ~staging \/ (token # None /\ ~expired)
          /\ Goto(p, "acquire")
          /\ UNCHANGED <<token, expired>>
       \/ /\ staging /\ token # None /\ expired
          /\ Goto(p, "takeover")
          /\ UNCHANGED <<token, expired>>
    /\ UNCHANGED <<storeVars, staging, headNext, residue, reqVars, seen, outcome>>

\* Mutant of TakeOver: the rename of the expired token never succeeds.
TakeOverFails(p) ==
    /\ pc[p] = "takeover"
    /\ Goto(p, "acquire")
    /\ UNCHANGED <<storeVars, lockVars, reqVars, seen, outcome>>

\* Rename(writer.lock, expired-<now>) and remove the victim: whatever token
\* is there now is taken, not the one that was seen expired.
TakeOver(p) ==
    /\ pc[p] = "takeover"
    /\ Goto(p, "acquire")
    /\ token' = None
    /\ expired' = FALSE
    /\ UNCHANGED <<storeVars, staging, headNext, residue, reqVars, seen, outcome>>

\* An I/O error of the MkdirAll, the Stat or the Mkdir of the loop: the call
\* ends, and a staging directory it may have made stays.
AcquireFails(p) ==
    /\ pc[p] \in {"acquire", "token"}
    /\ Return(p, "CUSTODY_ERROR")
    /\ residue' = (residue \/ staging)
    /\ UNCHANGED <<storeVars, staging, token, expired, headNext, reqVars, seen>>

\* WriteFile(writer.lock/owner.json).  When it fails, or the token is gone
\* again, RemoveAll(token) is tried, its error ignored, and staging stays.
WriteOwner(p) ==
    /\ pc[p] = "owner"
    /\ \/ /\ token # None
          /\ Goto(p, "compare")
          /\ token' = p
          /\ expired' = FALSE
          /\ UNCHANGED <<residue, outcome>>
       \/ /\ Return(p, "CUSTODY_ERROR")
          /\ token' \in {token, None}
          /\ expired' = (expired /\ token' # None)
          /\ residue' = (residue \/ staging)
    /\ UNCHANGED <<storeVars, staging, headNext, reqVars, seen>>

---------------------------------------------------------------------------
(* CommitRegistration under the writer.                                    *)

\* Mutant of Compare: does not compare the head at all.
CompareNothing(p) ==
    /\ pc[p] = "compare"
    /\ Goto(p, "controls")
    /\ UNCHANGED <<storeVars, lockVars, reqVars, seen, outcome>>

\* Mutant of Compare: recognises the successor by its generation alone.
CompareGeneration(p) ==
    /\ pc[p] = "compare"
    /\ \/ /\ head = expected[p]
          /\ Goto(p, "controls")
          /\ UNCHANGED outcome
       \/ /\ head # expected[p]
          /\ Leave(p, IF Len(head) = Len(successor[p]) THEN "idempotent"
                                                      ELSE "HEAD_CONFLICT")
    /\ UNCHANGED <<storeVars, lockVars, reqVars, seen>>

\* Mutant of Compare: reports an idempotent retry as a fresh commit.
CompareRecommits(p) ==
    /\ pc[p] = "compare"
    /\ \/ /\ head = expected[p]
          /\ Goto(p, "controls")
          /\ UNCHANGED outcome
       \/ /\ head # expected[p]
          /\ Leave(p, IF head = successor[p] THEN "committed"
                                            ELSE "HEAD_CONFLICT")
    /\ UNCHANGED <<storeVars, lockVars, reqVars, seen>>

\* The exact expected-head comparison with the idempotent exception.
Compare(p) ==
    /\ pc[p] = "compare"
    /\ \/ /\ head = expected[p]
          /\ Goto(p, "controls")
          /\ UNCHANGED outcome
       \/ /\ head = successor[p]
          /\ UpdateOf(successor[p]) \in controls \cap retained
          /\ Leave(p, "idempotent")
       \/ /\ head = successor[p]
          /\ UpdateOf(successor[p]) \notin controls
          /\ Leave(p, "CUSTODY_ERROR")
       \/ /\ head = successor[p]
          /\ UpdateOf(successor[p]) \in controls \ retained
          /\ Leave(p, "MISSING_CONTRACT")
       \/ /\ head \notin {expected[p], successor[p]}
          /\ Leave(p, "HEAD_CONFLICT")
    /\ UNCHANGED <<storeVars, lockVars, reqVars, seen>>

\* Mutant of PublishControls: does not verify the retained bundles.
PublishControlsUnverified(p) ==
    /\ pc[p] = "controls"
    /\ Goto(p, "stage")
    /\ controls' = controls \cup {UpdateOf(successor[p])}
    /\ UNCHANGED <<head, archived, unsynced, retained, lockVars, reqVars, seen,
                   outcome>>

\* verifyRetainedBundles, then archive the selected controls.
PublishControls(p) ==
    /\ pc[p] = "controls"
    /\ \/ /\ UpdateOf(successor[p]) \in retained
          /\ Goto(p, "stage")
          /\ controls' = controls \cup {UpdateOf(successor[p])}
          /\ UNCHANGED outcome
       \/ /\ UpdateOf(successor[p]) \notin retained
          /\ Leave(p, "MISSING_CONTRACT")
          /\ UNCHANGED controls
    /\ UNCHANGED <<head, archived, unsynced, retained, lockVars, reqVars, seen>>

\* durableWriteBytes(head.next): O_EXCL, so a leftover file is an error.
Stage(p) ==
    /\ pc[p] = "stage"
    /\ \/ /\ staging
          /\ headNext = None
          /\ Goto(p, "revalidate")
          /\ headNext' = successor[p]
          /\ UNCHANGED outcome
       \/ /\ ~staging \/ headNext # None
          /\ Leave(p, "CUSTODY_ERROR")
          /\ UNCHANGED headNext
    /\ UNCHANGED <<storeVars, staging, token, expired, residue, reqVars, seen>>

\* req.Revalidate and the context check: the inputs are outside the store,
\* so either answer is possible.
Revalidate(p) ==
    /\ pc[p] = "revalidate"
    /\ \/ /\ Goto(p, "archive")
          /\ UNCHANGED <<headNext, outcome>>
       \/ /\ Leave(p, "STALE_INPUT")
          /\ headNext' = None
    /\ UNCHANGED <<storeVars, staging, token, expired, residue, reqVars, seen>>

\* Mutant of Archive: the link is skipped, only the directory is flushed.
ArchiveUnlinked(p) ==
    /\ pc[p] = "archive"
    /\ Goto(p, "syncHeads")
    /\ unsynced' = unsynced \cup {successor[p]}
    /\ UNCHANGED <<head, archived, controls, retained, lockVars, reqVars, seen,
                   outcome>>

\* publishImmutableFile of the successor: link it, or find it there already.
Archive(p) ==
    /\ pc[p] = "archive"
    /\ \/ /\ successor[p] \notin archived
          /\ Goto(p, "syncHeads")
          /\ archived' = archived \cup {successor[p]}
          /\ unsynced' = unsynced \cup {successor[p]}
       \/ /\ successor[p] \in archived
          /\ Goto(p, "recheck")
          /\ UNCHANGED <<archived, unsynced>>
    /\ UNCHANGED <<head, controls, retained, lockVars, reqVars, seen, outcome>>

\* publishImmutableFile's fsync of ledger/heads after a fresh link; when it
\* fails the staged head goes and the linked archive stays.
SyncHeads(p) ==
    /\ pc[p] = "syncHeads"
    /\ \/ /\ Goto(p, "recheck")
          /\ unsynced' = {}
          /\ UNCHANGED <<headNext, outcome>>
       \/ /\ Leave(p, "CUSTODY_ERROR")
          /\ headNext' = None
          /\ UNCHANGED unsynced
    /\ UNCHANGED <<head, archived, controls, retained, staging, token, expired,
                   residue, reqVars, seen>>

\* Re-read head.json; on a mismatch undo the staging and the archive.
Recheck(p) ==
    /\ pc[p] = "recheck"
    /\ \/ /\ head = expected[p]
          /\ Goto(p, "advance")
          /\ UNCHANGED <<headNext, archived, unsynced, outcome>>
       \/ /\ head # expected[p]
          /\ Leave(p, "HEAD_CONFLICT")
          /\ headNext' = None
          /\ archived' = archived \ {successor[p]}
          /\ unsynced' = unsynced \ {successor[p]}
    /\ UNCHANGED <<head, controls, retained, staging, token, expired, residue,
                   reqVars, seen>>

\* Rename(head.next, head.json); when it fails the archive is removed too.
Advance(p) ==
    /\ pc[p] = "advance"
    /\ \/ /\ headNext # None
          /\ Goto(p, "verify")
          /\ head' = headNext
          /\ headNext' = None
          /\ UNCHANGED <<archived, unsynced, outcome>>
       \/ /\ headNext = None
          /\ Leave(p, "CUSTODY_ERROR")
          /\ archived' = archived \ {successor[p]}
          /\ unsynced' = unsynced \ {successor[p]}
          /\ UNCHANGED <<head, headNext>>
    /\ UNCHANGED <<controls, retained, staging, token, expired, residue, reqVars,
                   seen>>

\* The fsync, the final read and the last context check: any of them may
\* fail after the head has advanced.
Verify(p) ==
    /\ pc[p] = "verify"
    /\ \/ /\ head = successor[p]
          /\ Leave(p, "committed")
       \/ Leave(p, "CUSTODY_ERROR")
    /\ UNCHANGED <<storeVars, lockVars, reqVars, seen>>

---------------------------------------------------------------------------
(* release: sweep the scratch, drop the token, remove the namespace.       *)

Sweep(p) ==
    /\ pc[p] = "sweep"
    /\ \/ /\ staging
          /\ Goto(p, "drop")
          /\ headNext' = None
       \/ /\ ~staging
          /\ Goto(p, "idle")
          /\ UNCHANGED headNext
    /\ UNCHANGED <<storeVars, staging, token, expired, residue, reqVars, seen, outcome>>

\* Mutant of DropToken: the namespace is not removed after the token.
DropTokenOnly(p) ==
    /\ pc[p] = "drop"
    /\ Goto(p, "idle")
    /\ token' = None
    /\ expired' = FALSE
    /\ UNCHANGED <<storeVars, staging, headNext, residue, reqVars, seen, outcome>>

DropToken(p) ==
    /\ pc[p] = "drop"
    /\ Goto(p, "rmdir")
    /\ token' = None
    /\ expired' = FALSE
    /\ UNCHANGED <<storeVars, staging, headNext, residue, reqVars, seen, outcome>>

\* Remove(staging): ENOTEMPTY leaves the cleanup to the next writer.
RemoveStaging(p) ==
    /\ pc[p] = "rmdir"
    /\ Goto(p, "idle")
    /\ staging' = (staging /\ (token # None \/ headNext # None))
    /\ residue' = (residue /\ staging')
    /\ UNCHANGED <<storeVars, token, expired, headNext, reqVars, seen, outcome>>

\* Mutant of ReleaseError: the result is reported as if release had succeeded.
ReleaseErrorIgnored(result) == result

\* What the caller hears when its release fails: a result turns into the
\* release's error, an error that is already on its way is not masked.
ReleaseError(result) ==
    IF result \in {"committed", "idempotent"} THEN "CUSTODY_ERROR" ELSE result

\* An I/O error ends release where it stands: at the listing or at one of the
\* removals of the sweep, at the removal of the token, or at that of staging.
\* The writer is not held any more, but its token may still be there.
ReleaseFails(p) ==
    /\ pc[p] \in {"sweep", "drop", "rmdir"}
    /\ Return(p, ReleaseError(outcome[p]))
    /\ \/ pc[p] = "sweep" /\ headNext' = None
       \/ UNCHANGED headNext
    /\ residue' = (residue \/ staging)
    /\ UNCHANGED <<storeVars, staging, token, expired, reqVars, seen>>

---------------------------------------------------------------------------
(* The environment.                                                        *)

\* Capture retains a finalized bundle in objects/.
Retain(u) ==
    /\ u \notin retained
    /\ retained' = retained \cup {u}
    /\ UNCHANGED <<head, archived, unsynced, controls, lockVars, pc, reqVars,
                   seen, outcome>>

\* A process dies between two of its steps; what it wrote stays.
Crash(p) ==
    /\ Running(p)
    /\ pc' = [pc EXCEPT ![p] = "crashed"]
    /\ UNCHANGED <<storeVars, lockVars, reqVars, seen, outcome>>

\* tokenExpired: 660 s pass over a token.  "crashed": only a token that its
\* maker does not hold any more gets that old, because the maker died or its
\* release failed; "any": a live holder may be suspended.  Without races the
\* lease runs out, and stays over, only while at most one registrar is active.
ExpireLease ==
    /\ token # None
    /\ ~expired
    /\ \/ LeaseExpiry = "any"
       \/ LeaseExpiry = "crashed" /\ Abandoned(token)
    /\ Races \/ RunsAlone
    /\ expired' = TRUE
    /\ UNCHANGED <<storeVars, staging, token, headNext, residue, pc, reqVars,
                   seen, outcome>>

\* InitStore leaves the generation-zero head archived, synced and current.
Init ==
    /\ head = <<>>
    /\ archived = {<<>>}
    /\ unsynced = {}
    /\ controls = {}
    /\ retained = {}
    /\ staging = FALSE
    /\ token = None
    /\ expired = FALSE
    /\ headNext = None
    /\ residue = FALSE
    /\ pc = [p \in Procs |-> "idle"]
    /\ expected = [p \in Procs |-> <<>>]
    /\ successor = [p \in Procs |-> <<>>]
    /\ seen = [p \in Procs |-> <<>>]
    /\ outcome = [p \in Procs |-> "none"]

Acquire(p) ==
    MakeStaging(p) \/ MakeToken(p) \/ TakeOver(p) \/ WriteOwner(p)

Transact(p) ==
    \/ Compare(p) \/ PublishControls(p) \/ Stage(p) \/ Revalidate(p)
    \/ Archive(p) \/ SyncHeads(p) \/ Recheck(p) \/ Advance(p) \/ Verify(p)

Release(p) == Sweep(p) \/ DropToken(p) \/ RemoveStaging(p)

\* What a registrar does once it has been called.
Step(p) ==
    ReadHead(p) \/ Validate(p) \/ Acquire(p) \/ Transact(p) \/ Release(p)

\* An I/O error of the file system that ends the acquisition or the release.
Fault(p) == AcquireFails(p) \/ ReleaseFails(p)

Next ==
    \/ \E p \in Procs :
           Start(p) \/ Step(p) \/ Timeout(p) \/ Fault(p) \/ Crash(p)
    \/ \E u \in Updates : Retain(u)
    \/ ExpireLease

Spec == Init /\ [][Next]_vars

---------------------------------------------------------------------------
(* Fairness and properties.                                                *)

\* A live process keeps executing, time passes over the token of a dead one,
\* and the context deadline of a call passes: a loop that looks at it for ever
\* sees it pass.
Fairness ==
    /\ WF_vars(ExpireLease)
    /\ \A p \in Procs : WF_vars(Step(p)) /\ SF_vars(Timeout(p))

FairSpec == Spec /\ Fairness

TypeOK ==
    /\ head \in Heads
    /\ archived \subseteq Heads
    /\ unsynced \subseteq archived
    /\ controls \subseteq Updates
    /\ retained \subseteq Updates
    /\ staging \in BOOLEAN
    /\ token \in Procs \cup {None}
    /\ expired \in BOOLEAN
    /\ headNext \in Heads \cup {None}
    /\ residue \in BOOLEAN
    /\ pc \in [Procs -> Labels]
    /\ expected \in [Procs -> Heads]
    /\ successor \in [Procs -> Heads]
    /\ seen \in [Procs -> Heads]
    /\ outcome \in [Procs -> Outcomes]

\* The writer is exclusive: at most one process is between a successful
\* acquireStoreWriter and the drop of its token, though tokens outlive their
\* leases and are taken over.  (Two waiters that race for one such token can
\* both become writers: registration_store.go:566-568, Races.)
MutualExclusion ==
    \A p, q \in Procs : Holding(p) /\ Holding(q) => p = q

\* CommitRegistration archives before it advances, so head.json never names
\* archive bytes that are not there, for itself or for any predecessor.
HeadArchived == Chain(head) \subseteq archived

\* What head.json names is not only archived but flushed: no directory entry
\* of the chain is still waiting for its fsync.
HeadDurable == Chain(head) \cap unsynced = {}

\* Every document the store holds - current, archived or staged - only adds
\* registrations whose controls are archived and whose bundle is retained,
\* even when two writers hold the token at once.
Supported(h) == \A i \in 1..Len(h) : h[i] \in controls \cap retained
ControlsArchived ==
    /\ \A h \in archived \cup {head} : Supported(h)
    /\ headNext # None => Supported(headNext)

\* Recovery never rolls the head back and a commit appends exactly one
\* generation to the head it replaces.
HeadAppends == [][\E u \in Updates : head' = Append(head, u)]_head

\* A result a caller has been given stays true: the registered successor is
\* part of the history from then on, whoever commits or crashes afterwards.
AcknowledgedStays ==
    \A p \in Procs :
        pc[p] = "idle" /\ outcome[p] \in {"committed", "idempotent"}
            => successor[p] \in Chain(head)

\* Two registrations of one expected head never both commit; the other one
\* can only be the idempotent confirmation, a conflict or an error.
OneWinner ==
    \A p, q \in Procs :
        /\ p # q
        /\ outcome[p] = "committed" /\ outcome[q] = "committed"
        => expected[p] # expected[q]

\* A staged successor never gets further than one generation ahead of the
\* committed history, which is what makes it recoverable by a retry.
NothingAhead ==
    \A a \in archived : a # <<>> => SubSeq(a, 1, Len(a) - 1) \in Chain(head)

\* release returns the store to a quiescent, exportable state.  A transaction
\* directory that is left when every caller has its answer was left by an I/O
\* error of an acquisition or of a release, never by a race of the two; and it
\* is not left in silence: some caller's last answer is an error.
Served(p) == pc[p] = "idle" /\ outcome[p] \in {"none", "committed", "idempotent"}
QuiescentExportable ==
    (\A p \in Procs : pc[p] = "idle") /\ staging
        => residue /\ \E p \in Procs : ~Served(p)

\* The store can be opened: validateHeadChain accepts the current head and
\* archive directory.
StoreOpens == ValidChain(head)

\* A reader reports CONTROL_ROLLBACK only for a store whose chain is not
\* valid, never because it raced a registration.
NoFalseRollback ==
    \A p \in Procs : outcome[p] = "CONTROL_ROLLBACK" => ~ValidChain(head)

\* Every call returns (or its process dies): the acquire loop, the takeover
\* and the release never keep a caller for ever.
CallsReturn == \A p \in Procs : Running(p) ~> ~Running(p)

\* A token that is nobody's, of a dead writer or of one whose release failed,
\* does not block the store for ever: as long as registrars keep looking at the
\* token (their Mkdir does not fail for another reason for ever), one of them
\* takes it over.
DeadWriterReplaced ==
    []<><<\E q \in Procs : MakeToken(q)>>_vars
        => \A p \in Procs : ~<>[](token = p /\ Abandoned(p))

---------------------------------------------------------------------------
(* The store implements the compare-and-append register of HeadRegister.   *)

\* Where a call stands, seen from outside: decided once the head has moved
\* or an outcome is fixed, failed when its process is gone.
Phase(p) ==
    CASE pc[p] = "crashed" -> "failed"
      [] pc[p] # "crashed" /\ outcome[p] = "committed" -> "won"
      [] pc[p] # "crashed" /\ outcome[p] = "idempotent" -> "confirmed"
      [] pc[p] # "crashed" /\ outcome[p] = "HEAD_CONFLICT" -> "lost"
      [] pc[p] # "crashed" /\ outcome[p] = "none" ->
            IF pc[p] = "verify" THEN "won"
            ELSE IF pc[p] = "idle" THEN "idle" ELSE "pending"
      [] OTHER -> "failed"

Register == INSTANCE HeadRegister WITH phase <- [p \in Procs |-> Phase(p)]

\* Every answer CommitRegistration gives is the answer of an atomic
\* compare-and-append of head.json somewhere inside the call.
ImplementsRegister == Register!Spec

=============================================================================
