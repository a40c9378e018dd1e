------------------------------- MODULE HookStore -------------------------------
(***************************************************************************)
(* The identity of the per-user hook store (internal/hook: hook.go, adopt.go,  *)
(* release.go, retention.go).  Every governed event first runs ensureStateDir: *)
(* the store directory must be the one that the initialization marker in the   *)
(* home directory names, by its native identity and by a random generation.    *)
(* An operator adopts a store that was moved or restored.  Both hold the       *)
(* marker's lock, so they are single steps here; a kill inside one leaves what *)
(* its writes left (the Killed actions).  A file is replaced by moving the old *)
(* one into a private quarantine first, so it is absent for a moment.  People  *)
(* lose, park, copy and exchange the directory between events.                 *)
(***************************************************************************)
EXTENDS Naturals, FiniteSets

CONSTANTS Migrates,    \* TRUE: some installations begin with a legacy marker
          MaxFaults,   \* what people do to the directories
          MaxKills, MaxAdoptions


VARIABLES
  mk,       \* the initialization marker in the home directory
  mq,       \* the marker inside an interrupted replacement, None otherwise
  lm,       \* the legacy marker, beside the store
  cfg,      \* the user's config directory exists
  dir,      \* the directory at the store's path
  parked,   \* a store that was moved aside
  jr, jq,   \* the adoptions in the handoff journal, and in its quarantine
  made,     \* directories and generations made so far
  owed,     \* a change that no Stop has checked
  last,     \* what the last event got from ensureStateDir
  adopted,  \* adoptions that took effect
  exposed,  \* a store was taken for the recorded one while no marker named one
  reset,    \* an adoption took a store other than the recorded one
  faults, kills, adoptions

places == <<mk, mq, lm, cfg, dir, parked, jr, jq, made>>
hist == <<owed, last, adopted, exposed, reset>>
bounds == <<faults, kills, adoptions>>
vars == <<places, hist, bounds>>

\* stateDirectoryBinding.  n = 0: no binding, the legacy marker's constant, a torn file.
Binding(n, g) == [n |-> n, g |-> g]
None == Binding(0, 0)
Legacy == Binding(0, 1)
Torn == Binding(0, 2)
Real(b) == b.n # 0

\* A directory: its native identity, its identity file, whether it holds the project's
\* ledger, and whether an interrupted write left an entry in it.
Dir(n, id, led) == [n |-> n, id |-> id, led |-> led, litter |-> FALSE]
NoDir == Dir(0, None, FALSE)

Init ==
  /\ \/ mk = None /\ lm = FALSE /\ cfg \in BOOLEAN /\ dir = NoDir /\ made = 0
     \/ /\ Migrates /\ cfg = TRUE /\ dir \in {Dir(1, None, led) : led \in BOOLEAN} /\ made = 1
        /\ \/ mk = Legacy /\ lm \in BOOLEAN
           \/ mk = None /\ lm = TRUE
  /\ jr = {} /\ jq = {} /\ parked = NoDir /\ mq = None
  /\ owed = dir.led /\ last = "none" /\ adopted = {} /\ exposed = FALSE /\ reset = FALSE
  /\ faults = 0 /\ kills = 0 /\ adoptions = 0

Fresh == made + 1

-----------------------------------------------------------------------------
(* ensureStateDir. *)

\* readStateInitializationMarker: present, and not the legacy constant.
Bound == Real(mk)
Initialized == mk # None \/ lm

\* The directory or its parent is missing after an initialization.
LossProblem == dir.n = 0 /\ Initialized

\* Mutant of IdentityProblem: a store is accepted for its own identity file.
IdentityProblemSelf ==
  \/ dir.id = Torn
  \/ dir.id = None /\ Bound
  \/ Real(dir.id) /\ dir.id.n # dir.n

\* ensureStateDirectoryIdentity.
IdentityProblem ==
  \/ dir.id = Torn
  \/ dir.id = None /\ Bound
  \/ Real(dir.id) /\ dir.id.n # dir.n
  \/ Real(dir.id) /\ Bound /\ dir.id # mk

Accepts == ~LossProblem /\ (dir.n # 0 => ~IdentityProblem)

\* os.MkdirAll, and the identity file of a directory that has none.
Made == IF dir.n = 0 THEN Dir(Fresh, None, FALSE) ELSE dir
\* Mutant of Identified: an old store is identified by the constant of its marker.
IdentifiedLegacy == IF Made.id = None THEN [Made EXCEPT !.id = Legacy] ELSE Made
Identified == IF Made.id = None THEN [Made EXCEPT !.id = Binding(Made.n, Fresh)] ELSE Made
\* What replaceStateFileAtomic finds at the marker, an interrupted replacement recovered.
OldMarker == IF mk # None THEN mk ELSE mq

\* A directory without the ledger is taken for the store while no marker names one: the
\* marker is in quarantine, or only the legacy constant, which names no directory.
Blind == ~Bound /\ owed /\ ~dir.led /\ (dir.n = 0 => mk = None /\ ~lm)

\* The store exists and is identified, and the marker names it.
Ensured ==
  /\ cfg' = TRUE /\ made' = (IF dir = Identified THEN made ELSE Fresh)
  /\ mk' = (IF Bound THEN mk ELSE Identified.id) /\ mq' = (IF Bound THEN mq ELSE None)
  /\ exposed' = (exposed \/ Blind)

\* A governed tool call: the event is accepted, and its project's ledger written.
Arm ==
  /\ Accepts /\ ~dir.led /\ Ensured /\ dir' = [Identified EXCEPT !.led = TRUE]
  /\ owed' = TRUE /\ last' = "armed"
  /\ UNCHANGED <<lm, parked, jr, jq, adopted, reset, bounds>>

\* A Stop whose gates pass: it clears the ledger it finds, or finds the project untouched.
Stop ==
  /\ Accepts /\ dir.led /\ Ensured /\ dir' = [Identified EXCEPT !.led = FALSE]
  /\ owed' = FALSE /\ last' = "stopped"
  /\ UNCHANGED <<lm, parked, jr, jq, adopted, reset, bounds>>

Untouched ==
  /\ Accepts /\ ~dir.led /\ Ensured /\ dir' = Identified /\ last' = "untouched"
  /\ UNCHANGED <<lm, parked, jr, jq, owed, adopted, reset, bounds>>

Refuse ==
  /\ ~Accepts /\ last' = "refused" /\ last # "refused"
  /\ UNCHANGED <<places, owed, adopted, exposed, reset, bounds>>

\* The process is killed: after the directory, inside the identity file's write, after it,
\* or while the old marker is in quarantine.
KilledEnsuring ==
  /\ Accepts /\ ~Bound /\ kills < MaxKills /\ kills' = kills + 1
  /\ cfg' = TRUE /\ made' = Fresh /\ exposed' = (exposed \/ Blind) /\ last' = "killed"
  /\ \/ dir' = Made /\ UNCHANGED <<mk, mq>>
     \/ Made.id = None /\ dir' = [Made EXCEPT !.id = Torn] /\ UNCHANGED <<mk, mq>>
     \/ dir' = Identified /\ UNCHANGED <<mk, mq>>
     \/ OldMarker # None /\ dir' = Identified /\ mk' = None /\ mq' = OldMarker
  /\ UNCHANGED <<lm, parked, jr, jq, owed, adopted, reset, faults, adoptions>>

-----------------------------------------------------------------------------
(* AdoptStateWith. *)

\* Mutant of AdoptionRefusal: the operator's acknowledgement does not count.
AdoptionRefusalAlways(d, from, rebind) ==
  d.id.n # d.n \/ (from /\ (d.id.g # mk.g \/ d.id.n # mk.n))

\* adoptionRefusal, for the identity file and native identity of directory d.
AdoptionRefusal(d, from, rebind) ==
  \/ d.id.n # d.n /\ (~rebind \/ d.id.g # mk.g)
  \/ from /\ (d.id.g # mk.g \/ (d.id.n # mk.n /\ ~rebind))

\* The marker is bound, the source has an identity file and only whole entries, and it is
\* the recorded store as far as adoptionRefusal asks.
Adoptable(d, from, rebind) ==
  /\ Bound /\ d.n # 0 /\ Real(d.id) /\ ~d.litter
  /\ from => dir.n = 0 /\ cfg
  /\ ~AdoptionRefusal(d, from, rebind)

Source(from) == IF from THEN parked ELSE dir
Rebound(d) == [d EXCEPT !.id = Binding(d.n, d.id.g)]
\* The journal is read where it stands; what an interrupted replacement holds is restored
\* and then replaced by the text that was read.
Journaled == jr \cup {adoptions + 1}
Foreign(d) == d.id.g # mk.g

BeginAdoption(from, rebind) ==
  /\ adoptions < MaxAdoptions /\ adoptions' = adoptions + 1
  /\ Adoptable(Source(from), from, rebind) /\ last' = "adopting"
  /\ UNCHANGED <<lm, cfg, made, owed, exposed, faults>>

Adopt(from, rebind) ==
  /\ BeginAdoption(from, rebind)
  /\ jr' = Journaled /\ jq' = {} /\ parked' = (IF from THEN NoDir ELSE parked)
  /\ dir' = Rebound(Source(from)) /\ mk' = dir'.id /\ mq' = None
  /\ adopted' = adopted \cup {adoptions'}
  /\ reset' = (reset \/ Foreign(Source(from)))
  /\ UNCHANGED kills

\* Killed while the journal is replaced.
KilledJournaling(from, rebind) ==
  /\ BeginAdoption(from, rebind) /\ kills < MaxKills /\ kills' = kills + 1
  /\ jr # {} /\ jr' = {} /\ jq' = jr
  /\ UNCHANGED <<dir, parked, mk, mq, adopted, reset>>

\* Killed after the journal: around the rename, inside the replacement of the identity
\* file (its temp, the old file in quarantine, the quarantine not retired), after it, or
\* while the old marker is in quarantine.
KilledAdopting(from, rebind) ==
  LET d == Source(from) IN
  /\ BeginAdoption(from, rebind) /\ kills < MaxKills /\ kills' = kills + 1
  /\ jr' = Journaled /\ jq' = {} /\ parked' = (IF from THEN NoDir ELSE parked)
  /\ reset' = (reset \/ Foreign(d)) /\ UNCHANGED adopted
  /\ \/ UNCHANGED <<mk, mq>>
        /\ dir' \in {d, [d EXCEPT !.litter = TRUE], [d EXCEPT !.id = None, !.litter = TRUE],
                     [Rebound(d) EXCEPT !.litter = TRUE], Rebound(d)}
     \/ dir' = Rebound(d) /\ mk' = None /\ mq' = mk

-----------------------------------------------------------------------------
(* What people do between events. *)

Fault ==
  /\ faults < MaxFaults /\ faults' = faults + 1
  /\ UNCHANGED <<mk, mq, jr, jq, owed, last, adopted, exposed, reset, kills, adoptions>>

LoseStore == Fault /\ dir.n # 0 /\ dir' = NoDir /\ UNCHANGED <<lm, cfg, parked, made>>
LoseParent ==
  /\ Fault /\ cfg /\ cfg' = FALSE /\ dir' = NoDir /\ lm' = FALSE /\ UNCHANGED <<parked, made>>
Park == Fault /\ dir.n # 0 /\ parked' = dir /\ dir' = NoDir /\ UNCHANGED <<lm, cfg, made>>
\* Moved to another file system, or restored from a copy: another native identity.
Move ==
  /\ Fault /\ dir.n # 0 /\ made' = Fresh /\ dir' = [dir EXCEPT !.n = Fresh]
  /\ UNCHANGED <<lm, cfg, parked>>
\* Another store, or a new directory, in the place of this one.
Exchange ==
  /\ Fault /\ cfg /\ made' = Fresh /\ UNCHANGED <<lm, cfg, parked>>
  /\ dir' \in {Dir(Fresh, Binding(Fresh, Fresh), FALSE), Dir(Fresh, None, FALSE)}

Next ==
  \/ Arm \/ Stop \/ Untouched \/ Refuse \/ KilledEnsuring
  \/ \E from, rebind \in BOOLEAN :
       Adopt(from, rebind) \/ KilledJournaling(from, rebind) \/ KilledAdopting(from, rebind)
  \/ LoseStore \/ LoseParent \/ Park \/ Move \/ Exchange

Spec == Init /\ [][Next]_vars

-----------------------------------------------------------------------------
(* Properties. *)

\* The state holds values of its type, the identity file is never the legacy constant, a
\* marker is never torn (it is renamed into place whole), and no store or legacy marker is
\* without the parent it lies in.
TypeOK ==
  /\ cfg \in BOOLEAN /\ lm \in BOOLEAN /\ owed \in BOOLEAN
  /\ \A b \in {mk, mq} : b \in {None, Legacy} \/ Real(b)
  /\ \A d \in {dir, parked} : (d.id \in {None, Torn} \/ Real(d.id)) /\ (d.n = 0 => d = NoDir)
  /\ dir.n # 0 \/ lm => cfg

\* requireStateDir: while a change is unchecked, no event is told that the project is
\* untouched.  Deleting, moving or exchanging the store or its parent is refused instead.
LossIsRefused == ~exposed /\ ~reset => ~(last = "untouched" /\ owed)

\* The same while the marker itself is being replaced.
LossAlwaysRefused == ~reset => ~(last = "untouched" /\ owed)

\* AdoptStateWith: adoption retains every recorded obligation; a lost ledger is not reset.
LedgerNotReset == ~exposed => ~(last = "untouched" /\ owed)

\* A store in its place whose entries are whole is usable, or some adoption makes it so,
\* unless it is neither the recorded directory nor the recorded generation.
Repairable ==
  (Real(dir.id) /\ ~dir.litter /\ (dir.id.n = dir.n \/ (Bound /\ dir.id.g = mk.g)))
    => Accepts \/ \E rebind \in BOOLEAN : Adoptable(dir, FALSE, rebind)

\* AdoptStateWith: after an adoption that did not finish, the store is usable or an adoption
\* can be tried again.
AdoptionCanBeRetried ==
  (adoptions > 0 /\ faults = 0 /\ dir.n # 0)
    => Accepts \/ \E rebind \in BOOLEAN : Adoptable(dir, FALSE, rebind)

\* storeBindingRemedy: doctor says that the next event rebinds an unbound marker.
Remedied == dir.n # 0 /\ (mk = None \/ mk = Legacy) /\ faults = 0
NextEventRebinds == Remedied => Accepts

\* Every adoption that took effect stays in the handoff journal.
AdoptionsJournaled == adopted \subseteq jr \cup jq
================================================================================
