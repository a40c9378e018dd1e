--------------------------- MODULE GeneratedOutput ---------------------------
(* The formal directory that machinery tla, refine and compose share: what a *)
(* run replaces, what it removes as stale, and what it refuses to touch.     *)
(* Authors add, remove and rename the sources, delete or hand-write outputs; *)
(* a new release of the tool changes every generated body.  A run publishes  *)
(* its plan as one artifact set (ArtifactSet), so it is one step here.       *)
EXTENDS Integers, FiniteSets, TLAPS

CONSTANTS Machines,      \* stems of <stem>.machine.json
          Semantics,     \* names of semantics files
          Dir,           \* Dir[s]: the directory of s, "outside" if not in the design
          Compositions,  \* names of composition files
          Hands,         \* output names that an author may write by hand
          MaxEdits

Family == {"Data.tla", "Data.cfg", "Contract.tla", "Refinement.tla", "Refinement.cfg"}
Pair == {".tla", ".cfg"}
Names == Machines \X (Family \cup Pair)
Patterns == {"linear-lifecycle", "saga", "control-flow-only"}
None == "none"

VARIABLES machines,   \* the machine files that exist
          sems,       \* sems[s]: pattern and machine: field, or pat = None
          comps,      \* comps[c]: composition: field, or None
          files,      \* files[n]: what is at the output name n
          release, edits,
          last        \* the last step: who took it and whether it succeeded
vars == <<machines, sems, comps, files, release, edits, last>>


Nothing == [by |-> None, src |-> None, sem |-> None, rel |-> 0]
Hand == [by |-> "hand", src |-> None, sem |-> None, rel |-> 0]
Exists(n) == files[n].by # None
At(p, suffixes) == {<<p, x>> : x \in suffixes}
Present(s) == sems[s].pat # None
External == {s \in Semantics : Dir[s] = "outside"}

Say(gen, args, ok) == last' = [gen |-> gen, args |-> args, ok |-> ok]
Publish(out, body, stale) ==
    files' = [n \in Names |-> IF n \in out THEN body
                              ELSE IF n \in stale THEN Nothing ELSE files[n]]
Run(gen, args, refused, out, body, stale) ==
    /\ IF refused THEN Say(gen, args, FALSE) /\ UNCHANGED files
       ELSE Say(gen, args, TRUE) /\ Publish(out, body, stale)
    /\ UNCHANGED <<machines, sems, comps, release, edits>>

----------------------------------------------------------------------------
(* machinery tla <machine.json>                                             *)

TLABody(m) == [by |-> "tla", src |-> m, sem |-> None, rel |-> release]

\* Mutant of guardedCurrentTLAArtifacts: a config follows its name.
guardedCurrentTLAArtifactsByName(m) ==
    files[<<m, ".tla">>].by = "tla" \/ ~Exists(<<m, ".tla">>)

\* Mutant of guardedCurrentTLAArtifacts: a config is what stands beside its module.
guardedCurrentTLAArtifactsBeside(m) ==
    LET Differs(n) == Exists(n) /\ files[n] # TLABody(m)
        Owned == files[<<m, ".tla">>].by = "tla" /\ files[<<m, ".tla">>].src = m
    IN Differs(<<m, ".tla">>) \/ Differs(<<m, ".cfg">>) => Owned

\* A module is replaced if this machine owns it, a config beside such a module.
guardedCurrentTLAArtifacts(m) ==
    LET Differs(n) == Exists(n) /\ files[n] # TLABody(m)
        Owned == files[<<m, ".tla">>].by = "tla" /\ files[<<m, ".tla">>].src = m
    IN /\ Differs(<<m, ".tla">>) => Owned
       /\ Differs(<<m, ".cfg">>) => Owned /\ files[<<m, ".cfg">>].by = "tla"

\* Mutant of staleOwnedTLAArtifacts: whatever this machine does not own is stale.
staleOwnedTLAArtifactsAll(m) ==
    {n \in (Machines \ {m}) \X Pair : Exists(n) /\ files[<<n[1], ".tla">>].by = "tla"}

staleOwnedTLAArtifacts(m) ==
    {n \in (Machines \ {m}) \X Pair : LET b == files[<<n[1], ".tla">>] IN
        \/ Exists(n) /\ b.by = "tla" /\ b.src \notin machines
        \/ n[2] = ".cfg" /\ b.by = None /\ files[n].by = "tla" /\ n[1] \notin machines}

RunTLA(m) == m \in machines
    /\ Run("tla", <<m>>, ~guardedCurrentTLAArtifacts(m), At(m, Pair), TLABody(m),
           staleOwnedTLAArtifacts(m))

----------------------------------------------------------------------------
(* machinery refine <machine.json> <semantics.yaml>                         *)

\* Mutant of RefineBody: the header names the machine only.
RefineBodyMachine(m, s) == [by |-> "refine", src |-> m, sem |-> None, rel |-> release]

RefineBody(m, s) == [by |-> "refine", src |-> m, sem |-> s, rel |-> release]
Emitted(s) == At(sems[s].names,
    CASE sems[s].pat = "linear-lifecycle" -> Family
      [] sems[s].pat = "saga" -> {"Data.tla", "Data.cfg"}
      [] OTHER -> {})

refinementSourceOwner(p) == files[<<p, "Data.tla">>]
\* The header names the machine whose file this would be.
InvalidHeader(p) == refinementSourceOwner(p).by = "refine" /\ refinementSourceOwner(p).src # p

\* Mutant of guardedCurrentRefinementArtifacts: members follow their module.
guardedCurrentRefinementArtifactsBeside(m, s) ==
    LET anchor == <<m, "Data.tla">>
        anchorOwned == /\ anchor \in Emitted(s)
                       /\ files[anchor].by = "refine" /\ files[anchor].src = m /\ files[anchor].sem = s
    IN /\ ~(anchor \in Emitted(s) /\ InvalidHeader(m))
       /\ \A n \in Emitted(s) : Exists(n) /\ files[n] # RefineBody(m, s) => anchorOwned

guardedCurrentRefinementArtifacts(m, s) ==
    LET anchor == <<m, "Data.tla">>
        anchorOwned == /\ anchor \in Emitted(s)
                       /\ files[anchor].by = "refine" /\ files[anchor].src = m /\ files[anchor].sem = s
    IN /\ ~(anchor \in Emitted(s) /\ InvalidHeader(m))
       /\ \A n \in Emitted(s) : Exists(n) /\ files[n] # RefineBody(m, s) =>
              anchorOwned /\ files[n].by = "refine"

\* Mutant of OwnerGone: a family outlives its machine.
OwnerGoneSemantics(s, b) == ~(Present(b.sem) /\ Dir[b.sem] = Dir[s])

\* To a run of s, semantics that do not lie beside s are gone, live or not.
OwnerGone(s, b) == b.src \notin machines \/ ~(Present(b.sem) /\ Dir[b.sem] = Dir[s])

\* Mutant of staleOwnedRefinementArtifacts: a name is enough to be a member.
staleOwnedRefinementArtifactsNamed(m, s) ==
    {n \in Machines \X Family : LET b == refinementSourceOwner(n[1]) IN
        /\ Exists(n) /\ n \notin Emitted(s)
        /\ \/ b.by = "refine" /\ ((b.src = m /\ b.sem = s) \/ OwnerGone(s, b))
           \/ b.by = None /\ (n[1] = m \/ n[1] \notin machines)}

\* Mutant of staleOwnedRefinementArtifacts: every other family of the machine.
staleOwnedRefinementArtifactsMachine(m, s) ==
    {n \in Machines \X Family : LET b == refinementSourceOwner(n[1]) IN
        Exists(n) /\ n \notin Emitted(s) /\ b.by = "refine" /\ (b.src = m \/ OwnerGone(s, b))}

\* Members of the families this run owns or whose sources are gone, whatever
\* they hold, and members without a module whose machine is gone or is this one.
staleOwnedRefinementArtifacts(m, s) ==
    {n \in Machines \X Family : LET b == refinementSourceOwner(n[1]) IN
        /\ Exists(n) /\ n \notin Emitted(s)
        /\ \/ b.by = "refine" /\ ((b.src = m /\ b.sem = s) \/ OwnerGone(s, b))
           \/ b.by = None /\ files[n].by = "refine" /\ (n[1] = m \/ n[1] \notin machines)}

\* Mutant of cannotReconcile: its own family counts as another's.
cannotReconcileOwn(s) == s \in External /\ \E p \in Machines : refinementSourceOwner(p).by = "refine"

\* Outside of the design nothing says which semantics are gone.
cannotReconcile(s) == s \in External /\ \E p \in Machines :
    refinementSourceOwner(p).by = "refine"
    /\ \E x \in Family : <<p, x>> \notin Emitted(s) /\ Exists(<<p, x>>)

staleExternal(m, s) ==
    {n \in Machines \X Family :
        /\ refinementSourceOwner(n[1]).by = None /\ files[n].by = "refine" /\ n \notin Emitted(s)
        /\ (n[1] = m \/ n[1] \notin machines)}

RunRefine(m, s) == m \in machines /\ Present(s)
    /\ Run("refine", <<m, s>>,
           \/ ~guardedCurrentRefinementArtifacts(m, s)
           \/ \E p \in Machines : InvalidHeader(p)
           \/ cannotReconcile(s)
           \/ sems[s].pat = "control-flow-only" /\ sems[s].names # m,
           Emitted(s), RefineBody(m, s),
           IF s \in External THEN staleExternal(m, s) ELSE staleOwnedRefinementArtifacts(m, s))

----------------------------------------------------------------------------
(* machinery compose <composition.yaml> <coordinator.machine.json>          *)

\* Mutant of ComposeBody: the header keeps the declared name, not the file's.
ComposeBodyDeclared(c) == [by |-> "compose", src |-> comps[c], sem |-> None, rel |-> release]

ComposeBody(c) == [by |-> "compose", src |-> c, sem |-> None, rel |-> release]

guardedCurrentComposeArtifacts(c) ==
    LET p == comps[c]
        Differs(n) == Exists(n) /\ files[n] # ComposeBody(c)
        Owned == files[<<p, ".tla">>].by = "compose" /\ files[<<p, ".tla">>].src = c
    IN /\ Differs(<<p, ".tla">>) => Owned
       /\ Differs(<<p, ".cfg">>) => Owned /\ files[<<p, ".cfg">>].by = "compose"

\* Mutant of staleOwnedComposeArtifacts: a renamed composition leaves its old pair.
staleOwnedComposeArtifactsGone(c) ==
    {n \in (Machines \ {comps[c]}) \X Pair : LET b == files[<<n[1], ".tla">>] IN
        Exists(n) /\ b.by = "compose" /\ comps[b.src] = None}

staleOwnedComposeArtifacts(c) ==
    {n \in (Machines \ {comps[c]}) \X Pair : LET b == files[<<n[1], ".tla">>] IN
        \/ Exists(n) /\ b.by = "compose" /\ (b.src = c \/ comps[b.src] = None)
        \/ n[2] = ".cfg" /\ b.by = None /\ files[n].by = "compose"}

RunCompose(c) == comps[c] # None
    /\ Run("compose", <<c>>, ~guardedCurrentComposeArtifacts(c), At(comps[c], Pair), ComposeBody(c),
           staleOwnedComposeArtifacts(c))

----------------------------------------------------------------------------
(* Authors and releases.                                                    *)

Edit == edits < MaxEdits /\ edits' = edits + 1 /\ Say("author", <<>>, TRUE)

ToggleMachine(m) == Edit /\ UNCHANGED <<sems, comps, files, release>>
    /\ machines' = (IF m \in machines THEN machines \ {m} ELSE machines \cup {m})
EditSemantics(s, pat, m) == Edit /\ UNCHANGED <<machines, comps, files, release>>
    /\ sems' = [sems EXCEPT ![s] = [pat |-> pat, names |-> m]]
EditComposition(c, p) == Edit /\ UNCHANGED <<machines, sems, files, release>>
    /\ comps' = [comps EXCEPT ![c] = p]
Delete(n) == Edit /\ Exists(n) /\ files' = [files EXCEPT ![n] = Nothing]
             /\ UNCHANGED <<machines, sems, comps, release>>
HandWrite(n) == Edit /\ ~Exists(n) /\ files' = [files EXCEPT ![n] = Hand]
                /\ UNCHANGED <<machines, sems, comps, release>>
Upgrade == Edit /\ release = 1 /\ release' = 2 /\ UNCHANGED <<machines, sems, comps, files>>

Init == /\ machines = Machines /\ files = [n \in Names |-> Nothing] /\ release = 1 /\ edits = 0
        /\ sems = [s \in Semantics |-> [pat |-> None, names |-> None]]
        /\ comps = [c \in Compositions |-> None] /\ last = [gen |-> "author", args |-> <<>>, ok |-> TRUE]

Next == \/ \E m \in Machines : RunTLA(m) \/ ToggleMachine(m)
        \/ \E m \in Machines, s \in Semantics : RunRefine(m, s)
        \/ \E s \in Semantics, pat \in Patterns \cup {None}, m \in Machines : EditSemantics(s, pat, m)
        \/ \E c \in Compositions : RunCompose(c)
        \/ \E c \in Compositions, p \in Machines \cup {None} : EditComposition(c, p)
        \/ \E n \in Names : Delete(n)
        \/ \E n \in Hands : HandWrite(n)
        \/ Upgrade
Spec == Init /\ [][Next]_vars

----------------------------------------------------------------------------
(* Properties.                                                              *)

Bodies == [by : {None, "hand", "tla", "refine", "compose"}, src : Machines \cup Compositions \cup {None},
           sem : Semantics \cup {None}, rel : 0..2]
TypeOK == /\ machines \subseteq Machines /\ release \in 1..2 /\ files \in [Names -> Bodies]
          /\ sems \in [Semantics -> [pat : Patterns \cup {None}, names : Machines \cup {None}]]
          /\ comps \in [Compositions -> Machines \cup {None}]
          /\ \A s \in Semantics : Present(s) => sems[s].names \in Machines

Runs == {"tla", "refine", "compose"}
Anchor(n) == <<n[1], IF n[2] \in Pair THEN ".tla" ELSE "Data.tla">>

\* A run touches neither what another generator wrote nor what was written by
\* hand, unless it lies beside a module of the run's own generator: a member of an
\* owned family is removed by its name alone (refine.go:2130-2137).
ForeignKept == \A n \in Names :
    /\ last'.gen \in Runs /\ Exists(n) /\ files[n].by # last'.gen
    /\ files[Anchor(n)].by # last'.gen
    => files'[n] = files[n]

\* A hand-written file is never overwritten by a generated one.
HandNotReplaced == \A n \in Names :
    last'.gen \in Runs /\ files[n].by = "hand" => files'[n].by \in {"hand", None}

\* No run of a generator removes a file that was written by hand.
HandKept == \A n \in Names :
    last'.gen \in Runs /\ files[n].by = "hand" => files'[n].by = "hand"

\* The members of the family of m that came from m and s are those that s emits
\* now, of this release, unless the module beside them was replaced by hand.
OwnCurrent(m, s) == \A x \in Family :
    /\ files[<<m, x>>].by = "refine" /\ files[<<m, x>>].src = m /\ files[<<m, x>>].sem = s
    /\ refinementSourceOwner(m).by # "hand"
    => <<m, x>> \in Emitted(s) /\ files[<<m, x>>].rel = release

\* After a run that succeeded, no module of its generator is left whose sources
\* are gone, so that proofs of things that no longer exist do not pass for
\* evidence; what is left of the run's own sources is what they give now, under
\* one name.  Outputs of other sources may be old.  A run of refine leaves only
\* families whose semantics lie beside its own.
Converged == last.ok =>
    CASE last.gen = "tla" -> \A p \in Machines :
            files[<<p, ".tla">>].by = "tla" => files[<<p, ".tla">>].src \in machines
      [] last.gen = "refine" -> \A p \in Machines : LET b == refinementSourceOwner(p) IN
            /\ b.by = "refine" => /\ b.src \in machines /\ Present(b.sem)
                                  /\ Dir[b.sem] = Dir[last.args[2]]
            /\ OwnCurrent(last.args[1], last.args[2])
      [] last.gen = "compose" -> \A p \in Machines : LET b == files[<<p, ".tla">>] IN
            b.by = "compose" => comps[b.src] # None /\ (b.src = last.args[1] => comps[b.src] = p)
      [] OTHER -> TRUE

Sources(b) == IF b.by = "refine" THEN <<b.src, b.sem>> ELSE <<b.src>>
Alive(b) == CASE b.by = "tla" -> b.src \in machines
              [] b.by = "refine" -> b.src \in machines /\ Present(b.sem)
              [] b.by = "compose" -> comps[b.src] # None
              [] OTHER -> FALSE

\* A run of refine in the design looks for the semantics of every family in the
\* directory of its own (refine.go:2120-2122).
Looked(b) == b.by = "refine" =>
    last'.args[2] \in External \/ Dir[b.sem] = Dir[last'.args[2]]

\* Outputs of other sources stay where the run looks for these sources and they
\* exist, also when another source claims the same name.  A live family whose
\* semantics lie in another directory is removed, and a member without its module
\* may be.
LiveKept == \A n \in Names :
    LET b == files[n] IN
    last'.gen = b.by /\ last'.args # Sources(b) /\ Alive(b) /\ Looked(b) /\ Exists(Anchor(n))
    => files'[n] = b

Again(gens) == last.ok /\ last.gen \in gens /\ last'.gen = last.gen /\ last'.args = last.args

\* A run that succeeded succeeds when it is repeated, if the semantics name the
\* machine they are for and nothing was written by hand.
Repeatable == /\ Again(Runs)
              /\ \A n \in Names : files[n].by # "hand"
              /\ last.gen = "refine" => sems[last.args[2]].names = last.args[1]
              => last'.ok

\* A refinement that was published can be published again: the recovery that
\* every interrupted publication asks for.
RefineRepeatable == Again({"refine"}) => last'.ok

----------------------------------------------------------------------------
(* The inductive invariant: who wrote what stands at a name.                *)

\* A family name holds what refine or a hand wrote.
FamilyPlaced == \A p \in Machines, x \in Family : files[<<p, x>>].by \in {None, "hand", "refine"}

\* A pair of machinery tla is about the machine it is named for.
PairNamed == \A p \in Machines, x \in Pair : files[<<p, x>>].by = "tla" => files[<<p, x>>].src = p

\* A composed module and the config beside it have one source.
PairOne == \A p \in Machines :
    files[<<p, ".tla">>].by = "compose" /\ files[<<p, ".cfg">>].by = "compose"
    => files[<<p, ".cfg">>].src = files[<<p, ".tla">>].src

\* The members beside a module with a valid header have its sources.
FamilyOne == \A p \in Machines, x \in Family :
    refinementSourceOwner(p).by = "refine" /\ refinementSourceOwner(p).src = p /\ files[<<p, x>>].by = "refine"
    => files[<<p, x>>].src = p /\ files[<<p, x>>].sem = refinementSourceOwner(p).sem

\* What the last run left, if it succeeded.
LeftTLA(m) == /\ m \in machines /\ \A x \in Pair : files[<<m, x>>] = TLABody(m)
              /\ \A p \in Machines : files[<<p, ".tla">>].by = "tla" => files[<<p, ".tla">>].src \in machines
LeftRefine(m, s) ==
    /\ m \in machines /\ Present(s)
    /\ \A n \in Emitted(s) : files[n] = RefineBody(m, s)
    /\ \A p \in Machines : refinementSourceOwner(p).by = "refine" =>
           LET b == refinementSourceOwner(p) IN
           /\ b.src \in machines /\ Present(b.sem) /\ Dir[b.sem] = Dir[s]
           /\ sems[s].names = m => ~InvalidHeader(p)
           /\ sems[s].names = m /\ s \in External =>
                  \A x \in Family : <<p, x>> \notin Emitted(s) => files[<<p, x>>].by \in {None, "hand"}
    /\ sems[s].pat = "control-flow-only" => sems[s].names = m
    /\ OwnCurrent(m, s)
LeftCompose(c) ==
    /\ comps[c] # None /\ \A x \in Pair : files[<<comps[c], x>>] = ComposeBody(c)
    /\ \A p \in Machines : LET b == files[<<p, ".tla">>] IN
           b.by = "compose" => comps[b.src] # None /\ (b.src = c => comps[b.src] = p)
Left == last.ok =>
    \/ last.gen = "author"
    \/ \E m \in Machines : last.gen = "tla" /\ last.args = <<m>> /\ LeftTLA(m)
    \/ \E m \in Machines, s \in Semantics : last.gen = "refine" /\ last.args = <<m, s>> /\ LeftRefine(m, s)
    \/ \E c \in Compositions : last.gen = "compose" /\ last.args = <<c>> /\ LeftCompose(c)

Inv == TypeOK /\ FamilyPlaced /\ PairNamed /\ PairOne /\ FamilyOne /\ Left

StepKeeps == ForeignKept /\ HandNotReplaced /\ LiveKept /\ Repeatable

LEMMA NameParts ==
  /\ \A n \in Names : \E p \in Machines, x \in Family \cup Pair : n = <<p, x>>
  /\ \A p \in Machines, x \in Family \cup Pair : <<p, x>> \in Names
  BY DEF Names

LEMMA AtParts ==
  ASSUME NEW p, NEW q, NEW x, NEW S
  PROVE  <<p, x>> \in At(q, S) <=> p = q /\ x \in S
  BY DEF At

LEMMA Suffixes == /\ ".tla" \in Pair /\ ".cfg" \in Pair /\ "Data.tla" \in Family /\ Pair \cap Family = {}
                  /\ \A x \in Pair : x = ".tla" \/ x = ".cfg"
  BY DEF Pair, Family

LEMMA Anchors ==
  ASSUME NEW p
  PROVE  /\ \A x \in Pair : Anchor(<<p, x>>) = <<p, ".tla">>
         /\ \A x \in Family : Anchor(<<p, x>>) = <<p, "Data.tla">>
  BY Suffixes DEF Anchor

\* A run that is refused changes nothing; one that is not replaces its outputs
\* and removes what is stale.
Refused(gen, args) ==
    /\ last'.gen = gen /\ last'.args = args /\ ~last'.ok
    /\ UNCHANGED <<files, machines, sems, comps, release, edits>>
Published(gen, args, out, body, stale) ==
    /\ last'.gen = gen /\ last'.args = args /\ last'.ok
    /\ files' \in [Names -> Bodies]
    /\ \A n \in Names : /\ n \in out => files'[n] = body
                        /\ n \notin out /\ n \in stale => files'[n] = Nothing
                        /\ n \notin out /\ n \notin stale => files'[n] = files[n]
    /\ UNCHANGED <<machines, sems, comps, release, edits>>

LEMMA RunStep ==
  ASSUME TypeOK, NEW gen, NEW args, NEW refused, NEW out, NEW body \in Bodies, NEW stale,
         Run(gen, args, refused, out, body, stale)
  PROVE  \/ refused /\ Refused(gen, args)
         \/ ~refused /\ Published(gen, args, out, body, stale)
<1>1. CASE refused
  BY <1>1 DEF Run, Say, Refused
<1>2. CASE ~refused
  <2>1. Nothing \in Bodies
    BY DEF Nothing, Bodies, None
  <2>2. files' = [n \in Names |-> IF n \in out THEN body ELSE IF n \in stale THEN Nothing ELSE files[n]]
    BY <1>2 DEF Run, Publish
  <2>3. files' \in [Names -> Bodies]
    BY <2>1, <2>2 DEF TypeOK
  <2>4. last' = [gen |-> gen, args |-> args, ok |-> TRUE] /\ UNCHANGED <<machines, sems, comps, release, edits>>
    BY <1>2 DEF Run, Say
  <2> QED BY <1>2, <2>2, <2>3, <2>4 DEF Published
<1> QED BY <1>1, <1>2

\* A run that is refused keeps the promises of a run.
LEMMA Kept ==
  ASSUME Inv, NEW gen, NEW args, Refused(gen, args), gen \in Runs,
         gen = last.gen /\ args = last.args /\ last.ok
            /\ (\A n \in Names : files[n].by # "hand")
            /\ (last.gen = "refine" => sems[last.args[2]].names = last.args[1]) => FALSE
  PROVE  Inv' /\ StepKeeps
<1>1. UNCHANGED <<files, machines, sems, comps, release, edits>> /\ ~last'.ok /\ last'.gen = gen /\ last'.args = args
  BY DEF Refused
<1>2. Inv'
  BY <1>1 DEF Inv, TypeOK, FamilyPlaced, PairNamed, PairOne, FamilyOne, Left, refinementSourceOwner, Present
<1>3. ForeignKept /\ LiveKept
  BY <1>1 DEF ForeignKept, LiveKept
<1>4. HandNotReplaced
  BY <1>1 DEF HandNotReplaced
<1>5. Repeatable
  BY <1>1 DEF Repeatable, Again
<1> QED BY <1>2, <1>3, <1>4, <1>5 DEF StepKeeps

\* What a step of machinery tla leaves where.
TLALeaves(m) ==
    /\ \A x \in Pair : files'[<<m, x>>] = TLABody(m)
    /\ \A p \in Machines, x \in Family : files'[<<p, x>>] = files[<<p, x>>]
    /\ \A p \in Machines \ {m}, x \in Pair :
           \/ files'[<<p, x>>] = files[<<p, x>>]
           \/ /\ files'[<<p, x>>] = Nothing
              /\ \/ files[<<p, ".tla">>].by = "tla" /\ files[<<p, ".tla">>].src \notin machines
                 \/ x = ".cfg" /\ ~Exists(<<p, ".tla">>) /\ files[<<p, ".cfg">>].by = "tla"
    /\ \A p \in Machines \ {m} :
           files[<<p, ".tla">>].by = "tla" /\ files[<<p, ".tla">>].src \notin machines
           => files'[<<p, ".tla">>] = Nothing

LEMMA TLAEffect ==
  ASSUME TypeOK, NEW m \in Machines,
         Published("tla", <<m>>, At(m, Pair), TLABody(m), staleOwnedTLAArtifacts(m))
  PROVE  TLALeaves(m)
<1> DEFINE stale == staleOwnedTLAArtifacts(m)
<1>1. \A p \in Machines, x \in Family \cup Pair :
        <<p, x>> \in stale <=>
          \/ p # m /\ x \in Pair /\ Exists(<<p, x>>) /\ files[<<p, ".tla">>].by = "tla" /\ files[<<p, ".tla">>].src \notin machines
          \/ p # m /\ x = ".cfg" /\ ~Exists(<<p, ".tla">>) /\ files[<<p, ".cfg">>].by = "tla" /\ p \notin machines
  BY Suffixes DEF staleOwnedTLAArtifacts, Exists
<1>2. \A p \in Machines, x \in Family \cup Pair :
        /\ p = m /\ x \in Pair => files'[<<p, x>>] = TLABody(m)
        /\ ~(p = m /\ x \in Pair) /\ <<p, x>> \in stale => files'[<<p, x>>] = Nothing
        /\ ~(p = m /\ x \in Pair) /\ <<p, x>> \notin stale => files'[<<p, x>>] = files[<<p, x>>]
  BY NameParts, AtParts DEF Published
<1> HIDE DEF stale
<1>3. \A p \in Machines : files[<<p, ".tla">>].by = "tla" => Exists(<<p, ".tla">>)
  BY DEF Exists, None
<1>4. \A x \in Family : x \notin Pair
  BY Suffixes
<1>5. \A x \in Pair : files'[<<m, x>>] = TLABody(m)
  BY <1>2
<1>6. \A p \in Machines, x \in Family : files'[<<p, x>>] = files[<<p, x>>]
  <2> TAKE p \in Machines, x \in Family
  <2>1. x \notin Pair /\ x # ".cfg"
    BY <1>4, Suffixes
  <2>2. <<p, x>> \notin stale
    BY <1>1, <2>1
  <2> QED BY <1>2, <2>1, <2>2
<1>7. \A p \in Machines \ {m}, x \in Pair :
        \/ files'[<<p, x>>] = files[<<p, x>>]
        \/ /\ files'[<<p, x>>] = Nothing
           /\ \/ files[<<p, ".tla">>].by = "tla" /\ files[<<p, ".tla">>].src \notin machines
              \/ x = ".cfg" /\ ~Exists(<<p, ".tla">>) /\ files[<<p, ".cfg">>].by = "tla"
  <2> TAKE p \in Machines \ {m}, x \in Pair
  <2>1. CASE <<p, x>> \in stale
    <3>1. files'[<<p, x>>] = Nothing
      BY <1>2, <2>1
    <3>2. \/ files[<<p, ".tla">>].by = "tla" /\ files[<<p, ".tla">>].src \notin machines
          \/ x = ".cfg" /\ ~Exists(<<p, ".tla">>) /\ files[<<p, ".cfg">>].by = "tla"
      BY <1>1, <2>1
    <3> QED BY <3>1, <3>2
  <2>2. CASE <<p, x>> \notin stale
    BY <1>2, <2>2
  <2> QED BY <2>1, <2>2
<1>8. \A p \in Machines \ {m} :
        files[<<p, ".tla">>].by = "tla" /\ files[<<p, ".tla">>].src \notin machines
        => files'[<<p, ".tla">>] = Nothing
  <2> SUFFICES ASSUME NEW p \in Machines \ {m}, files[<<p, ".tla">>].by = "tla",
                      files[<<p, ".tla">>].src \notin machines
               PROVE  files'[<<p, ".tla">>] = Nothing
    OBVIOUS
  <2>1. ".tla" \in Pair
    BY Suffixes
  <2>2. <<p, ".tla">> \in stale
    BY <1>1, <1>3, <2>1
  <2> QED BY <1>2, <2>1, <2>2
<1> QED BY <1>5, <1>6, <1>7, <1>8 DEF TLALeaves

LEMMA TLAStep ==
  ASSUME Inv, NEW m \in Machines, RunTLA(m)
  PROVE  Inv' /\ StepKeeps
<1> USE DEF Inv
<1>1. TLABody(m) \in Bodies
  BY DEF TLABody, Bodies, TypeOK, None
<1>2. CASE Refused("tla", <<m>>) /\ ~guardedCurrentTLAArtifacts(m)
  <2>1. ~(last.gen = "tla" /\ last.args = <<m>> /\ last.ok)
    <3> SUFFICES ASSUME last.gen = "tla" /\ last.args = <<m>> /\ last.ok PROVE FALSE
      OBVIOUS
    <3>1. LeftTLA(m)
      BY DEF Left
    <3> QED BY <1>2, <3>1, Suffixes DEF LeftTLA, guardedCurrentTLAArtifacts
  <2> QED BY <1>2, <2>1, Kept DEF Runs
<1>3. CASE Published("tla", <<m>>, At(m, Pair), TLABody(m), staleOwnedTLAArtifacts(m)) /\ guardedCurrentTLAArtifacts(m)
  <2>1. TLALeaves(m)
    BY <1>3, TLAEffect
  <2>2. /\ last'.gen = "tla" /\ last'.args = <<m>> /\ last'.ok /\ m \in machines
        /\ UNCHANGED <<machines, sems, comps, release, edits>> /\ files' \in [Names -> Bodies]
    BY <1>3 DEF Published, RunTLA
  <2>3. TLABody(m)' = TLABody(m) /\ TLABody(m).by = "tla" /\ TLABody(m).src = m /\ Nothing.by = None /\ Nothing.src = None
    BY <2>2 DEF TLABody, Nothing
  <2>4. Inv'
    <3>1. TypeOK'
      BY <2>2 DEF TypeOK, Present
    <3>2. FamilyPlaced' /\ FamilyOne'
      BY <2>1, Suffixes DEF TLALeaves, FamilyPlaced, FamilyOne, refinementSourceOwner
    <3>3. PairNamed'
      BY <2>1, <2>3 DEF TLALeaves, PairNamed, None
    <3>4. PairOne'
      BY <2>1, <2>3, Suffixes DEF TLALeaves, PairOne, None
    <3>5. LeftTLA(m)'
      <4>1. (\A x \in Pair : files[<<m, x>>] = TLABody(m))'
        BY <2>1, <2>3 DEF TLALeaves
      <4>2. ASSUME NEW p \in Machines, files'[<<p, ".tla">>].by = "tla" PROVE files'[<<p, ".tla">>].src \in machines
        <5>1. CASE p = m
          BY <5>1, <2>1, <2>2, <2>3, Suffixes DEF TLALeaves
        <5>2. CASE p # m
          BY <5>2, <4>2, <2>1, <2>3, Suffixes DEF TLALeaves, None
        <5> QED BY <5>1, <5>2
      <4> QED BY <2>2, <4>1, <4>2 DEF LeftTLA
    <3>6. Left'
      BY <2>2, <3>5 DEF Left
    <3> QED BY <3>1, <3>2, <3>3, <3>4, <3>6
  <2>5. \A p \in Machines, x \in Family \cup Pair :
          /\ Exists(<<p, x>>) /\ files[<<p, x>>].by # "tla" /\ files[Anchor(<<p, x>>)].by # "tla"
             => files'[<<p, x>>] = files[<<p, x>>]
          /\ files[<<p, x>>].by = "hand" => files'[<<p, x>>].by \in {"hand", None}
          /\ files[<<p, x>>].by = "tla" /\ <<m>> # Sources(files[<<p, x>>]) /\ Alive(files[<<p, x>>]) /\ Exists(Anchor(<<p, x>>))
             => files'[<<p, x>>] = files[<<p, x>>]
    <3> TAKE p \in Machines, x \in Family \cup Pair
    <3>1. CASE x \in Family
      BY <3>1, <2>1 DEF TLALeaves
    <3>2. CASE x \in Pair /\ p = m
      <4>1. files[<<m, x>>] # TLABody(m) /\ Exists(<<m, x>>) =>
              /\ files[<<m, ".tla">>].by = "tla" /\ files[<<m, x>>].by = "tla"
        BY <1>3, <3>2, Suffixes DEF guardedCurrentTLAArtifacts
      <4>2. files[<<m, x>>].by = "tla" => Sources(files[<<m, x>>]) = <<m>>
        BY <3>2 DEF Sources, PairNamed
      <4> QED BY <3>2, <4>1, <4>2, <2>1, <2>3 DEF TLALeaves, Exists, None
    <3>3. CASE x \in Pair /\ p # m
      <4>1. Anchor(<<p, x>>) = <<p, ".tla">>
        BY <3>3, Anchors
      <4>2. files[<<p, x>>].by = "tla" /\ Alive(files[<<p, x>>]) => p \in machines
        BY <3>3 DEF PairNamed, Alive
      <4>3. files[<<p, ".tla">>].by = "tla" => files[<<p, ".tla">>].src = p
        BY Suffixes DEF PairNamed
      <4>4. \/ files'[<<p, x>>] = files[<<p, x>>]
            \/ /\ files'[<<p, x>>] = Nothing
               /\ \/ files[<<p, ".tla">>].by = "tla" /\ files[<<p, ".tla">>].src \notin machines
                  \/ x = ".cfg" /\ ~Exists(<<p, ".tla">>) /\ files[<<p, ".cfg">>].by = "tla"
        BY <3>3, <2>1 DEF TLALeaves
      <4> QED BY <4>1, <4>2, <4>3, <4>4, <2>3
    <3> QED BY <3>1, <3>2, <3>3
  <2>6. ForeignKept
    BY <2>2, <2>5, NameParts DEF ForeignKept
  <2>7. HandNotReplaced
    BY <2>2, <2>5, NameParts DEF HandNotReplaced
  <2>8. LiveKept
    BY <2>2, <2>5, NameParts DEF LiveKept
  <2>9. Repeatable
    BY <2>2 DEF Repeatable
  <2> QED BY <2>4, <2>6, <2>7, <2>8, <2>9 DEF StepKeeps
<1> QED BY <1>1, <1>2, <1>3, RunStep DEF RunTLA

\* What a step of machinery compose leaves where.
ComposeLeaves(c) ==
    /\ \A x \in Pair : files'[<<comps[c], x>>] = ComposeBody(c)
    /\ \A p \in Machines, x \in Family : files'[<<p, x>>] = files[<<p, x>>]
    /\ \A p \in Machines \ {comps[c]}, x \in Pair :
           \/ files'[<<p, x>>] = files[<<p, x>>]
           \/ /\ files'[<<p, x>>] = Nothing
              /\ \/ /\ files[<<p, ".tla">>].by = "compose"
                    /\ files[<<p, ".tla">>].src = c \/ comps[files[<<p, ".tla">>].src] = None
                 \/ x = ".cfg" /\ ~Exists(<<p, ".tla">>) /\ files[<<p, ".cfg">>].by = "compose"
    /\ \A p \in Machines \ {comps[c]} :
           /\ files[<<p, ".tla">>].by = "compose"
           /\ files[<<p, ".tla">>].src = c \/ comps[files[<<p, ".tla">>].src] = None
           => files'[<<p, ".tla">>] = Nothing

LEMMA ComposeEffect ==
  ASSUME TypeOK, NEW c \in Compositions, comps[c] \in Machines,
         Published("compose", <<c>>, At(comps[c], Pair), ComposeBody(c), staleOwnedComposeArtifacts(c))
  PROVE  ComposeLeaves(c)
<1> DEFINE stale == staleOwnedComposeArtifacts(c)
           Gone(p) == /\ files[<<p, ".tla">>].by = "compose"
                      /\ files[<<p, ".tla">>].src = c \/ comps[files[<<p, ".tla">>].src] = None
<1>1. \A p \in Machines, x \in Family \cup Pair :
        <<p, x>> \in stale <=>
          \/ p # comps[c] /\ x \in Pair /\ Exists(<<p, x>>) /\ Gone(p)
          \/ p # comps[c] /\ x = ".cfg" /\ ~Exists(<<p, ".tla">>) /\ files[<<p, ".cfg">>].by = "compose"
  BY Suffixes DEF staleOwnedComposeArtifacts, Exists
<1>2. \A p \in Machines, x \in Family \cup Pair :
        /\ p = comps[c] /\ x \in Pair => files'[<<p, x>>] = ComposeBody(c)
        /\ ~(p = comps[c] /\ x \in Pair) /\ <<p, x>> \in stale => files'[<<p, x>>] = Nothing
        /\ ~(p = comps[c] /\ x \in Pair) /\ <<p, x>> \notin stale => files'[<<p, x>>] = files[<<p, x>>]
  <2> TAKE p \in Machines, x \in Family \cup Pair
  <2>1. <<p, x>> \in At(comps[c], Pair) <=> p = comps[c] /\ x \in Pair
    BY DEF At
  <2>2. <<p, x>> \in Names
    BY NameParts
  <2> QED BY <2>1, <2>2 DEF Published
<1>3. \A p \in Machines : Gone(p) => Exists(<<p, ".tla">>)
  BY DEF Exists, None
<1> HIDE DEF stale, Gone
<1>4. \A x \in Family : x \notin Pair
  BY Suffixes
<1>5. \A x \in Pair : files'[<<comps[c], x>>] = ComposeBody(c)
  BY <1>2
<1>6. \A p \in Machines, x \in Family : files'[<<p, x>>] = files[<<p, x>>]
  <2> TAKE p \in Machines, x \in Family
  <2>1. x \notin Pair /\ x # ".cfg"
    BY <1>4, Suffixes
  <2>2. <<p, x>> \notin stale
    BY <1>1, <2>1
  <2> QED BY <1>2, <2>1, <2>2
<1>7. \A p \in Machines \ {comps[c]}, x \in Pair :
        \/ files'[<<p, x>>] = files[<<p, x>>]
        \/ /\ files'[<<p, x>>] = Nothing
           /\ \/ Gone(p)
              \/ x = ".cfg" /\ ~Exists(<<p, ".tla">>) /\ files[<<p, ".cfg">>].by = "compose"
  BY <1>1, <1>2
<1>8. \A p \in Machines \ {comps[c]} : Gone(p) => files'[<<p, ".tla">>] = Nothing
  BY <1>1, <1>2, <1>3, Suffixes
<1> QED BY <1>5, <1>6, <1>7, <1>8 DEF ComposeLeaves, Gone

LEMMA ComposeStep ==
  ASSUME Inv, NEW c \in Compositions, RunCompose(c)
  PROVE  Inv' /\ StepKeeps
<1> USE DEF Inv
<1>0. comps[c] \in Machines
  BY DEF RunCompose, TypeOK
<1>1. ComposeBody(c) \in Bodies
  BY DEF ComposeBody, Bodies, TypeOK, None
<1>2. CASE Refused("compose", <<c>>) /\ ~guardedCurrentComposeArtifacts(c)
  <2>1. ~(last.gen = "compose" /\ last.args = <<c>> /\ last.ok)
    <3> SUFFICES ASSUME last.gen = "compose" /\ last.args = <<c>> /\ last.ok PROVE FALSE
      OBVIOUS
    <3>1. LeftCompose(c)
      BY DEF Left
    <3> QED BY <1>2, <3>1, Suffixes DEF LeftCompose, guardedCurrentComposeArtifacts
  <2> QED BY <1>2, <2>1, Kept DEF Runs
<1>3. CASE Published("compose", <<c>>, At(comps[c], Pair), ComposeBody(c), staleOwnedComposeArtifacts(c))
           /\ guardedCurrentComposeArtifacts(c)
  <2>1. ComposeLeaves(c)
    BY <1>0, <1>3, ComposeEffect
  <2>2. /\ last'.gen = "compose" /\ last'.args = <<c>> /\ last'.ok /\ comps[c] # None
        /\ UNCHANGED <<machines, sems, comps, release, edits>> /\ files' \in [Names -> Bodies]
    BY <1>3 DEF Published, RunCompose
  <2>3. /\ ComposeBody(c)' = ComposeBody(c) /\ ComposeBody(c).by = "compose" /\ ComposeBody(c).src = c
        /\ Nothing.by = None
    BY <2>2 DEF ComposeBody, Nothing
  <2>4. Inv'
    <3>1. TypeOK'
      BY <2>2 DEF TypeOK, Present
    <3>2. FamilyPlaced' /\ FamilyOne'
      BY <2>1, Suffixes DEF ComposeLeaves, FamilyPlaced, FamilyOne, refinementSourceOwner
    <3>3. PairNamed'
      BY <1>0, <2>1, <2>3 DEF ComposeLeaves, PairNamed, None
    <3>4. PairOne'
      BY <1>0, <2>1, <2>3, Suffixes DEF ComposeLeaves, PairOne, None
    <3>5. LeftCompose(c)'
      <4>1. (\A x \in Pair : files[<<comps[c], x>>] = ComposeBody(c))'
        BY <2>1, <2>2, <2>3 DEF ComposeLeaves
      <4>2. ASSUME NEW p \in Machines, files'[<<p, ".tla">>].by = "compose"
            PROVE  comps[files'[<<p, ".tla">>].src] # None /\ (files'[<<p, ".tla">>].src = c => comps[files'[<<p, ".tla">>].src] = p)
        <5>1. CASE p = comps[c]
          BY <5>1, <2>1, <2>2, <2>3, Suffixes DEF ComposeLeaves
        <5>2. CASE p # comps[c]
          <6>1. files'[<<p, ".tla">>] # Nothing
            BY <4>2, <2>3 DEF None
          <6>2. files'[<<p, ".tla">>] = files[<<p, ".tla">>]
            BY <5>2, <6>1, <2>1, Suffixes DEF ComposeLeaves
          <6> QED BY <4>2, <5>2, <6>1, <6>2, <2>1 DEF ComposeLeaves
        <5> QED BY <5>1, <5>2
      <4> QED BY <2>2, <4>1, <4>2 DEF LeftCompose
    <3>6. Left'
      BY <2>2, <3>5 DEF Left
    <3> QED BY <3>1, <3>2, <3>3, <3>4, <3>6
  <2>5. \A p \in Machines, x \in Family \cup Pair :
          /\ Exists(<<p, x>>) /\ files[<<p, x>>].by # "compose" /\ files[Anchor(<<p, x>>)].by # "compose"
             => files'[<<p, x>>] = files[<<p, x>>]
          /\ files[<<p, x>>].by = "hand" => files'[<<p, x>>].by \in {"hand", None}
          /\ /\ files[<<p, x>>].by = "compose" /\ <<c>> # Sources(files[<<p, x>>])
             /\ Alive(files[<<p, x>>]) /\ Exists(Anchor(<<p, x>>))
             => files'[<<p, x>>] = files[<<p, x>>]
    <3> TAKE p \in Machines, x \in Family \cup Pair
    <3>0. x \in Pair /\ files[<<p, x>>].by = "compose" /\ files[<<p, ".tla">>].by = "compose"
          => files[<<p, x>>].src = files[<<p, ".tla">>].src
      BY Suffixes DEF PairOne
    <3>1. CASE x \in Family
      BY <3>1, <2>1 DEF ComposeLeaves
    <3>2. CASE x \in Pair /\ p = comps[c]
      <4>1. files[<<p, x>>] # ComposeBody(c) /\ Exists(<<p, x>>) =>
              files[<<p, ".tla">>].by = "compose" /\ files[<<p, ".tla">>].src = c /\ files[<<p, x>>].by = "compose"
        BY <1>3, <3>2, Suffixes DEF guardedCurrentComposeArtifacts
      <4>2. files[<<p, x>>].by = "compose" => Exists(<<p, x>>) /\ files[<<p, x>>].src = c
        BY <3>0, <3>2, <4>1, <2>3 DEF Exists, None
      <4>3. files[<<p, x>>].by = "compose" => Sources(files[<<p, x>>]) = <<c>>
        BY <4>2 DEF Sources
      <4> QED BY <3>2, <4>1, <4>3, <2>1, <2>3 DEF ComposeLeaves, Exists, None
    <3>3. CASE x \in Pair /\ p # comps[c]
      <4>1. Anchor(<<p, x>>) = <<p, ".tla">>
        BY <3>3, Anchors
      <4>2. files[<<p, x>>].by = "compose" => Sources(files[<<p, x>>]) = <<files[<<p, x>>].src>>
        BY DEF Sources
      <4>3. files[<<p, x>>].by = "compose" /\ Alive(files[<<p, x>>]) => comps[files[<<p, x>>].src] # None
        BY DEF Alive
      <4>4. \/ files'[<<p, x>>] = files[<<p, x>>]
            \/ /\ files'[<<p, x>>] = Nothing
               /\ \/ /\ files[<<p, ".tla">>].by = "compose"
                     /\ files[<<p, ".tla">>].src = c \/ comps[files[<<p, ".tla">>].src] = None
                  \/ x = ".cfg" /\ ~Exists(<<p, ".tla">>) /\ files[<<p, ".cfg">>].by = "compose"
        BY <3>3, <2>1 DEF ComposeLeaves
      <4> QED BY <3>0, <3>3, <4>1, <4>2, <4>3, <4>4, <2>3
    <3> QED BY <3>1, <3>2, <3>3
  <2>6. ForeignKept
    BY <2>2, <2>5, NameParts DEF ForeignKept
  <2>7. HandNotReplaced
    BY <2>2, <2>5, NameParts DEF HandNotReplaced
  <2>8. LiveKept
    BY <2>2, <2>5, NameParts DEF LiveKept
  <2>9. Repeatable
    BY <2>2 DEF Repeatable
  <2> QED BY <2>4, <2>6, <2>7, <2>8, <2>9 DEF StepKeeps
<1> QED BY <1>1, <1>2, <1>3, RunStep DEF RunCompose

\* A refinement emits a part of one family, with its module if anything.
LEMMA EmittedParts ==
  ASSUME NEW s
  PROVE  /\ \A p, x : <<p, x>> \in Emitted(s) => p = sems[s].names /\ x \in Family /\ <<p, "Data.tla">> \in Emitted(s)
         /\ Emitted(s)' = Emitted(s) \/ ~UNCHANGED sems
<1>1. Emitted(s)' = Emitted(s) \/ ~UNCHANGED sems
  BY DEF Emitted, At
<1>2. PICK K : Emitted(s) = At(sems[s].names, K) /\ K \subseteq Family /\ (K = {} \/ "Data.tla" \in K)
  <2>1. CASE sems[s].pat = "linear-lifecycle"
    BY <2>1, Suffixes DEF Emitted
  <2>2. CASE sems[s].pat = "saga"
    BY <2>2 DEF Emitted, Family
  <2>3. CASE sems[s].pat \notin {"linear-lifecycle", "saga"}
    BY <2>3 DEF Emitted
  <2> QED BY <2>1, <2>2, <2>3
<1>3. \A p, x : <<p, x>> \in Emitted(s) <=> p = sems[s].names /\ x \in K
  BY <1>2 DEF At
<1> QED BY <1>1, <1>2, <1>3

\* Why a refinement may remove a member, and what it leaves where.
Drops(m, s, p, x) ==
    \/ /\ s \notin External /\ refinementSourceOwner(p).by = "refine"
       /\ \/ refinementSourceOwner(p).src = m /\ refinementSourceOwner(p).sem = s
          \/ OwnerGone(s, refinementSourceOwner(p))
    \/ refinementSourceOwner(p).by = None /\ files[<<p, x>>].by = "refine" /\ (p = m \/ p \notin machines)
RefineLeaves(m, s) ==
    /\ \A p \in Machines, x \in Pair : files'[<<p, x>>] = files[<<p, x>>]
    /\ \A p \in Machines, x \in Family :
           /\ <<p, x>> \in Emitted(s) => files'[<<p, x>>] = RefineBody(m, s)
           /\ <<p, x>> \notin Emitted(s) => \/ files'[<<p, x>>] = files[<<p, x>>]
                                            \/ files'[<<p, x>>] = Nothing /\ Drops(m, s, p, x)
           /\ <<p, x>> \notin Emitted(s) /\ Drops(m, s, p, x) => files'[<<p, x>>].by = None

Stale(m, s) == IF s \in External THEN staleExternal(m, s) ELSE staleOwnedRefinementArtifacts(m, s)

LEMMA RefineEffect ==
  ASSUME TypeOK, NEW m \in Machines, NEW s \in Semantics,
         Published("refine", <<m, s>>, Emitted(s), RefineBody(m, s), Stale(m, s))
  PROVE  RefineLeaves(m, s)
<1>1. \A p \in Machines, x \in Pair : <<p, x>> \notin Stale(m, s) /\ <<p, x>> \notin Emitted(s)
  BY Suffixes, EmittedParts DEF Stale, staleExternal, staleOwnedRefinementArtifacts
<1>2. \A p \in Machines, x \in Family :
        <<p, x>> \in Stale(m, s) <=> Exists(<<p, x>>) /\ <<p, x>> \notin Emitted(s) /\ Drops(m, s, p, x)
  <2> TAKE p \in Machines, x \in Family
  <2>1. CASE s \in External
    BY <2>1 DEF Stale, staleExternal, Drops, Exists, None
  <2>2. CASE s \notin External
    BY <2>2 DEF Stale, staleOwnedRefinementArtifacts, Drops, Exists, None
  <2> QED BY <2>1, <2>2
<1>3. \A p \in Machines, x \in Family \cup Pair :
        /\ <<p, x>> \in Emitted(s) => files'[<<p, x>>] = RefineBody(m, s)
        /\ <<p, x>> \notin Emitted(s) /\ <<p, x>> \in Stale(m, s) => files'[<<p, x>>] = Nothing
        /\ <<p, x>> \notin Emitted(s) /\ <<p, x>> \notin Stale(m, s) => files'[<<p, x>>] = files[<<p, x>>]
  BY NameParts DEF Published
<1>4. \A p \in Machines, x \in Pair : files'[<<p, x>>] = files[<<p, x>>]
  BY <1>1, <1>3
<1>5. ASSUME NEW p \in Machines, NEW x \in Family
      PROVE  /\ <<p, x>> \in Emitted(s) => files'[<<p, x>>] = RefineBody(m, s)
             /\ <<p, x>> \notin Emitted(s) => \/ files'[<<p, x>>] = files[<<p, x>>]
                                              \/ files'[<<p, x>>] = Nothing /\ Drops(m, s, p, x)
             /\ <<p, x>> \notin Emitted(s) /\ Drops(m, s, p, x) => files'[<<p, x>>].by = None
  BY <1>2, <1>3 DEF Exists, Nothing
<1> QED BY <1>4, <1>5 DEF RefineLeaves

\* When a refinement is not refused.
Admitted(m, s) ==
    /\ guardedCurrentRefinementArtifacts(m, s) /\ \A p \in Machines : ~InvalidHeader(p)
    /\ ~cannotReconcile(s)
    /\ sems[s].pat = "control-flow-only" => sems[s].names = m

\* A member that is replaced is the run's own.
LEMMA Admits ==
  ASSUME NEW m \in Machines, NEW s \in Semantics, Admitted(m, s), NEW p \in Machines, NEW x \in Family
  PROVE  /\ <<p, x>> \in Emitted(s) /\ Exists(<<p, x>>) /\ files[<<p, x>>] # RefineBody(m, s) =>
              /\ files[<<p, x>>].by = "refine" /\ p = m
              /\ refinementSourceOwner(m).by = "refine" /\ refinementSourceOwner(m).src = m
              /\ refinementSourceOwner(m).sem = s
         /\ refinementSourceOwner(p).by = "refine" => refinementSourceOwner(p).src = p
         /\ s \in External /\ refinementSourceOwner(p).by = "refine" /\ <<p, x>> \notin Emitted(s) => ~Exists(<<p, x>>)
<1>1. <<p, x>> \in Emitted(s) /\ Exists(<<p, x>>) /\ files[<<p, x>>] # RefineBody(m, s) =>
              /\ files[<<p, x>>].by = "refine" /\ p = m
              /\ refinementSourceOwner(m).by = "refine" /\ refinementSourceOwner(m).src = m
              /\ refinementSourceOwner(m).sem = s
  <2> SUFFICES ASSUME <<p, x>> \in Emitted(s), Exists(<<p, x>>), files[<<p, x>>] # RefineBody(m, s)
               PROVE  /\ files[<<p, x>>].by = "refine" /\ p = m
                      /\ refinementSourceOwner(m).by = "refine" /\ refinementSourceOwner(m).src = m
                      /\ refinementSourceOwner(m).sem = s
    OBVIOUS
  <2>1. /\ <<m, "Data.tla">> \in Emitted(s) /\ files[<<p, x>>].by = "refine"
        /\ files[<<m, "Data.tla">>].by = "refine" /\ files[<<m, "Data.tla">>].src = m
        /\ files[<<m, "Data.tla">>].sem = s
    BY DEF Admitted, guardedCurrentRefinementArtifacts
  <2>2. m = sems[s].names /\ p = sems[s].names
    BY <2>1, EmittedParts
  <2> QED BY <2>1, <2>2 DEF refinementSourceOwner
<1>2. refinementSourceOwner(p).by = "refine" => refinementSourceOwner(p).src = p
  BY DEF Admitted, InvalidHeader
<1>3. s \in External /\ refinementSourceOwner(p).by = "refine" /\ <<p, x>> \notin Emitted(s) => ~Exists(<<p, x>>)
  BY DEF Admitted, cannotReconcile
<1> QED BY <1>1, <1>2, <1>3


LEMMA RefineStep ==
  ASSUME Inv, NEW m \in Machines, NEW s \in Semantics, RunRefine(m, s)
  PROVE  Inv' /\ StepKeeps
<1> USE DEF Inv
<1>1. RefineBody(m, s) \in Bodies
  BY DEF RefineBody, Bodies, TypeOK
<1>2. CASE Refused("refine", <<m, s>>) /\ ~Admitted(m, s)
  <2>1. ~(/\ last.gen = "refine" /\ last.args = <<m, s>> /\ last.ok
          /\ \A n \in Names : files[n].by # "hand"
          /\ sems[last.args[2]].names = last.args[1])
    <3> SUFFICES ASSUME last.gen = "refine" /\ last.args = <<m, s>> /\ last.ok, sems[s].names = m,
                        \A n \in Names : files[n].by # "hand"
                 PROVE  Admitted(m, s)
      BY <1>2
    <3>1. LeftRefine(m, s)
      BY DEF Left
    <3>2. \A p \in Machines : ~InvalidHeader(p)
      BY <3>1 DEF LeftRefine, InvalidHeader
    <3>3. guardedCurrentRefinementArtifacts(m, s)
      BY <3>1, <3>2 DEF LeftRefine, guardedCurrentRefinementArtifacts
    <3>4. ~cannotReconcile(s)
      <4> SUFFICES ASSUME s \in External, NEW p \in Machines, refinementSourceOwner(p).by = "refine",
                          NEW x \in Family, <<p, x>> \notin Emitted(s), Exists(<<p, x>>)
                   PROVE  FALSE
        BY DEF cannotReconcile
      <4>1. files[<<p, x>>].by \in {None, "hand"}
        BY <3>1 DEF LeftRefine
      <4>2. files[<<p, x>>].by # "hand"
        BY NameParts
      <4> QED BY <4>1, <4>2 DEF Exists
    <3> QED BY <3>2, <3>3, <3>4 DEF Admitted
  <2> QED BY <1>2, <2>1, Kept DEF Runs
<1>3. CASE Published("refine", <<m, s>>, Emitted(s), RefineBody(m, s), Stale(m, s)) /\ Admitted(m, s)
  <2>1. RefineLeaves(m, s)
    BY <1>3, RefineEffect
  <2>2. /\ last'.gen = "refine" /\ last'.args = <<m, s>> /\ last'.ok /\ m \in machines /\ Present(s)
        /\ UNCHANGED <<machines, sems, comps, release, edits>> /\ files' \in [Names -> Bodies]
    BY <1>3 DEF Published, RunRefine
  <2>3. /\ RefineBody(m, s)' = RefineBody(m, s) /\ RefineBody(m, s).by = "refine" /\ RefineBody(m, s).src = m
        /\ RefineBody(m, s).sem = s /\ Nothing.by = None /\ None # "refine" /\ None # "hand"
    BY <2>2 DEF RefineBody, Nothing, None
  <2>4. Emitted(s)' = Emitted(s)
    BY <2>2, EmittedParts
  <2>5. \A p \in Machines, x \in Family : files[<<p, x>>].by = "refine" => Exists(<<p, x>>)
    BY <2>3 DEF Exists
  <2> DEFINE b(p) == refinementSourceOwner(p)
  \* The module that stands at a name after the run.
  <2>6. ASSUME NEW p \in Machines, b(p)'.by = "refine"
        PROVE  \/ /\ <<p, "Data.tla">> \in Emitted(s) /\ p = sems[s].names /\ b(p)' = RefineBody(m, s)
               \/ /\ <<p, "Data.tla">> \notin Emitted(s) /\ b(p)' = b(p) /\ s \notin External /\ b(p).src = p
                  /\ ~(b(p).src = m /\ b(p).sem = s) /\ ~OwnerGone(s, b(p))
    <3>1. CASE <<p, "Data.tla">> \in Emitted(s)
      BY <3>1, <2>1, EmittedParts, Suffixes DEF RefineLeaves, refinementSourceOwner
    <3>2. CASE <<p, "Data.tla">> \notin Emitted(s)
      <4>1. b(p)' = b(p) /\ ~Drops(m, s, p, "Data.tla")
        BY <3>2, <2>1, <2>3, <2>6, Suffixes DEF RefineLeaves, refinementSourceOwner
      <4>2. Exists(<<p, "Data.tla">>)
        BY <4>1, <2>5, <2>6, Suffixes DEF refinementSourceOwner
      <4>3. s \notin External /\ b(p).src = p
        BY <1>3, <3>2, <4>1, <4>2, <2>6, Admits, Suffixes
      <4> QED BY <3>2, <4>1, <4>3, <2>6 DEF Drops
    <3> QED BY <3>1, <3>2
  \* The module that stood where the run writes its own.
  <2>7. ASSUME NEW p \in Machines, <<p, "Data.tla">> \in Emitted(s)
        PROVE  b(p).by = None \/ (b(p).by = "refine" /\ b(p).src = m /\ b(p).sem = s /\ p = m)
               \/ b(p) = RefineBody(m, s)
    <3>1. "Data.tla" \in Family
      BY Suffixes
    <3>2. Exists(<<p, "Data.tla">>) /\ files[<<p, "Data.tla">>] # RefineBody(m, s) =>
            b(p).by = "refine" /\ b(p).src = m /\ b(p).sem = s /\ p = m
      BY <1>3, <2>7, <3>1, Admits
    <3> QED BY <3>2 DEF refinementSourceOwner, Exists
  <2>8. Inv'
    <3>1. TypeOK'
      BY <2>2 DEF TypeOK, Present
    <3>2. FamilyPlaced'
      BY <2>1, <2>3 DEF RefineLeaves, FamilyPlaced
    <3>3. PairNamed' /\ PairOne'
      BY <2>1, Suffixes DEF RefineLeaves, PairNamed, PairOne
    <3>4. FamilyOne'
      <4> SUFFICES ASSUME NEW p \in Machines, NEW x \in Family, b(p)'.by = "refine", b(p)'.src = p,
                          files'[<<p, x>>].by = "refine"
                   PROVE  files'[<<p, x>>].src = p /\ files'[<<p, x>>].sem = b(p)'.sem
        BY DEF FamilyOne
      <4>1. CASE <<p, x>> \in Emitted(s)
        <5>1. files'[<<p, x>>] = RefineBody(m, s) /\ <<p, "Data.tla">> \in Emitted(s)
          BY <4>1, <2>1, EmittedParts DEF RefineLeaves
        <5> QED BY <5>1, <2>3, <2>6
      <4>2. CASE <<p, x>> \notin Emitted(s)
        <5>1. files'[<<p, x>>] = files[<<p, x>>] /\ ~Drops(m, s, p, x)
          BY <4>2, <2>1, <2>3 DEF RefineLeaves
        <5>2. CASE <<p, "Data.tla">> \in Emitted(s)
          <6>1. p = m /\ b(p)' = RefineBody(m, s)
            BY <5>2, <2>3, <2>6
          <6>2. b(p).by # None
            BY <5>1, <6>1 DEF Drops
          <6>3. b(p).by = "refine" /\ b(p).src = m /\ b(p).sem = s
            BY <5>2, <6>2, <2>3, <2>7
          <6>4. s \in External
            BY <5>1, <6>3 DEF Drops
          <6>5. Exists(<<p, x>>)
            BY <5>1, <2>5
          <6> QED BY <1>3, <4>2, <6>3, <6>4, <6>5, Admits
        <5>3. CASE <<p, "Data.tla">> \notin Emitted(s)
          BY <5>1, <5>3, <2>6 DEF FamilyOne
        <5> QED BY <5>2, <5>3
      <4> QED BY <4>1, <4>2
    <3>5. LeftRefine(m, s)'
      <4>1. m \in machines' /\ Present(s)' /\ (sems[s].pat = "control-flow-only" => sems[s].names = m)'
        BY <1>3, <2>2 DEF Present, Admitted
      <4>2. (\A n \in Emitted(s) : files[n] = RefineBody(m, s))'
        <5> SUFFICES ASSUME NEW n \in Emitted(s) PROVE files'[n] = RefineBody(m, s)
          BY <2>3, <2>4
        <5>1. PICK x : n = <<sems[s].names, x>>
          BY DEF Emitted, At
        <5>2. sems[s].names \in Machines /\ x \in Family
          BY <5>1, <2>2, EmittedParts DEF TypeOK
        <5> QED BY <5>1, <5>2, <2>1 DEF RefineLeaves
      <4>3. ASSUME NEW p \in Machines, b(p)'.by = "refine"
            PROVE  /\ b(p)'.src \in machines /\ Present(b(p)'.sem) /\ Dir[b(p)'.sem] = Dir[s]
                   /\ sems[s].names = m => b(p)'.src = p
                   /\ sems[s].names = m /\ s \in External =>
                        \A x \in Family : <<p, x>> \notin Emitted(s) => files'[<<p, x>>].by \in {None, "hand"}
        <5>1. CASE <<p, "Data.tla">> \in Emitted(s) /\ p = sems[s].names /\ b(p)' = RefineBody(m, s)
          <6>1. ASSUME sems[s].names = m, s \in External, NEW x \in Family, <<p, x>> \notin Emitted(s)
                PROVE  files'[<<p, x>>].by \in {None, "hand"}
            <7>1. files[<<p, x>>].by \in {None, "hand", "refine"}
              BY DEF FamilyPlaced
            <7>2. b(p).by = "refine" => files[<<p, x>>].by = None
              BY <1>3, <6>1, Admits DEF Exists
            <7>3. b(p).by = None /\ files[<<p, x>>].by = "refine" => Drops(m, s, p, x)
              BY <5>1, <6>1 DEF Drops
            <7>4. b(p).by = None \/ b(p).by = "refine"
              BY <5>1, <2>3, <2>7
            <7> QED BY <6>1, <7>1, <7>2, <7>3, <7>4, <2>1, <2>3 DEF RefineLeaves
          <6> QED BY <5>1, <6>1, <2>2, <2>3
        <5>2. CASE /\ <<p, "Data.tla">> \notin Emitted(s) /\ b(p)' = b(p) /\ s \notin External /\ b(p).src = p
                   /\ ~OwnerGone(s, b(p))
          BY <5>2 DEF OwnerGone
        <5> QED BY <4>3, <5>1, <5>2, <2>6
      <4>4. ASSUME NEW p \in Machines
            PROVE  (b(p).by = "refine" =>
                      /\ b(p).src \in machines /\ Present(b(p).sem) /\ Dir[b(p).sem] = Dir[s]
                      /\ sems[s].names = m => ~InvalidHeader(p)
                      /\ sems[s].names = m /\ s \in External =>
                           \A x \in Family : <<p, x>> \notin Emitted(s) => files[<<p, x>>].by \in {None, "hand"})'
        BY <4>3, <2>2, <2>4 DEF Present, InvalidHeader
      <4>5. OwnCurrent(m, s)'
        <5> SUFFICES ASSUME NEW x \in Family, files'[<<m, x>>].by = "refine", files'[<<m, x>>].src = m,
                            files'[<<m, x>>].sem = s, b(m)'.by # "hand"
                     PROVE  <<m, x>> \in Emitted(s) /\ files'[<<m, x>>].rel = release
          BY <2>2, <2>4 DEF OwnCurrent
        <5>1. CASE <<m, x>> \in Emitted(s)
          BY <5>1, <2>1 DEF RefineLeaves, RefineBody
        <5>2. CASE <<m, x>> \notin Emitted(s)
          <6>1. files'[<<m, x>>] = files[<<m, x>>] /\ ~Drops(m, s, m, x)
            BY <5>2, <2>1, <2>3 DEF RefineLeaves
          <6>2. b(m).by # None
            BY <6>1 DEF Drops
          <6>3. CASE b(m).by = "refine"
            <7>1. b(m).src = m /\ files[<<m, x>>].sem = b(m).sem
              BY <1>3, <6>1, <6>3, Admits DEF FamilyOne
            <7>2. s \in External
              BY <6>1, <6>3, <7>1 DEF Drops
            <7> QED BY <1>3, <5>2, <6>1, <6>3, <7>2, <2>5, Admits
          <6>4. CASE b(m).by = "hand"
            <7>1. <<m, "Data.tla">> \notin Emitted(s) => b(m)' = b(m) \/ Drops(m, s, m, "Data.tla")
              BY <2>1, Suffixes DEF RefineLeaves, refinementSourceOwner
            <7>2. ~Drops(m, s, m, "Data.tla")
              BY <6>4, <2>3 DEF Drops
            <7>3. <<m, "Data.tla">> \in Emitted(s)
              BY <6>4, <7>1, <7>2
            <7> QED BY <6>4, <7>3, <2>3, <2>7
          <6> QED BY <6>2, <6>3, <6>4, Suffixes DEF FamilyPlaced, refinementSourceOwner
        <5> QED BY <5>1, <5>2
      <4> QED BY <4>1, <4>2, <4>4, <4>5 DEF LeftRefine
    <3>6. Left'
      BY <2>2, <3>5 DEF Left
    <3> QED BY <3>1, <3>2, <3>3, <3>4, <3>6
  <2>9. \A p \in Machines, x \in Family \cup Pair :
          /\ Exists(<<p, x>>) /\ files[<<p, x>>].by # "refine" /\ files[Anchor(<<p, x>>)].by # "refine"
             => files'[<<p, x>>] = files[<<p, x>>]
          /\ files[<<p, x>>].by = "hand" => files'[<<p, x>>].by \in {"hand", None}
          /\ /\ files[<<p, x>>].by = "refine" /\ <<m, s>> # Sources(files[<<p, x>>])
             /\ Alive(files[<<p, x>>]) /\ Looked(files[<<p, x>>]) /\ Exists(Anchor(<<p, x>>))
             => files'[<<p, x>>] = files[<<p, x>>]
    <3> TAKE p \in Machines, x \in Family \cup Pair
    <3>1. CASE x \in Pair
      BY <3>1, <2>1 DEF RefineLeaves
    <3>2. CASE x \in Family
      <4>1. Anchor(<<p, x>>) = <<p, "Data.tla">> /\ files[Anchor(<<p, x>>)] = b(p)
        BY <3>2, Anchors DEF refinementSourceOwner
      <4>2. files[<<p, x>>].by = "refine" => Sources(files[<<p, x>>]) = <<files[<<p, x>>].src, files[<<p, x>>].sem>>
        BY DEF Sources
      <4>3. files[<<p, x>>].by = "refine" /\ Alive(files[<<p, x>>]) =>
              files[<<p, x>>].src \in machines /\ Present(files[<<p, x>>].sem)
        BY DEF Alive
      <4>4. files[<<p, x>>].by = "refine" /\ b(p).by = "refine" =>
              b(p).src = p /\ files[<<p, x>>].src = p /\ files[<<p, x>>].sem = b(p).sem
        BY <1>3, <3>2, Admits DEF FamilyOne
      <4>5. CASE <<p, x>> \in Emitted(s)
        <5>1. files'[<<p, x>>] = RefineBody(m, s)
          BY <3>2, <4>5, <2>1 DEF RefineLeaves
        <5>2. Exists(<<p, x>>) /\ files[<<p, x>>] # RefineBody(m, s) =>
                files[<<p, x>>].by = "refine" /\ p = m /\ b(m).by = "refine" /\ b(m).src = m /\ b(m).sem = s
          BY <1>3, <3>2, <4>5, Admits
        <5> QED BY <4>2, <4>4, <5>1, <5>2, <2>3 DEF Exists
      <4>6. CASE <<p, x>> \notin Emitted(s)
        <5>1. \/ files'[<<p, x>>] = files[<<p, x>>]
              \/ files'[<<p, x>>] = Nothing /\ Drops(m, s, p, x)
          BY <3>2, <4>6, <2>1 DEF RefineLeaves
        <5>2. CASE files'[<<p, x>>] = files[<<p, x>>]
          BY <5>2
        <5>3. CASE /\ files'[<<p, x>>] = Nothing /\ b(p).by = "refine" /\ s \notin External
                   /\ (b(p).src = m /\ b(p).sem = s) \/ OwnerGone(s, b(p))
          BY <4>1, <4>2, <4>3, <4>4, <5>3, <2>2, <2>3 DEF OwnerGone, Looked
        <5>4. CASE files'[<<p, x>>] = Nothing /\ b(p).by = None /\ files[<<p, x>>].by = "refine"
          BY <4>1, <5>4, <2>3 DEF Exists, refinementSourceOwner
        <5> QED BY <5>1, <5>2, <5>3, <5>4 DEF Drops
      <4> QED BY <4>5, <4>6
    <3> QED BY <3>1, <3>2
  <2>10. ForeignKept
    BY <2>2, <2>9, NameParts DEF ForeignKept
  <2>11. HandNotReplaced
    BY <2>2, <2>9, NameParts DEF HandNotReplaced
  <2>12. LiveKept
    BY <2>2, <2>9, NameParts DEF LiveKept
  <2>13. Repeatable
    BY <2>2 DEF Repeatable
  <2> QED BY <2>8, <2>10, <2>11, <2>12, <2>13 DEF StepKeeps
<1> QED
  <2>1. (\/ ~guardedCurrentRefinementArtifacts(m, s)
         \/ \E p \in Machines : InvalidHeader(p)
         \/ cannotReconcile(s)
         \/ sems[s].pat = "control-flow-only" /\ sems[s].names # m) <=> ~Admitted(m, s)
    BY DEF Admitted
  <2> QED BY <1>1, <1>2, <1>3, <2>1, RunStep DEF RunRefine, Stale

\* An edit of the author, or a new release, promises nothing and breaks nothing.
LEMMA AuthorStep ==
  ASSUME Inv, Edit, machines' \subseteq Machines, release' \in 1..2,
         sems' \in [Semantics -> [pat : Patterns \cup {None}, names : Machines \cup {None}]],
         \A s \in Semantics : sems'[s].pat # None => sems'[s].names \in Machines,
         comps' \in [Compositions -> Machines \cup {None}], files' \in [Names -> Bodies],
         \A n \in Names : files'[n] = files[n] \/ files'[n] = Nothing \/ files'[n] = Hand
  PROVE  Inv' /\ StepKeeps
<1>1. last'.gen = "author" /\ last'.ok
  BY DEF Edit, Say
<1>2. /\ Nothing.by = None /\ Hand.by = "hand" /\ None # "tla" /\ None # "refine" /\ None # "compose"
  BY DEF Nothing, Hand, None
<1>3. \A p \in Machines, x \in Family \cup Pair :
        files'[<<p, x>>] = files[<<p, x>>] \/ files'[<<p, x>>].by \in {None, "hand"}
  BY <1>2, NameParts
<1>4. TypeOK'
  BY DEF Inv, TypeOK, Present
<1>5. FamilyPlaced'
  BY <1>3 DEF Inv, FamilyPlaced
<1>6. PairNamed'
  BY <1>2, <1>3 DEF Inv, PairNamed
<1>7. PairOne'
  BY <1>2, <1>3, Suffixes DEF Inv, PairOne
<1>8. FamilyOne'
  BY <1>2, <1>3, Suffixes DEF Inv, FamilyOne, refinementSourceOwner
<1>9. Left'
  BY <1>1 DEF Left
<1>10. ForeignKept /\ HandNotReplaced /\ Repeatable
  <2>1. last'.gen \notin Runs
    BY <1>1 DEF Runs
  <2>2. ForeignKept
    BY <2>1 DEF ForeignKept
  <2>3. HandNotReplaced
    BY <2>1 DEF HandNotReplaced
  <2>4. Repeatable
    BY <2>1 DEF Repeatable, Again
  <2> QED BY <2>2, <2>3, <2>4
<1>11. LiveKept
  <2>1. \A n \in Names : files[n].by # "author"
    BY DEF Inv, TypeOK, Bodies, None
  <2> QED BY <1>1, <2>1 DEF LiveKept
<1> QED BY <1>4, <1>5, <1>6, <1>7, <1>8, <1>9, <1>10, <1>11 DEF Inv, StepKeeps

\* Every step keeps the invariant and the promises.
LEMMA StepInv ==
  ASSUME Inv, Next
  PROVE  Inv' /\ StepKeeps
<1>0. Nothing \in Bodies /\ Hand \in Bodies
  BY DEF Nothing, Hand, Bodies, None
<1>t. /\ machines \subseteq Machines /\ release \in 1..2 /\ files \in [Names -> Bodies]
      /\ sems \in [Semantics -> [pat : Patterns \cup {None}, names : Machines \cup {None}]]
      /\ comps \in [Compositions -> Machines \cup {None}]
      /\ \A s \in Semantics : sems[s].pat # None => sems[s].names \in Machines
  BY DEF Inv, TypeOK, Present
<1>1. ASSUME NEW m \in Machines, RunTLA(m) PROVE Inv' /\ StepKeeps
  BY <1>1, TLAStep
<1>2. ASSUME NEW m \in Machines, ToggleMachine(m) PROVE Inv' /\ StepKeeps
  <2>1. machines' \subseteq Machines /\ UNCHANGED <<sems, comps, files, release>> /\ Edit
    BY <1>2, <1>t DEF ToggleMachine
  <2> QED BY <1>t, <2>1, AuthorStep
<1>3. ASSUME NEW m \in Machines, NEW s \in Semantics, RunRefine(m, s) PROVE Inv' /\ StepKeeps
  BY <1>3, RefineStep
<1>4. ASSUME NEW s \in Semantics, NEW pat \in Patterns \cup {None}, NEW m \in Machines, EditSemantics(s, pat, m)
      PROVE  Inv' /\ StepKeeps
  <2>1. UNCHANGED <<machines, comps, files, release>> /\ Edit
    BY <1>4 DEF EditSemantics
  <2>2. sems' = [sems EXCEPT ![s] = [pat |-> pat, names |-> m]]
    BY <1>4 DEF EditSemantics
  <2>3. /\ sems' \in [Semantics -> [pat : Patterns \cup {None}, names : Machines \cup {None}]]
        /\ \A t \in Semantics : sems'[t].pat # None => sems'[t].names \in Machines
    BY <1>t, <2>2
  <2> QED BY <1>t, <2>1, <2>3, AuthorStep
<1>5. ASSUME NEW c \in Compositions, RunCompose(c) PROVE Inv' /\ StepKeeps
  BY <1>5, ComposeStep
<1>6. ASSUME NEW c \in Compositions, NEW p \in Machines \cup {None}, EditComposition(c, p) PROVE Inv' /\ StepKeeps
  <2>1. UNCHANGED <<machines, sems, files, release>> /\ Edit /\ comps' \in [Compositions -> Machines \cup {None}]
    BY <1>6, <1>t DEF EditComposition
  <2> QED BY <1>t, <2>1, AuthorStep
<1>7. ASSUME NEW n \in Names, Delete(n) PROVE Inv' /\ StepKeeps
  <2>1. UNCHANGED <<machines, sems, comps, release>> /\ Edit
    BY <1>7 DEF Delete
  <2>2. /\ files' \in [Names -> Bodies]
        /\ \A k \in Names : files'[k] = files[k] \/ files'[k] = Nothing \/ files'[k] = Hand
    BY <1>7, <1>t, <1>0 DEF Delete
  <2> QED BY <1>t, <2>1, <2>2, AuthorStep
<1>8. ASSUME NEW n \in Hands, HandWrite(n) PROVE Inv' /\ StepKeeps
  <2>1. UNCHANGED <<machines, sems, comps, release>> /\ Edit
    BY <1>8 DEF HandWrite
  <2>2. /\ files' \in [Names -> Bodies]
        /\ \A k \in Names : files'[k] = files[k] \/ files'[k] = Nothing \/ files'[k] = Hand
    BY <1>8, <1>t, <1>0 DEF HandWrite
  <2> QED BY <1>t, <2>1, <2>2, AuthorStep
<1>9. ASSUME Upgrade PROVE Inv' /\ StepKeeps
  <2>1. UNCHANGED <<machines, sems, comps, files>> /\ Edit /\ release' \in 1..2
    BY <1>9 DEF Upgrade
  <2> QED BY <1>t, <2>1, AuthorStep
<1> QED BY <1>1, <1>2, <1>3, <1>4, <1>5, <1>6, <1>7, <1>8, <1>9 DEF Next

LEMMA Stutter ==
  ASSUME Inv, UNCHANGED vars
  PROVE  Inv'
<1> USE DEF vars
<1>1. TypeOK' /\ FamilyPlaced' /\ PairNamed' /\ PairOne' /\ FamilyOne'
  BY DEF Inv, TypeOK, FamilyPlaced, PairNamed, PairOne, FamilyOne, refinementSourceOwner, Present
<1>2. \A m : LeftTLA(m) => LeftTLA(m)'
  BY DEF LeftTLA, TLABody
<1>3. \A m, s : LeftRefine(m, s) => LeftRefine(m, s)'
  <2> TAKE m, s
  <2>1. Emitted(s)' = Emitted(s)
    BY EmittedParts
  <2>2. \A p : refinementSourceOwner(p)' = refinementSourceOwner(p) /\ InvalidHeader(p)' = InvalidHeader(p)
    BY DEF refinementSourceOwner, InvalidHeader
  <2>3. OwnCurrent(m, s) => OwnCurrent(m, s)'
    BY <2>1, <2>2 DEF OwnCurrent
  <2> QED BY <2>1, <2>2, <2>3 DEF LeftRefine, RefineBody, Present
<1>4. \A c : LeftCompose(c) => LeftCompose(c)'
  BY DEF LeftCompose, ComposeBody
<1>5. Left'
  BY <1>2, <1>3, <1>4 DEF Inv, Left
<1> QED BY <1>1, <1>5 DEF Inv

LEMMA InitInv == Init => Inv
<1> SUFFICES ASSUME Init PROVE Inv
  OBVIOUS
<1>1. Nothing \in Bodies /\ Nothing.by = None /\ None # "tla" /\ None # "compose" /\ None # "refine"
  BY DEF Nothing, Bodies, None
<1>2. \A p \in Machines, x \in Family \cup Pair : files[<<p, x>>].by = None
  BY <1>1, NameParts DEF Init
<1>3. TypeOK
  BY <1>1 DEF Init, TypeOK, Present, None, Patterns
<1>4. FamilyPlaced /\ PairNamed
  BY <1>1, <1>2 DEF FamilyPlaced, PairNamed
<1>5. PairOne /\ FamilyOne
  BY <1>1, <1>2, Suffixes DEF PairOne, FamilyOne, refinementSourceOwner
<1>6. Left
  BY DEF Init, Left
<1> QED BY <1>3, <1>4, <1>5, <1>6 DEF Inv

\* What a run that succeeded left has converged.
LEMMA LeftConverged == Left => Converged
<1> SUFFICES ASSUME Left, last.ok PROVE Converged
  BY DEF Converged
<1>1. CASE last.gen = "author"
  BY <1>1 DEF Converged
<1>2. ASSUME NEW m \in Machines, last.gen = "tla", LeftTLA(m) PROVE Converged
  BY <1>2 DEF LeftTLA, Converged
<1>3. ASSUME NEW m \in Machines, NEW s \in Semantics, last.gen = "refine", last.args = <<m, s>>, LeftRefine(m, s)
      PROVE  Converged
  <2>1. last.args[1] = m /\ last.args[2] = s
    BY <1>3
  <2> QED BY <1>3, <2>1 DEF LeftRefine, Converged
<1>4. ASSUME NEW c \in Compositions, last.gen = "compose", last.args = <<c>>, LeftCompose(c) PROVE Converged
  <2>1. last.args[1] = c
    BY <1>4
  <2> QED BY <1>4, <2>1 DEF LeftCompose, Converged
<1> QED BY <1>1, <1>2, <1>3, <1>4 DEF Left

\* A run of tla, refine or compose keeps what other generators and hands wrote,
\* unless it lies beside a module of its own generator, overwrites no hand-written
\* file, keeps the outputs of other sources that it looks for and finds, and
\* succeeds again when it is repeated.
THEOREM OutputsKept == Spec => [][StepKeeps]_vars
<1>1. Inv /\ [Next]_vars => Inv' /\ [StepKeeps]_vars
  BY Stutter, StepInv
<1> QED BY <1>1, InitInv, PTL DEF Spec

\* After a successful run no module of its generator names sources that are gone,
\* and what is left of its own sources is what they give now, under one name.
THEOREM OutputsConverged == Spec => []Converged
<1>1. Inv /\ [Next]_vars => Inv'
  BY Stutter, StepInv
<1>2. Inv => Converged
  BY LeftConverged DEF Inv
<1> QED BY <1>1, <1>2, InitInv, PTL DEF Spec

====
