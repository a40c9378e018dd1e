----------------------------- MODULE HookPolicy -----------------------------
(* What the agent hooks decide (internal/hook/hook.go): PreToolUse denies    *)
(* calls on protected files and arms the obligation of the others,           *)
(* PostToolUse closes the call, Stop runs the gates and blocks, defers or    *)
(* discharges.  One session; operators edit the configuration, the wave      *)
(* sentinel and the ratchet at any time.  How the ledger is stored is in     *)
(* HookLedger and HookStore; here it is one record.                          *)
EXTENDS Naturals, FiniteSets

CONSTANTS MaxCalls,            \* tool calls of the agent
          MaxOperator,         \* acts of the operator
          Stages,              \* staged lists of gates; {} is progressive selection
          Choices              \* configurations that the operator writes

Targets == {"config", "marker", "wave", "generated", "store", "design", "impl", "outside"}
Ops == [target : Targets, op : {"write", "delete", "move"}]
Gates == {"g2", "g3", "g4", "gv"}

\* A present configuration, and the values that stand for one that is not.
Settings == [kind : {"on"}, strict : BOOLEAN, impl : BOOLEAN, staged : Stages]
Plain(k) == [kind |-> k, strict |-> FALSE, impl |-> FALSE, staged |-> {}]
Default == Plain("on")
None == Plain("none")
Unusable == {Plain("absent"), Plain("off"), Plain("bad")}


VARIABLES config,   \* .machinery.json: settings, or an unusable one
          marker,   \* design/domain.modelith.yaml exists
          wave,     \* the wave sentinel: "none", "open" or "garbage"
          ratchet,  \* a baseline that arms the import gate
          red,      \* gates with findings; those of g3 are drift
          record,   \* the obligation: what was touched and under which routes
          route,    \* the route snapshot of the session
          call,     \* the tool call under way
          stop,     \* the Stop under way: the settings it loaded
          last,     \* the last decision of a Stop
          debt,     \* gates a governed call turned red that no decision has settled
          accepted, \* the operator released the routes of the outstanding obligation
          routed,   \* the Stop under way follows a recorded route
          calls, acts
vars == <<config, marker, wave, ratchet, red, record, route, call, stop, last, debt, accepted,
          routed, calls, acts>>

NoRecord == [design |-> FALSE, impl |-> FALSE, routes |-> {}, pending |-> FALSE]
NoCall == [pc |-> "idle", tool |-> "none", ops |-> {}, named |-> {}, armed |-> FALSE, judged |-> FALSE]

----------------------------------------------------------------------------
(* Configuration.                                                           *)

Load == CASE config.kind = "absent" -> (IF marker THEN Default ELSE None)
          [] config.kind = "off" -> None
          [] OTHER -> config
Usable(s) == s.kind = "on"

\* With no usable configuration the recorded route decides.
Routed == IF ~Usable(Load) /\ record # NoRecord /\ route # None THEN route ELSE Load

\* Settings s check less than settings t.
Narrows(s, t) == \/ t.strict /\ ~s.strict
                 \/ t.impl /\ ~s.impl
                 \/ (t.staged = {}) # (s.staged = {})
                 \/ ~(t.staged \subseteq s.staged)

\* A recorded route that is not in force: known narrower, or its snapshot is gone.
Narrowed(s) == \E r \in record.routes \ {s} : r # route \/ Narrows(s, r)

----------------------------------------------------------------------------
(* PreToolUse.                                                              *)

\* Mutant of DeniesEdit: an exemption for a path, not for an operation on it.
DeniesEditByPath(ops) == \E e \in ops :
    \/ e.target \in {"config", "store", "generated"}
    \/ e.target = "marker" /\ e.op = "delete"
    \/ e.target = "wave" /\ [e EXCEPT !.op = "delete"] \notin ops

DeniesEdit(ops) == \E e \in ops :
    \/ e.target \in {"config", "store", "generated"}
    \/ e.target = "marker" /\ e.op = "delete"
    \/ e.target = "wave" /\ e.op # "delete"

\* A command may not name what is protected; what it computes cannot be seen.
DeniesCommand(named) == named \cap {"config", "marker", "wave", "generated", "store"} # {}

Touches(s, c) ==
    IF c.tool = "shell" THEN [design |-> TRUE, impl |-> s.impl]
    ELSE [design |-> \E e \in c.ops : e.target \in {"design", "marker", "wave", "generated"},
          impl |-> s.impl /\ \E e \in c.ops : e.target = "impl"]

\* Mutant of Arm: an obligation is bound to the latest route only.
ArmLatest(s, t) == [design |-> record.design \/ t.design, impl |-> record.impl \/ t.impl,
                    routes |-> {s}, pending |-> TRUE]

\* Mutant of Arm: an obligation is not bound to its route.
ArmUnbound(s, t) == [design |-> record.design \/ t.design, impl |-> record.impl \/ t.impl,
                     routes |-> record.routes, pending |-> TRUE]

Arm(s, t) == [design |-> record.design \/ t.design, impl |-> record.impl \/ t.impl,
              routes |-> record.routes \cup {s}, pending |-> TRUE]

\* A file tool writes one file or applies a patch of several operations; a
\* command does one thing and may name less than it edits.
Do(t, o) == [target |-> t, op |-> o]
Patches == {{Do(t, "write")} : t \in Targets}
           \cup {{Do("wave", "delete")}, {Do("marker", "delete")}, {Do("marker", "move")},
                 {Do("wave", "delete"), Do("wave", "write")},
                 {Do("design", "write"), Do("generated", "write")}}
Effects == {{Do("config", "write")}, {Do("marker", "delete")}, {Do("wave", "write")},
            {Do("design", "write")}, {Do("impl", "write")}}
Calls == [tool : {"file"}, ops : Patches, named : {{}}]
         \cup [tool : {"shell"}, ops : Effects, named : {{}, {"config"}}]

Pre(c) ==
    /\ call = NoCall /\ stop = None /\ calls < MaxCalls
    /\ calls' = calls + 1 /\ last' = "none"
    /\ LET s == Load
           t == Touches(s, c)
           begun == [pc |-> "running", tool |-> c.tool, ops |-> c.ops, named |-> c.named,
                     armed |-> FALSE, judged |-> s # None]
       IN \/ s = None /\ call' = begun /\ UNCHANGED <<record, route>>
          \/ /\ Usable(s)
             /\ (IF c.tool = "file" THEN ~DeniesEdit(c.ops) ELSE ~DeniesCommand(c.named))
             /\ IF t.design \/ t.impl
                THEN record' = Arm(s, t) /\ route' = s /\ call' = [begun EXCEPT !.armed = TRUE]
                ELSE call' = begun /\ UNCHANGED <<record, route>>
    /\ UNCHANGED <<config, marker, wave, ratchet, red, stop, debt, accepted, routed, acts>>

----------------------------------------------------------------------------
(* The tool runs, and PostToolUse.                                          *)

Edits(target, op) == \E e \in call.ops : e.target = target /\ e.op = op

\* What an edit of a target can do to the findings.
Results == LET t == {e.target : e \in call.ops} IN
    {r \in SUBSET {"g2", "g3", "g4"} :
        /\ (t \cap {"design", "marker"} = {}) => ("g2" \in r <=> "g2" \in red)
        /\ (t \cap {"design", "marker", "generated"} = {}) => ("g3" \in r <=> "g3" \in red)
        /\ (t \cap {"design", "marker", "impl"} = {}) => ("g4" \in r <=> "g4" \in red)
        /\ "generated" \in t /\ t \cap {"design", "marker"} = {} => "g3" \in r}

\* Gates that the settings have run at a stop.
Selected(s) == (IF s.staged # {} THEN s.staged ELSE {"g2", "g3", "g4"})
               \ (IF s.impl THEN {"gv"} ELSE {"g4", "gv"})

\* What the settings a call was armed under would have found.
Watched == UNION {Selected(s) : s \in record.routes}

Execute ==
    /\ call.pc = "running" /\ call' = [call EXCEPT !.pc = "ran"]
    /\ config' = (IF Edits("config", "write") THEN Plain("off") ELSE
                    IF Edits("config", "delete") \/ Edits("config", "move") THEN Plain("absent") ELSE config)
    /\ marker' = IF Edits("marker", "delete") \/ Edits("marker", "move") THEN FALSE ELSE marker
    /\ wave' = IF Edits("wave", "write") \/ Edits("wave", "move") THEN "open"
               ELSE IF Edits("wave", "delete") THEN "none" ELSE wave
    /\ red' \in Results
    /\ debt' = (debt \cap red') \cup (IF call.armed THEN (red' \ red) \cap Watched ELSE {})
    /\ UNCHANGED <<ratchet, record, route, stop, last, accepted, routed, calls, acts>>

\* A call that fails reports as well.  The completion needs the configuration
\* in force: it closes the token and binds the obligation to that configuration,
\* or closes the token only where the call touched nothing under it; without a
\* usable configuration the token stays.
Completed == LET t == Touches(Load, call) IN
    IF ~call.armed \/ ~Usable(Load) THEN [rec |-> record, rt |-> route]
    ELSE IF t.design \/ t.impl
         THEN [rec |-> [Arm(Load, t) EXCEPT !.pending = FALSE], rt |-> Load]
         ELSE [rec |-> [record EXCEPT !.pending = FALSE], rt |-> route]

Post == /\ call.pc \in {"running", "ran"} /\ call' = NoCall
        /\ record' = Completed.rec /\ route' = Completed.rt
        /\ UNCHANGED <<config, marker, wave, ratchet, red, stop, last, debt, accepted, routed, calls, acts>>

\* The next prompt ends what the session left open.
Prompt == /\ call = NoCall /\ stop = None /\ record.pending
          /\ record' = [record EXCEPT !.pending = FALSE]
          /\ UNCHANGED <<config, marker, wave, ratchet, red, route, call, stop, last, debt, accepted,
                         routed, calls, acts>>

----------------------------------------------------------------------------
(* Stop.                                                                    *)

StopBegins ==
    /\ call = NoCall /\ stop = None
    /\ (Load # None \/ record # NoRecord) /\ last = "none"
    /\ stop' = Routed /\ routed' = (Routed # Load)
    /\ UNCHANGED <<config, marker, wave, ratchet, red, record, route, call, last, debt, accepted,
                   calls, acts>>

\* Mutant of ShouldBlock: import findings block before a baseline is armed.
ShouldBlockAlways(s, found) == "g3" \in found \/ "g4" \in found \/ (s.strict /\ found # {})

ShouldBlock(s, found) ==
    "g3" \in found \/ ("g4" \in found /\ ratchet) \/ (s.strict /\ found # {})

\* The verdict of a stop that loaded s: what it does, and whether it settles the debt.

\* Mutant of Verdict: a selection without gates discharges under any route.
VerdictEmpty(s) ==
    LET found == red \cap Selected(s) IN
    IF ~Usable(s) THEN "block"
    ELSE IF record = NoRecord THEN "pass"
    ELSE IF record.pending THEN "block"
    ELSE IF Load # s THEN "block"
    ELSE IF Selected(s) = {} THEN "discharge"
    ELSE IF ShouldBlock(s, found) THEN (IF wave = "open" THEN "defer" ELSE "block")
    ELSE (IF Narrowed(s) THEN "keep" ELSE "discharge")

\* Mutant of Verdict: any sentinel defers.
VerdictAnyWave(s) ==
    LET found == red \cap Selected(s) IN
    IF ~Usable(s) THEN "block"
    ELSE IF record = NoRecord THEN "pass"
    ELSE IF record.pending THEN "block"
    ELSE IF Load # s THEN "block"
    ELSE IF Selected(s) = {} THEN (IF record.routes \ {s} # {} THEN "keep" ELSE "discharge")
    ELSE IF ShouldBlock(s, found) THEN (IF wave # "none" THEN "defer" ELSE "block")
    ELSE (IF Narrowed(s) THEN "keep" ELSE "discharge")

Verdict(s) ==
    LET found == red \cap Selected(s) IN
    IF ~Usable(s) THEN "block"
    ELSE IF record = NoRecord THEN "pass"
    ELSE IF record.pending THEN "block"
    ELSE IF Load # s THEN "block"
    ELSE IF Selected(s) = {} THEN (IF record.routes \ {s} # {} THEN "keep" ELSE "discharge")
    ELSE IF ShouldBlock(s, found) THEN (IF wave = "open" THEN "defer" ELSE "block")
    ELSE (IF Narrowed(s) THEN "keep" ELSE "discharge")

StopDecides ==
    /\ stop # None
    /\ LET v == Verdict(stop) IN
       /\ last' = v
       /\ IF v = "discharge" THEN record' = NoRecord /\ route' = None ELSE UNCHANGED <<record, route>>
       /\ debt' = IF v = "discharge"
                  THEN {g \in (IF accepted THEN {} ELSE debt) : g = "g3" \/ (g = "g4" /\ ratchet) \/ stop.strict} ELSE debt
    /\ stop' = None /\ routed' = FALSE
    /\ accepted' = (accepted /\ last' # "discharge")
    /\ UNCHANGED <<config, marker, wave, ratchet, red, call, calls, acts>>

----------------------------------------------------------------------------
(* Operators.                                                               *)

Act == acts < MaxOperator /\ acts' = acts + 1
       /\ UNCHANGED <<red, call, stop, last, routed, calls>>

OperatorConfigures(c) == Act /\ config # c /\ config' = c
                         /\ UNCHANGED <<marker, wave, ratchet, record, route, debt, accepted>>
OperatorWaves(w) == Act /\ wave # w /\ wave' = w
                    /\ UNCHANGED <<config, marker, ratchet, record, route, debt, accepted>>
OperatorBaselines == Act /\ ~ratchet /\ ratchet' = TRUE
                     /\ UNCHANGED <<config, marker, wave, record, route, debt, accepted>>
OperatorRestores == Act /\ ~marker /\ marker' = TRUE
                    /\ UNCHANGED <<config, wave, ratchet, record, route, debt, accepted>>

\* hook-state release --routes: the earlier routes are forgotten.
OperatorAccepts == /\ Act /\ record.routes # {} /\ record' = [record EXCEPT !.routes = {}]
                   /\ accepted' = TRUE
                   /\ UNCHANGED <<config, marker, wave, ratchet, route, debt>>

Init ==
    /\ config \in {Plain("absent"), [Default EXCEPT !.impl = TRUE]} /\ marker = TRUE
    /\ wave = "none" /\ ratchet = FALSE /\ red = {}
    /\ record = NoRecord /\ route = None /\ call = NoCall /\ stop = None /\ last = "none"
    /\ debt = {} /\ accepted = FALSE /\ routed = FALSE /\ calls = 0 /\ acts = 0

Next == \/ \E c \in Calls : Pre(c)
        \/ Execute \/ Post \/ Prompt \/ StopBegins \/ StopDecides
        \/ \E c \in Choices : OperatorConfigures(c)
        \/ \E w \in {"none", "open", "garbage"} : OperatorWaves(w)
        \/ OperatorBaselines \/ OperatorRestores \/ OperatorAccepts
Spec == Init /\ [][Next]_vars

----------------------------------------------------------------------------
(* Properties.                                                              *)

TypeOK ==
    /\ config \in Settings \cup Unusable /\ marker \in BOOLEAN
    /\ wave \in {"none", "open", "garbage"} /\ red \subseteq Gates
    /\ record.routes \subseteq Settings /\ (record = NoRecord <=> record.routes = {} /\ ~accepted)
    /\ debt \subseteq red
    /\ last \in {"none", "pass", "block", "defer", "keep", "discharge"}

\* A finding that a governed call brought in is owed until a stop has judged it
\* under settings that look for it, it is repaired, or an operator let it go: neither a wave, nor a
\* change of configuration, nor a stop that runs no gates makes the project
\* forget it (stop, narrowedRoutes).
DebtRecorded == debt # {} => record # NoRecord

\* A governed session does not end a turn over its own drift, unless an operator
\* opened a wave, changed the configuration or released the routes since (stop).
NoRedTurn ==
    stop # None /\ stop' = None /\ "g3" \in debt /\ last' # "block" =>
          wave = "open" \/ record.routes # {stop} \/ accepted

\* No call that the hook judged, a command's computed paths apart, switches
\* governance off, opens a wave or rewrites a generated file.  Moving the
\* marker is an edit to the hook, not a deletion.
AgentKeepsGovernance ==
    call.pc = "running" /\ call'.pc = "ran" /\ call.judged /\ call.tool = "file" =>
          /\ config' = config
          /\ marker' = marker \/ Edits("marker", "move")
          /\ wave' \in {wave, "none"}
          /\ ~\E e \in call.ops : e.target \in {"generated", "store"}

\* A session that found nothing red is not held back by findings that do not
\* concern it: with a usable configuration and only disarmed or lenient
\* findings the turn ends (stop).
LenientTurnEnds ==
    stop # None /\ stop' = None /\ Usable(stop) /\ Load = stop
       /\ ~record.pending /\ "g3" \notin red /\ ~ratchet /\ ~stop.strict => last' # "block"

\* With no usable configuration the recorded route decides
\* (docs/claude-plugin.md): a stop over clean trees does not block.
RouteDecides ==
    stop # None /\ stop' = None /\ routed /\ ~Usable(Load) /\ red = {}
       /\ ~record.pending => last' # "block"
=============================================================================
