---------------------------- MODULE HeadRegister ----------------------------
(***************************************************************************)
(* What the assurance store promises its callers: head.json behaves like   *)
(* an atomic compare-and-append register.  A registration takes effect at  *)
(* one instant between its call and its answer, or not at all.             *)
(***************************************************************************)
EXTENDS Naturals, Sequences

CONSTANTS Procs, Updates, MaxGeneration

VARIABLES
    head,       \* the committed history
    expected,   \* the history each caller believes to extend
    successor,  \* the history each caller asks for
    phase       \* where each call stands

vars == <<head, expected, successor, phase>>

Phases == {"idle", "pending", "won", "confirmed", "lost", "failed"}

\* The histories a caller may want to extend.
Histories == UNION {[1..n -> Updates] : n \in 0..(MaxGeneration - 1)}

Init ==
    /\ head = <<>>
    /\ expected = [p \in Procs |-> <<>>]
    /\ successor = [p \in Procs |-> <<>>]
    /\ phase = [p \in Procs |-> "idle"]

\* A caller asks to extend some history by one registration.
Call(p) ==
    /\ phase[p] # "pending"
    /\ phase' = [phase EXCEPT ![p] = "pending"]
    /\ \E e \in Histories, u \in Updates :
        /\ expected' = [expected EXCEPT ![p] = e]
        /\ successor' = [successor EXCEPT ![p] = Append(e, u)]
    /\ UNCHANGED head

\* The compare succeeds and the history grows by exactly this registration.
Win(p) ==
    /\ phase[p] = "pending"
    /\ head = expected[p]
    /\ head' = successor[p]
    /\ phase' = [phase EXCEPT ![p] = "won"]
    /\ UNCHANGED <<expected, successor>>

\* The exact successor is already current: confirmed, not appended again.
Confirm(p) ==
    /\ phase[p] = "pending"
    /\ head = successor[p]
    /\ phase' = [phase EXCEPT ![p] = "confirmed"]
    /\ UNCHANGED <<head, expected, successor>>

\* Anything else is current: the caller has to rebase.
Lose(p) ==
    /\ phase[p] = "pending"
    /\ head \notin {expected[p], successor[p]}
    /\ phase' = [phase EXCEPT ![p] = "lost"]
    /\ UNCHANGED <<head, expected, successor>>

\* The caller gets an error or no answer; what was appended stays appended.
Fail(p) ==
    /\ phase[p] # "idle"
    /\ phase' = [phase EXCEPT ![p] = "failed"]
    /\ UNCHANGED <<head, expected, successor>>

Next == \E p \in Procs : Call(p) \/ Win(p) \/ Confirm(p) \/ Lose(p) \/ Fail(p)

Spec == Init /\ [][Next]_vars

=============================================================================
