----------------------------- MODULE EmbedTable -----------------------------
(* Refreshing one copied table from its source (refreshOneTable), and the   *)
(* gate that checks the copy (checkOneEmbed).  A row is its key, the text   *)
(* of its other cells and the localization an author gave it: none, of a    *)
(* cell, or of the whole row.  A refresh claims source rows in two passes,  *)
(* exact copies before keys, then appends what a complete copy lacks.       *)
EXTENDS Integers, Sequences, SequencesExt, FiniteSets

CONSTANTS Keys, Texts,         \* texts of source rows
          OwnText,             \* a text no source row has
          MaxSource, MaxCopy

Row(k, t, l) == [key |-> k, text |-> t, local |-> l]
SourceRows == {Row(k, t, "none") : k \in Keys, t \in Texts}
CopyRows == SourceRows
            \cup {Row(k, OwnText, l) : k \in Keys, l \in {"none", "cell", "row"}}

VARIABLES source, copy,        \* sequences of rows
          complete, where,     \* claims of the marker; without where all rows are selected
          resolves,            \* the marker names one table with the copy's columns
          pass,                \* steps of a refresh; runs that ended
          runs,
          consumed,            \* source rows some copied row stands for
          settled,             \* copied rows the first pass settled
          orphans, ambiguous,  \* rows the refresh reports and keeps
          vague,               \* a run ended with an ambiguous row
          start                \* the copy before this run

vars == <<source, copy, complete, where, resolves, pass, runs, consumed,
          settled, orphans, ambiguous, vague, start>>
marker == <<source, complete, where, resolves>>

Init == /\ source \in SeqOf(SourceRows, MaxSource) /\ copy \in SeqOf(CopyRows, MaxCopy)
        /\ complete \in BOOLEAN /\ where \in BOOLEAN /\ resolves \in BOOLEAN
        /\ ~resolves => source = <<>>
        /\ pass = "idle" /\ runs = 0
        /\ consumed = {} /\ settled = {} /\ orphans = {} /\ ambiguous = {}
        /\ vague = FALSE /\ start = copy


\* Mutant of Localized: only a localized key cell counts.
LocalizedRow(r) == r.local = "row"

Localized(r) == r.local # "none"
\* The where filter selects rows by the name a cell denotes: here, a text.
Denoted == CHOOSE t \in Texts : TRUE
Selected(i) == where => source[i].text = Denoted
Line(i) == source[i]

----------------------------------------------------------------------------
(* One refresh.                                                             *)

Begin == /\ pass = "idle" /\ runs < 2
         /\ consumed' = {} /\ settled' = {} /\ orphans' = {} /\ ambiguous' = {}
         /\ start' = copy
         /\ IF resolves THEN pass' = "exact" /\ UNCHANGED runs
            ELSE pass' = "idle" /\ runs' = runs + 1
         /\ UNCHANGED <<marker, copy, vague>>

\* The source row that an exact copy claims: the first one still unclaimed.
ExactFree(row, used) == {i \in DOMAIN source : Line(i) = row /\ i \notin used}

\* Mutant of KeyedFree: claimed rows are offered again.
KeyedFreeAny(row, used) == {i \in DOMAIN source : source[i].key = row.key}

KeyedFree(row, used) == {i \in DOMAIN source : source[i].key = row.key /\ i \notin used}
Least(S) == CHOOSE i \in S : \A j \in S : i <= j

\* Mutant of Claims: an exact copy claims every equal source row.
ClaimsAll(row, used) == used \cup ExactFree(row, {})

\* Mutant of Claims: every row claims by key in the first pass.
ClaimsKeyed(row, used) ==
    IF KeyedFree(row, used) # {} THEN used \cup {Least(KeyedFree(row, used))} ELSE used

Claims(row, used) ==
    CASE ExactFree(row, used) # {} -> used \cup {Least(ExactFree(row, used))}
      [] Localized(row) /\ ExactFree(row, {}) = {} /\ KeyedFree(row, used) # {}
           -> used \cup {Least(KeyedFree(row, used))}
      [] OTHER -> used

\* The first pass settles localized rows and byte copies.
Exact == /\ pass = "exact"
         /\ consumed' = FoldLeft(LAMBDA used, row : Claims(row, used), {}, copy)
         /\ settled' = {r \in DOMAIN copy : Localized(copy[r]) \/ ExactFree(copy[r], {}) # {}}
         /\ pass' = "keyed"
         /\ UNCHANGED <<marker, copy, runs, orphans, ambiguous, vague, start>>

\* The second pass recopies a row whose key leaves one source row, and
\* reports the others.  It goes row by row, each claim seen by the next.

Recopies(row, used) == Cardinality(KeyedFree(row, used)) = 1

Keyed ==
    /\ pass = "keyed"
    /\ LET Step(s, r) ==
             IF r \in settled THEN s
             ELSE IF Recopies(copy[r], s.used)
             THEN LET i == Least(KeyedFree(copy[r], s.used)) IN
                  [s EXCEPT !.used = @ \cup {i}, !.rows[r] = Line(i)]
             ELSE IF KeyedFree(copy[r], s.used) = {}
             THEN [s EXCEPT !.orphans = @ \cup {r}]
             ELSE [s EXCEPT !.ambiguous = @ \cup {r}]
           result == FoldLeft(Step, [used |-> consumed, rows |-> copy, orphans |-> {}, ambiguous |-> {}],
                              [r \in DOMAIN copy |-> r]) IN
       /\ copy' = result.rows /\ consumed' = result.used
       /\ orphans' = result.orphans /\ ambiguous' = result.ambiguous
    /\ pass' = "append"
    /\ UNCHANGED <<marker, runs, settled, vague, start>>

\* A complete copy with a filter gets the selected rows that nothing stands for.

\* Mutant of Lacking: every selected row is appended.
LackingAny == SelectSeq([i \in DOMAIN source |-> i], LAMBDA i : Selected(i))

Lacking == SelectSeq([i \in DOMAIN source |-> i], LAMBDA i : Selected(i) /\ i \notin consumed)

Append1 == /\ pass = "append"
           /\ IF complete /\ where
              THEN /\ copy' = copy \o [n \in DOMAIN Lacking |-> Line(Lacking[n])]
                   /\ consumed' = consumed \cup {i \in DOMAIN source : Selected(i)}
              ELSE UNCHANGED <<copy, consumed>>
           /\ pass' = "idle" /\ runs' = runs + 1
           /\ vague' = (vague \/ ambiguous # {})
           /\ UNCHANGED <<marker, settled, orphans, ambiguous, start>>

Next == Begin \/ Exact \/ Keyed \/ Append1
Spec == Init /\ [][Next]_vars

----------------------------------------------------------------------------
(* The gate.                                                                *)

\* Cells that are not exempt are equal.
RowMatches(row, i) == /\ row.key = source[i].key
                      /\ row.local # "cell" => row.text = source[i].text

Subset == \A r \in DOMAIN copy :
             copy[r].local # "row" => \E i \in DOMAIN source : Selected(i) /\ RowMatches(copy[r], i)

Complete == \A i \in DOMAIN source :
               Selected(i) => \E r \in DOMAIN copy : copy[r].local # "row" /\ RowMatches(copy[r], i)

Copies(rows, row) == Cardinality({r \in DOMAIN rows : rows[r] = row})
Duplicates(rows) ==
    {rows[r] : r \in {q \in DOMAIN rows :
        /\ rows[q].local # "row"
        /\ Copies(rows, rows[q]) >= 2
        /\ Copies(rows, rows[q]) > Cardinality({i \in DOMAIN source : Selected(i) /\ Line(i) = rows[q]})}}

----------------------------------------------------------------------------
(* Properties.                                                              *)

Refreshed == pass = "idle" /\ runs > 0 /\ resolves

\* The variables have their types, and claims only grow with the rows that
\* stand for them (refreshOneTable: consumed).
TypeOK == /\ \A r \in DOMAIN copy : copy[r] \in CopyRows
          /\ consumed \subseteq DOMAIN source /\ settled \subseteq DOMAIN copy
          /\ orphans \cap ambiguous = {}
          /\ settled \cap (orphans \cup ambiguous) = {}
          /\ pass = "keyed" => Cardinality(consumed) <= Len(copy)

\* A refresh never rewrites a localized row, never drops or moves a row, and a
\* row it rewrites keeps its key (the contract in embedrefresh.go).
RowsKept ==
    pass \in {"append", "idle"} /\ resolves =>
        /\ Len(copy) >= Len(start)
        /\ \A r \in DOMAIN start : /\ copy[r].key = start[r].key
                                   /\ start[r].local # "none" => copy[r] = start[r]
                                   /\ r \in orphans \cup ambiguous => copy[r] = start[r]

\* A refresh makes no duplicate the gate would warn of (claimExact, claimKeyed).
NoNewDuplicate == Refreshed /\ ~where => Duplicates(copy) \subseteq Duplicates(start)

\* After a refresh every row is a copy, localized or reported.  Where nothing
\* is localized or reported the gate agrees: the subset claim of an unfiltered
\* copy and the complete claim of a filtered one hold (Ge-embed).
Faithful ==
    Refreshed =>
        /\ \A r \in DOMAIN copy :
              Localized(copy[r]) \/ r \in orphans \cup ambiguous \/ Copies(source, copy[r]) > 0
        /\ (\A r \in DOMAIN copy : ~Localized(copy[r])) =>
              /\ complete /\ where => Complete
              /\ ~where /\ orphans = {} /\ ambiguous = {} => Subset

\* A second refresh changes nothing unless the first one left an ambiguous row
\* (embedrefresh.go: "idempotent").
StableWhenClear == runs = 2 /\ resolves /\ ~vague => copy = start

\* A second run of a pair changes nothing (embedrefresh.go).
Idempotent == runs = 2 /\ resolves => copy = start

\* What a refresh leaves without a report passes the gate's complete claim
\* (README: the refresh writes what this gate checks).
GatePasses ==
    Refreshed /\ complete /\ where /\ orphans = {} /\ ambiguous = {} => Complete
=============================================================================
