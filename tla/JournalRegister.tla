--------------------------- MODULE JournalRegister ---------------------------
(***************************************************************************)
(* What the installer's journal promises: while it is open it holds nothing  *)
(* yet or one whole record, the record changes in one step to the one asked  *)
(* for last, and it goes only with the journal.                              *)
(***************************************************************************)
EXTENDS Naturals

VARIABLES open,   \* whether there is a journal
          val,    \* the record in force, 0 when there is none
          issued  \* the record a writer asked for last

Init == open = FALSE /\ val = 0 /\ issued = 0

Open == ~open /\ open' = TRUE /\ UNCHANGED <<val, issued>>
Issue == open /\ issued' = issued + 1 /\ UNCHANGED <<open, val>>
Install == open /\ issued # val /\ val' = issued /\ UNCHANGED <<open, issued>>
Close == open /\ open' = FALSE /\ val' = 0 /\ UNCHANGED issued

Next == Open \/ Issue \/ Install \/ Close
Spec == Init /\ [][Next]_<<open, val, issued>>
=============================================================================
