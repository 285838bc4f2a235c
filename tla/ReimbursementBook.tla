------------------------- MODULE ReimbursementBook --------------------------
(***************************************************************************)
(* What ADR 0012 promises of the reimbursement links, each change in one   *)
(* step: links are within the amounts of the rows they touch, a row that   *)
(* is split or paired is not linked and does not get linked, and only the  *)
(* person who books a credit makes or grows a link.                        *)
(***************************************************************************)
EXTENDS Integers, FiniteSetsExt

CONSTANTS Credits, Expenses, MaxAmount

VARIABLES
    amount, \* of a row
    link,   \* of a credit and an expense: how much it repays
    apart   \* rows split with a group or paired as a transfer

Rows == Credits \cup Expenses
Links == Credits \X Expenses

LinkedTotal(r) == MapThenSumSet(LAMBDA l : link[l], {l \in Links : r \in {l[1], l[2]}})

Sound == \A r \in Rows : /\ LinkedTotal(r) <= amount[r]
                         /\ r \in apart => LinkedTotal(r) = 0

Init ==
    /\ amount \in [Rows -> 1 .. MaxAmount]
    /\ link \in [Links -> 0 .. MaxAmount]
    /\ apart \in SUBSET Rows
    /\ Sound

(* A person says what the credit repays.                                   *)
Rebook(c) ==
    /\ link' \in [Links -> 0 .. MaxAmount]
    /\ \A l \in Links : l[1] # c => link'[l] = link[l]
    /\ UNCHANGED <<amount, apart>>

(* A person removes a link.                                                *)
Drop(l) ==
    /\ link' = [link EXCEPT ![l] = 0]
    /\ UNCHANGED <<amount, apart>>

(* A bank or a file reports amounts, and rows are paired: links shrink.    *)
Report ==
    /\ amount' \in [Rows -> 1 .. MaxAmount]
    /\ link' \in [Links -> 0 .. MaxAmount]
    /\ \A l \in Links : link'[l] <= link[l]
    /\ apart' \in SUBSET Rows

(* A person edits, splits and pairs rows: no link changes.                 *)
Arrange ==
    /\ amount' \in [Rows -> 1 .. MaxAmount]
    /\ apart' \in SUBSET Rows
    /\ UNCHANGED link

Next ==
    /\ \/ \E c \in Credits : Rebook(c)
       \/ \E l \in Links : Drop(l)
       \/ Report
       \/ Arrange
    /\ Sound'

Spec == Init /\ [][Next]_<<amount, link, apart>>
=============================================================================
