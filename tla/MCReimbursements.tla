-------------------------- MODULE MCReimbursements --------------------------
(* Reimbursements from rows of the largest amount on: what a run does with *)
(* a smaller one it does after an edit or a report too.  Sessions are      *)
(* alike: the first to begin a request is called First.  The credits start *)
(* alike, linked or not; a replace makes them differ.                      *)
EXTENDS Reimbursements

CONSTANTS
    First,      \* the session that begins
    MaxReports  \* bound: the amounts a sync takes

MCInit ==
    /\ Init
    /\ \A r \in Rows : amount[r] = MaxAmount
    /\ \A c, d \in Credits, e \in Expenses : link[<<c, e>>] = link[<<d, e>>]

MCNext ==
    /\ Next
    /\ begun = 0 => \A s \in Sessions \ {First} : job'[s] = NoJob
    /\ \A s \in Sessions :
          job'[s].at = "take" => Cardinality(DOMAIN pend[s].amount) < MaxReports

MCSpec == MCInit /\ [][MCNext]_vars /\ Fairness
=============================================================================
