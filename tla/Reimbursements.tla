--------------------------- MODULE Reimbursements ---------------------------
(***************************************************************************)
(* Reimbursement links, transfer pairs and group splits on one set of      *)
(* transactions, as the requests of persons and the syncs change them.     *)
(*                                                                         *)
(* A request reads what it likes without a lock, locks the rows it is      *)
(* about one after the other, looks at their links again and commits; the  *)
(* database shows every session what is committed and what the session     *)
(* itself has written.  A sync, or a file import, takes the amounts its    *)
(* source reports, in the order of the source, keeps every row lock to its *)
(* commit and then looks for transfers.  An import locks a row when it     *)
(* writes it; a sync has locked the rows of its account before, which is   *)
(* one of the orders allowed here.                                         *)
(*                                                                         *)
(* Left out: currencies, dates, statuses and categories, which only make   *)
(* rows ineligible (Fail), rows that come and go, the counterpart row that *)
(* create_transfer_counterpart adds, series edits, moves to another        *)
(* workspace and what the shares of a split add up to.                     *)
(***************************************************************************)
EXTENDS Integers, FiniteSetsExt

CONSTANTS
    Credits,     \* ids of the transactions of type credit
    Expenses,    \* ids of those of type debit
    MaxAmount,   \* bound: the amounts there are
    Sessions,    \* database sessions
    Kinds,       \* the requests that are made
    MaxRequests  \* bound: the requests and syncs

(* The kinds of request there are.                                         *)
Requests == {"replace", "link", "accept", "split", "unpair", "edit", "sync"}

ASSUME ReimbursementAssumption ==
    /\ Credits \subseteq Nat \ {0}
    /\ Expenses \subseteq Nat \ {0}
    /\ Credits \cap Expenses = {}
    /\ IsFiniteSet(Credits) /\ IsFiniteSet(Expenses)
    /\ {MaxAmount, MaxRequests} \subseteq Nat
    /\ Kinds \subseteq Requests

Rows == Credits \cup Expenses
Links == Credits \X Expenses
Amounts == 1 .. MaxAmount

(* A pairing mints a fresh uuid and writes it to two rows: the two rows    *)
(* name it.  {} is NULL.                                                   *)
Ends(l) == {l[1], l[2]}
PairIds == {{}} \cup {Ends(l) : l \in Links}

(* The answers a suggestion can still get.                                 *)
Questions == {"none", "of credit", "of debit", "answered"}

VARIABLES
    amount,   \* of a row, as committed
    split,    \* rows with group splits
    pair,     \* transfer_pair_id
    link,     \* the amount of a reimbursement link; 0 is no link
    question, \* the suggestion that two rows are one transfer
    job,      \* what each session is at
    held,     \* the rows it has locked
    todo,     \* the rows it is about to lock
    pend,     \* what it has written and not committed
    begun,    \* requests and syncs so far
    crossed   \* history: a commit wrote over what it had not looked at

tables == <<amount, split, pair, link, question>>
vars == <<tables, job, held, todo, pend, begun, crossed>>

(* job is the kind, how far it is, and its arguments: the row (the credit, *)
(* the suggestion's transaction, the row a bank re-reports), the other leg, *)
(* the allocations, the amount, the pair id as loaded or the rows loaded   *)
(* for a split, and the couples a detection agreed on.                     *)
NoJob == [kind |-> "none", at |-> "idle", row |-> 0, other |-> 0,
          want |-> [e \in Expenses |-> 0], amt |-> 0, seen |-> {}, couples |-> {}]
Jobs == [kind : Requests \cup {"none"},
         at : {"idle", "lock", "feed", "take", "unpair", "pairing", "write"},
         row : Rows \cup {0}, other : Rows \cup {0},
         want : [Expenses -> 0 .. MaxAmount], amt : 0 .. MaxAmount, seen : SUBSET Rows,
         couples : SUBSET Links]

PartialFcns(D, R) == UNION {[X -> R] : X \in SUBSET D}

(* was is the amount a written link had when the session read it.          *)
NoWrites == [amount |-> <<>>, link |-> <<>>, was |-> <<>>, pair |-> <<>>]
Writes == [amount : PartialFcns(Rows, Amounts),
           link : PartialFcns(Links, 0 .. MaxAmount),
           was : PartialFcns(Links, 0 .. MaxAmount),
           pair : PartialFcns(Rows, PairIds)]

TypeOK ==
    /\ amount \in [Rows -> Amounts]
    /\ split \in SUBSET Rows
    /\ pair \in [Rows -> PairIds]
    /\ link \in [Links -> 0 .. MaxAmount]
    /\ question \in [Links -> Questions]
    /\ job \in [Sessions -> Jobs]
    /\ held \in [Sessions -> SUBSET Rows]
    /\ todo \in [Sessions -> SUBSET Rows]
    /\ pend \in [Sessions -> Writes]
    /\ begun \in 0 .. MaxRequests
    /\ crossed \in BOOLEAN

-----------------------------------------------------------------------------
(* A table as a session with the writes w sees it.                         *)
Over(w, f) == [x \in DOMAIN f |-> IF x \in DOMAIN w THEN w[x] ELSE f[x]]

LinksOf(r) == {l \in Links : r \in Ends(l)}
Linked(lk, r) == \E l \in LinksOf(r) : lk[l] > 0
LinkedTotal(lk, r) == MapThenSumSet(LAMBDA l : lk[l], LinksOf(r))

(* Half a transfer, and one whose other half exists.                       *)
ValidPair(pr, r) == pr[r] # {} /\ \E o \in Rows \ {r} : pr[o] = pr[r]

(* What keeps a row out of a new link, of the reasons modelled.            *)
Apart(r) == r \in split \/ ValidPair(pair, r)

Fits(am, lk) == \A r \in Rows : LinkedTotal(lk, r) <= am[r]

Init ==
    /\ amount \in [Rows -> Amounts]
    /\ split = {}
    /\ pair = [r \in Rows |-> {}]
    /\ link \in [Links -> 0 .. MaxAmount]
    /\ Fits(amount, link)
    /\ question = [l \in Links |-> "none"]
    /\ job = [s \in Sessions |-> NoJob]
    /\ held = [s \in Sessions |-> {}]
    /\ todo = [s \in Sessions |-> {}]
    /\ pend = [s \in Sessions |-> NoWrites]
    /\ begun = 0
    /\ crossed = FALSE

Free(s, r) == \A t \in Sessions \ {s} : r \notin held[t]
At(s, k, a) == job[s].kind = k /\ job[s].at = a /\ todo[s] = {}

(* Whose arguments have been used up.                                      *)
Goto(s, a) == job' = [job EXCEPT ![s] = [NoJob EXCEPT !.kind = job[s].kind, !.at = a]]

Begin(s, j, rows) ==
    /\ job[s] = NoJob
    /\ j.kind \in Kinds
    /\ begun < MaxRequests
    /\ begun' = begun + 1
    /\ job' = [job EXCEPT ![s] = j]
    /\ todo' = [todo EXCEPT ![s] = rows]
    /\ UNCHANGED <<tables, held, pend, crossed>>

(* A request of one statement, which no other session can divide.          *)
AtOnce == begun < MaxRequests /\ begun' = begun + 1

(* Mutant of End: the session goes back to the pool inside its transaction. *)
EndKeepsLocks(s) ==
    /\ job' = [job EXCEPT ![s] = NoJob]
    /\ todo' = [todo EXCEPT ![s] = {}]
    /\ pend' = [pend EXCEPT ![s] = NoWrites]
    /\ UNCHANGED <<held, begun>>

(* The end of the transaction: every lock goes.                            *)
End(s) ==
    /\ job' = [job EXCEPT ![s] = NoJob]
    /\ held' = [held EXCEPT ![s] = {}]
    /\ todo' = [todo EXCEPT ![s] = {}]
    /\ pend' = [pend EXCEPT ![s] = NoWrites]
    /\ UNCHANGED begun

(* Mutant of LockNext: no ORDER BY.                                        *)
LockNextUnsorted(s) ==
    /\ \E r \in todo[s] :
          /\ Free(s, r)
          /\ held' = [held EXCEPT ![s] = @ \cup {r}]
          /\ todo' = [todo EXCEPT ![s] = @ \ {r}]
    /\ UNCHANGED <<tables, job, pend, begun, crossed>>

(* SELECT ... ORDER BY id FOR UPDATE, or the rows a flush updates: one row *)
(* after the other, waiting for whoever has the next one.                  *)
LockNext(s) ==
    /\ \E r \in todo[s] :
          /\ \A q \in todo[s] : r <= q
          /\ Free(s, r)
          /\ held' = [held EXCEPT ![s] = @ \cup {r}]
          /\ todo' = [todo EXCEPT ![s] = @ \ {r}]
    /\ UNCHANGED <<tables, job, pend, begun, crossed>>

(* A request that is refused or dies, a sync that dies.                    *)
Fail(s) ==
    /\ job[s] # NoJob
    /\ End(s)
    /\ UNCHANGED <<tables, crossed>>

WaitsFor(s, t) ==
    \E r \in todo[s] : r \in held[t] /\ \A q \in todo[s] : r <= q

(* The database breaks a deadlock by failing one of the two.               *)
Victim(s) ==
    /\ \E t \in Sessions \ {s} : WaitsFor(s, t) /\ WaitsFor(t, s)
    /\ Fail(s)

-----------------------------------------------------------------------------
Asks(want) == {e \in Expenses : want[e] > 0}
AskedTotal(want) == MapThenSumSet(LAMBDA e : want[e], Asks(want))

(* Mutant of BeginReplace: only the credit is locked.                      *)
BeginReplaceLocksCredit(s) ==
    \E c \in Credits, want \in [Expenses -> 0 .. MaxAmount] :
        Begin(s, [NoJob EXCEPT !.kind = "replace", !.at = "lock", !.row = c, !.want = want], {c})

(* replace_reimbursements: the credit and the expenses asked for are       *)
(* locked; those whose link is dropped are not.                            *)
BeginReplace(s) ==
    \E c \in Credits, want \in [Expenses -> 0 .. MaxAmount] :
        Begin(s, [NoJob EXCEPT !.kind = "replace", !.at = "lock", !.row = c, !.want = want],
              {c} \cup Asks(want))

ClaimedElsewhere(c, e) ==
    MapThenSumSet(LAMBDA l : link[l], {l \in LinksOf(e) : l[1] # c})

MayReplace(c, want) ==
    LET new == {e \in Asks(want) : ~(link[<<c, e>>] > 0)}
    IN  /\ new # {} => \A r \in new \cup {c} : ~Apart(r)
        /\ AskedTotal(want) <= amount[c]
        /\ \A e \in Asks(want) : want[e] <= amount[e] - ClaimedElsewhere(c, e)

Replace(s) ==
    LET c == job[s].row
        want == job[s].want
        changed == {l \in Links : l[1] = c /\ link[l] # want[l[2]]}
    IN  /\ At(s, "replace", "lock")
        /\ MayReplace(c, want)
        /\ pend' = [pend EXCEPT ![s].link = [l \in changed |-> want[l[2]]],
                                ![s].was = [l \in changed |-> link[l]]]
        /\ Goto(s, "write")
        /\ UNCHANGED <<tables, held, todo, begun, crossed>>

(* delete_reimbursement locks nothing.                                     *)
DeleteReimbursement(l) ==
    /\ AtOnce
    /\ link[l] > 0
    /\ link' = [link EXCEPT ![l] = 0]
    /\ UNCHANGED <<amount, split, pair, question, job, held, todo, pend, crossed>>

-----------------------------------------------------------------------------
(* link_existing_as_transfer loads both rows and tests their pair ids      *)
(* before it locks them.                                                   *)
BeginLink(s) ==
    \E l \in Links :
        /\ \A r \in Ends(l) : pair[r] = {}
        /\ Begin(s, [NoJob EXCEPT !.kind = "link", !.at = "lock", !.row = l[1], !.other = l[2]],
                 Ends(l))

(* accept_suggestion locks the suggestion, which loads its transaction;    *)
(* _settle then locks both rows, and reads only the other one.             *)
Asked(m, o) == \E l \in Links :
    \/ m = l[1] /\ o = l[2] /\ question[l] = "of credit"
    \/ m = l[2] /\ o = l[1] /\ question[l] = "of debit"

BeginAccept(s) ==
    \E m, o \in Rows :
        /\ Asked(m, o)
        /\ \A t \in Sessions : job[t].kind = "accept" => {job[t].row, job[t].other} # {m, o}
        /\ pair[m] = {}
        /\ Begin(s, [NoJob EXCEPT !.kind = "accept", !.at = "lock", !.row = m, !.other = o],
                 {m, o})

MakePair(m, o) == pair' = [r \in Rows |-> IF r \in {m, o} THEN {m, o} ELSE pair[r]]

Link(s) ==
    LET m == job[s].row  o == job[s].other
    IN  /\ At(s, "link", "lock")
        /\ \A r \in {m, o} : ~Linked(link, r)
        /\ MakePair(m, o)
        /\ End(s)
        /\ UNCHANGED <<amount, split, link, question, crossed>>

Accept(s) ==
    LET m == job[s].row  o == job[s].other
    IN  /\ At(s, "accept", "lock")
        /\ pair[o] = {}
        /\ \A r \in {m, o} : ~Linked(link, r)
        /\ MakePair(m, o)
        /\ question' = [l \in Links |-> IF Ends(l) = {m, o} THEN "answered" ELSE question[l]]
        /\ End(s)
        /\ UNCHANGED <<amount, split, link, crossed>>

Decline(l) ==
    /\ AtOnce
    /\ question[l] \in {"of credit", "of debit"}
    /\ \A t \in Sessions : job[t].kind = "accept" => {job[t].row, job[t].other} # Ends(l)
    /\ question' = [question EXCEPT ![l] = "answered"]
    /\ UNCHANGED <<amount, split, pair, link, job, held, todo, pend, crossed>>

(* unlink_transfer_pair.                                                   *)
BeginUnpair(s) ==
    \E p \in PairIds \ {{}} :
        LET legs == {r \in Rows : pair[r] = p}
        IN  /\ legs # {}
            /\ Begin(s, [NoJob EXCEPT !.kind = "unpair", !.at = "lock", !.seen = p], legs)

Unpair(s) ==
    /\ At(s, "unpair", "lock")
    /\ pair' = [r \in Rows |-> IF r \in held[s] THEN {} ELSE pair[r]]
    /\ End(s)
    /\ UNCHANGED <<amount, split, link, question, crossed>>

-----------------------------------------------------------------------------
(* Mutant of BeginSplit: the links are looked at without the row lock.     *)
BeginSplitUnlocked(s) ==
    \E r \in Rows :
        Begin(s, [NoJob EXCEPT !.kind = "split", !.at = "lock", !.seen = {r}], {})

(* replace_splits, from a creation or an edit.                             *)
BeginSplit(s) ==
    \E r \in Rows :
        Begin(s, [NoJob EXCEPT !.kind = "split", !.at = "lock", !.seen = {r}], {r})

(* bulk_add_to_group locks all the rows it is given in one go, and leaves  *)
(* out those that it loaded as paired or split.                            *)
BeginBulkSplit(s) ==
    \E rows \in (SUBSET Rows) \ {{}} :
        Begin(s, [NoJob EXCEPT !.kind = "split", !.at = "lock",
                               !.seen = {r \in rows : pair[r] = {} /\ r \notin split}], rows)

(* A linked row is refused, or in bulk skipped.                            *)
Split(s) ==
    /\ At(s, "split", "lock")
    /\ split' = split \cup {r \in job[s].seen : ~Linked(link, r)}
    /\ End(s)
    /\ UNCHANGED <<amount, pair, link, question, crossed>>

ClearSplits(r) ==
    /\ AtOnce
    /\ r \in split
    /\ split' = split \ {r}
    /\ UNCHANGED <<amount, pair, link, question, job, held, todo, pend, crossed>>

(* update_transaction with an amount.  The other leg of the transfer that  *)
(* was loaded follows, unless it keeps its own amount; its row is locked   *)
(* when the change is flushed.                                             *)
BeginEdit(s) ==
    \E r \in Rows, a \in Amounts :
        /\ a # amount[r]
        /\ Begin(s, [NoJob EXCEPT !.kind = "edit", !.at = "lock", !.row = r, !.amt = a,
                                  !.seen = pair[r]], {r})

Edit(s) ==
    LET r == job[s].row
        legs == {o \in Rows \ {r} : job[s].seen # {} /\ pair[o] = job[s].seen}
    IN  /\ At(s, "edit", "lock")
        /\ LinkedTotal(link, r) <= job[s].amt
        /\ \E followers \in {{}, legs} :
              /\ pend' = [pend EXCEPT ![s].amount = [q \in {r} \cup followers |-> job[s].amt]]
              /\ todo' = [todo EXCEPT ![s] = followers]
        /\ Goto(s, "write")
        /\ UNCHANGED <<tables, held, begun, crossed>>

-----------------------------------------------------------------------------
(* A sync or an import.                                                    *)
BeginSync(s) == Begin(s, [NoJob EXCEPT !.kind = "sync", !.at = "feed"], {})

(* The source reports another amount for a row; the row is loaded, and     *)
(* its UPDATE waits for whoever has locked it.                             *)
Report(s) ==
    /\ At(s, "sync", "feed")
    /\ \E r \in Rows, a \in Amounts :
          /\ r \notin DOMAIN pend[s].amount
          /\ a # amount[r]
          /\ job' = [job EXCEPT ![s].at = "take", ![s].row = r, ![s].amt = a, ![s].seen = pair[r]]
          /\ todo' = [todo EXCEPT ![s] = {r} \ held[s]]
    /\ UNCHANGED <<tables, held, pend, begun, crossed>>

(* Mutant of Fitted: the ratio upside down.                                *)
FittedUpsideDown(lk, r, capacity) ==
    LET total == LinkedTotal(lk, r)
    IN  [l \in Links |-> IF l \in LinksOf(r) /\ lk[l] > 0 /\ total > capacity
                         THEN (lk[l] * total) \div capacity
                         ELSE lk[l]]

(* Mutant of Fitted: links grow with the amount too.                       *)
FittedBothWays(lk, r, capacity) ==
    LET total == LinkedTotal(lk, r)
    IN  [l \in Links |-> IF l \in LinksOf(r) /\ lk[l] > 0 /\ total # capacity
                         THEN (lk[l] * capacity) \div total
                         ELSE lk[l]]

(* fit_links_to_amount: proportionally, rounded down, and only when the    *)
(* links no longer fit.                                                    *)
Fitted(lk, r, capacity) ==
    LET total == LinkedTotal(lk, r)
    IN  [l \in Links |-> IF l \in LinksOf(r) /\ lk[l] > 0 /\ total > capacity
                         THEN (lk[l] * capacity) \div total
                         ELSE lk[l]]

(* take_incoming_amount.                                                   *)
Take(s) ==
    LET r == job[s].row
        seen == job[s].seen
        read == Over(pend[s].link, link)
        fitted == Fitted(read, r, job[s].amt)
        dirty == {l \in Links : l \in DOMAIN pend[s].link \/ fitted[l] # read[l]}
        legs == {o \in Rows : pair[o] = seen} \ held[s]
    IN  /\ At(s, "sync", "take")
        /\ pend' = [pend EXCEPT
              ![s].amount = [q \in DOMAIN pend[s].amount \cup {r} |->
                                IF q = r THEN job[s].amt ELSE pend[s].amount[q]],
              ![s].link = [l \in dirty |-> fitted[l]],
              ![s].was = [l \in dirty |-> Over(pend[s].was, link)[l]]]
        /\ \/ /\ Goto(s, "feed")
              /\ UNCHANGED todo
           \/ /\ seen # {}
              /\ job' = [job EXCEPT ![s].at = "unpair"]
              /\ todo' = [todo EXCEPT ![s] = legs]
        /\ UNCHANGED <<tables, held, begun, crossed>>

(* Its UPDATE of both legs, on the rows that still have the pair id.       *)
TakeApart(s) ==
    LET r == job[s].row
        legs == {r} \cup {o \in held[s] : pair[o] = job[s].seen} \cup DOMAIN pend[s].pair
    IN  /\ At(s, "sync", "unpair")
        /\ pend' = [pend EXCEPT ![s].pair = [o \in legs |-> {}]]
        /\ Goto(s, "feed")
        /\ UNCHANGED <<tables, held, todo, begun, crossed>>

(* detect_transfer_pairs: the couples of its pool that name each other,    *)
(* read without a lock; each row is in one of them at most.                *)
Detect(s) ==
    /\ At(s, "sync", "feed")
    /\ \E couples \in (SUBSET Links) \ {{}} :
          /\ \A l \in couples : \A r \in Ends(l) :
                /\ Over(pend[s].pair, pair)[r] = {}
                /\ ~Linked(Over(pend[s].link, link), r)
                /\ couples \cap LinksOf(r) = {l}
          /\ job' = [job EXCEPT ![s].at = "pairing", ![s].couples = couples]
          /\ todo' = [todo EXCEPT ![s] = (UNION {Ends(l) : l \in couples}) \ held[s]]
    /\ UNCHANGED <<tables, held, pend, begun, crossed>>

(* Under their locks, the couples of which neither row is linked.          *)
PairDetected(s) ==
    LET sound == {l \in job[s].couples :
                    \A r \in Ends(l) : ~Linked(Over(pend[s].link, link), r)}
        legs == UNION {Ends(l) : l \in sound}
        old == pend[s].pair
    IN  /\ At(s, "sync", "pairing")
        /\ pend' = [pend EXCEPT ![s].pair =
              [r \in DOMAIN old \cup legs |->
                  IF r \in legs THEN Ends(CHOOSE l \in sound : r \in Ends(l)) ELSE old[r]]]
        /\ Goto(s, "write")
        /\ UNCHANGED <<tables, held, todo, begun, crossed>>

(* A pair that is not certain becomes a question, once.                    *)
Ask(l) ==
    /\ AtOnce
    /\ question[l] = "none"
    /\ \A r \in Ends(l) : pair[r] = {} /\ ~Linked(link, r)
    /\ \E q \in {"of credit", "of debit"} : question' = [question EXCEPT ![l] = q]
    /\ UNCHANGED <<amount, split, pair, link, job, held, todo, pend, crossed>>

EndFeed(s) ==
    /\ At(s, "sync", "feed")
    /\ Goto(s, "write")
    /\ UNCHANGED <<tables, held, todo, pend, begun, crossed>>

-----------------------------------------------------------------------------
(* The flush and the commit of a replace, an edit or a sync.  An UPDATE of *)
(* a link that is gone, and an INSERT of one that is there, fail.          *)
Missed(s) ==
    \E l \in DOMAIN pend[s].link :
        /\ pend[s].link[l] > 0
        /\ (pend[s].was[l] > 0) # (link[l] > 0)

(* A sync puts a link back above what another has made of it since the     *)
(* sync read it; or an edit changes the amount of the other leg of a       *)
(* transfer that has been taken apart since the edit loaded it.            *)
Crosses(s) ==
    \/ /\ job[s].kind = "sync"
       /\ \E l \in DOMAIN pend[s].link :
             pend[s].was[l] # link[l] /\ pend[s].link[l] > link[l]
    \/ /\ job[s].kind = "edit"
       /\ \E p, q \in DOMAIN pend[s].amount : p # q /\ (pair[p] = {} \/ pair[p] # pair[q])

Commit(s) ==
    /\ job[s].at = "write"
    /\ todo[s] = {}
    /\ ~Missed(s)
    /\ amount' = Over(pend[s].amount, amount)
    /\ link' = Over(pend[s].link, link)
    /\ pair' = Over(pend[s].pair, pair)
    /\ crossed' = (crossed \/ Crosses(s))
    /\ End(s)
    /\ UNCHANGED <<split, question>>

Refusal(s) ==
    /\ job[s] # NoJob
    /\ todo[s] = {}
    /\ \/ job[s].kind = "replace" /\ job[s].at = "lock" /\ ~MayReplace(job[s].row, job[s].want)
       \/ job[s].kind \in {"link", "accept"} /\ \E r \in {job[s].row, job[s].other} : Linked(link, r)
       \/ job[s].kind = "accept" /\ pair[job[s].other] # {}
       \/ /\ job[s].kind = "edit" /\ job[s].at = "lock"
          /\ LinkedTotal(link, job[s].row) > job[s].amt
       \/ job[s].at = "write" /\ Missed(s)
    /\ Fail(s)

Request(s) == \/ BeginReplace(s) \/ BeginLink(s) \/ BeginAccept(s) \/ BeginUnpair(s)
              \/ BeginSplit(s) \/ BeginBulkSplit(s) \/ BeginEdit(s) \/ BeginSync(s)

(* What the code of a request or a sync does next.                         *)
Step(s) == \/ LockNext(s) \/ Replace(s) \/ Link(s) \/ Accept(s) \/ Unpair(s) \/ Split(s) \/ Edit(s)
           \/ Take(s) \/ TakeApart(s) \/ PairDetected(s) \/ EndFeed(s)
           \/ Commit(s) \/ Refusal(s)

Next ==
    \/ \E s \in Sessions : \/ Request(s) \/ Step(s) \/ Fail(s) \/ Victim(s)
                           \/ Report(s) \/ Detect(s)
    \/ \E l \in Links : DeleteReimbursement(l) \/ Decline(l) \/ Ask(l)
    \/ \E r \in Rows : ClearSplits(r)

Spec == Init /\ [][Next]_vars

(* The code of a request runs on, a lock that is free is granted, and the  *)
(* database breaks deadlocks.                                              *)
Fairness ==
    /\ \A s \in Sessions : WF_vars(Step(s))
    /\ WF_vars(\E s \in Sessions : Victim(s))

FairSpec == Spec /\ Fairness

-----------------------------------------------------------------------------
(* No row repays, or is repaid, more than it amounts to.                   *)
(* reimbursement_service and ADR 0012 call this an invariant that every    *)
(* write path keeps.                                                       *)
LinksFit == Fits(amount, link)

(* It holds until a commit crosses another: growth is checked under the    *)
(* locks of the rows it is about, and a bank that reports less shrinks the *)
(* links (reimbursement_service.fit_links_to_amount), whatever requests    *)
(* and syncs run at once.  Two ways out are left, and they are the only    *)
(* ones: a sync that writes back a link that another sync has shrunk, and  *)
(* an edit that follows the transfer it loaded to a leg that is no part of *)
(* it any more.                                                            *)
LinksFitUncrossed == ~crossed => LinksFit

(* A linked row is neither split with a group nor half of a transfer,      *)
(* whatever splits, pairings, detections and replaces run at once.         *)
StandsAlone == \A r \in Rows : Linked(link, r) => ~Apart(r)

(* Requests whose every lock comes from one lock_rows.                     *)
Ordered(s) == job[s].kind \in Requests \ {"edit", "sync"}

(* Along a chain of waits the rows ascend past every request that locks    *)
(* with lock_rows, so no deadlock is made of those alone: each has an edit, *)
(* a sync or an import in it.                                              *)
WaitsAscend ==
    \A s, t, u \in Sessions :
        (Ordered(t) /\ WaitsFor(s, t) /\ WaitsFor(t, u)) =>
            \A p \in todo[s], q \in todo[t] :
                (\A x \in todo[s] : p <= x) => p < q

(* Until a commit crosses another, each step is one of the changes ADR     *)
(* 0012 allows, or none: a report of a bank or an edit never grows a link, *)
(* a person's replace touches one credit only, and both leave the book     *)
(* sound.                                                                  *)
Book == INSTANCE ReimbursementBook
            WITH Credits <- Credits, Expenses <- Expenses, MaxAmount <- MaxAmount,
                 amount <- amount, link <- link, apart <- {r \in Rows : Apart(r)}

KeepsTheBook ==
    /\ Book!Init
    /\ [][~crossed' => Book!Next \/ UNCHANGED <<amount, link, {r \in Rows : Apart(r)}>>]_vars

(* A row that names a transfer names one whose other leg exists: the       *)
(* comment in api/reconciliation._settle on two accepts a moment apart.    *)
PairIsMutual == \A r \in Rows : pair[r] # {} => ValidPair(pair, r)

(* Every request and sync comes to an end, whatever it waits for.          *)
RequestEnds == \A s \in Sessions : []<>(job[s].kind = "none")
=============================================================================
