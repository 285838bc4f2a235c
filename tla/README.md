# Verification of Securo's stateful core

Securo is a self-hosted personal finance application: a FastAPI backend with PostgreSQL, Redis and Celery, and a React
frontend. This directory models the parts of the backend in which several actors (HTTP requests, Celery tasks, banks, people)
change the same rows, checks the models with TLC and proves the central results with TLAPS. Paths below are relative to
`src/backend/app` unless they start with `src/`.

## 1. Inventory

| Component | State | Operations | Who meets whom | Modelled |
|---|---|---|---|---|
| Bank connection sync (`services/connection_service.py`, `tasks/sync_tasks.py`, `api/connections.py`) | one `bank_connections` row: status, erroring account, `sync_state_version`, `last_sync_at`, credentials, settings blob; its accounts | sync (request, on-demand task, hourly task), reconnect, settings save, delete | all of them on one row lock; Redis holds single-use OAuth states | ConnectionSync, ConnectionHealth |
| Pending authorizations (`services/pending_transaction_service.py`, `providers/simplefin.py`) | the `sync_metadata` keys `pending_*`, `is_ignored`, status and amount of a transaction | reconcile an observation, promote a posting; a person's edit, ignore, rule, post-today, reopen | the sync holds the connection's lock and, through an UPDATE that stamps the owner, those of the account's synced rows; a person's request loads the row without a lock and waits when it writes | PendingHold |
| Invoice numbering and lifecycle (`services/invoice_service.py`) | `invoices.status/number/series`, `invoice_settings.next_number/series` | create, import, issue, void, write off, reopen, delete, change the series | requests and the recurring job on one settings row | InvoiceNumbering |
| Recurring invoices (`services/invoice_schedule_service.py`, `tasks/invoice_schedule_tasks.py`) | `invoice_schedules` row (status, cursor, failures, calendar) and the linked periods | generate (job, button), pause, resume, end, edit, link, unlink, delete | job and button lock the row, people do not | InvoiceSchedule |
| Invoice settlement (`allocate`, `deduct`, reconciliation suggestions) | allocations and deductions of an invoice | allocate, deduct, undo, void, accept a suggestion | requests and automatic settlement, without an invoice lock | planned |
| Recurring transactions (`services/recurring_transaction_service.py`, `services/recurring_match_service.py`, `tasks/recurring_tasks.py`) | `next_occurrence` and `is_active` of a bill, the placeholder rows of its occurrences, `recurring_transaction_id` of the charges | generate pending (task, button), match by sync and file import, accept or decline a suggestion, unlink | task, button, sync and people, without a lock | RecurringGeneration |
| Sync window and import | `last_sync_at` as the cursor of every account | first connect, incomplete reads, reconnect, phantom cleanup | provider and sync | planned |
| Reimbursements (`services/reimbursement_service.py`, `services/transaction_match_service.py`) | links between a credit and expenses, within the amounts of both | replace, delete, fit to a changed amount | people and sync under row locks | Reimbursements, ReimbursementBook |
| Transactions, transfers, splits (`services/transaction_service.py`, `transfer_detection_service.py`, `split_service.py`, `api/reconciliation.py`) | `transfer_pair_id`, group splits, transfer suggestions | pair by hand, by detection or by an accepted suggestion, unpair, split, clear splits, edit an amount | requests and sync on the rows' locks | Reimbursements (as far as links are concerned); rules, categories and heuristics are not |
| Reconciliation engine, file import, balances, budgets, dashboards, reports, groups | derived | parse, score, aggregate | | no: sequential or read-only |
| Assets, lots, timelines; owned transfers and on-chain history | movements, lots, holdings | replay, import, trace | writers take `NOWAIT` locks | no, a candidate later |
| Providers, authentication, agents, MCP, documents, frontend, deployment | external | | | no: input and output |

What is hard about it, in one list: waits for a row lock after a row was read (and what the ORM session then believes); work
that must vanish with a savepoint while the lock stays; verdicts written after the lock is lost; cached and incomplete bank
observations; a failure recorded in another transaction than the one that failed; people who edit between the read and the
write of a task; counters and cursors that must neither skip nor repeat. `PROJECT.json` lists each of these hazards at its line.

What makes each component correct:

- a sync, reconnect, save or delete of one connection acts as one step, and a late verdict never describes a row it has not read;
- a hold is retired only on earned evidence, the bank's return undoes it, and a row a person took is not the sync's any more;
- the counter of a workspace skips no number, and a number is never reused and never taken back;
- a period of an agreement is billed once, none is dropped by a run, nothing is billed under an agreement that was stopped, and
  no due period is retried for ever;
- reimbursement links stay within the amounts of the rows they touch, and no linked row is half of a transfer or split with a group;
- the cursor of a bill leaves no occurrence without a row, passes none that has not come, and an occurrence and a purchase are counted once.

## 2. Modules

Each database session is a record with a program counter; the committed row is a variable; what a session read before, and what
it has in memory, are fields of its record. One action is one stretch of code between two points where other sessions can come
in: a lock wait, a provider call, a flush, a commit. The database is PostgreSQL at READ COMMITTED, its default, which `core/database.py` leaves
alone: a `SELECT ... FOR UPDATE` or `UPDATE` waits for the row and then sees the newest committed version.

**ConnectionSync** follows `sync_connection`: `SyncLock` is `get_connection(for_update=True, populate_existing)`, `SyncRefresh` /
`SyncNeedsUser` the provider refresh and its early commit, `SyncReadAccounts` and `SyncImport` the account loop inside the
savepoint, `SyncCommit` the final status, `SyncFail` the rollback to the savepoint that keeps the lock, `SyncCommitFails` and
`SyncRefreshFails` the failures that lose it, `StampFailure` the conditional UPDATE of `_set_sync_status_if_current`.
`RequestReconnect`/`ReconnectLock`/`ReconnectCommit`, `Save...` and `Delete...` are the other handlers, `LockTimeout` their bounded wait,
`SelectForSync` the unlocked selection of the hourly task, `Crash` a dying process.

**ConnectionHealth** is the abstract connection: one variable `row`, one action per operation (`Synced`, `NeedsUser`, `Rejected`,
`Throttled`, `Failed`, `Reconnected`, `Saved`, `Deleted`), each in a single step. ConnectionSync implements it
(`Abstract == INSTANCE ConnectionHealth`, `ActsAtomically`): sessions, locks, savepoint and version test disappear.

**PendingHold** has the bank (`BankMoves`), the bridge's cache (`BridgePulls`), the sync in the order of the code (`SyncFetch`,
`SyncReconcile`, `SyncPersist` with its compare-and-swap, `SyncLook`, `SyncApply`, `SyncCommit`, `SyncAborts`) and a person whose
request loads the row (`UserLoad`) and writes it (`UserCommit`). `Verdict` is `reconcile_pending`'s decision table. `SyncFetch` begins with the
UPDATE of every synced row of the account (`connection_service.py:3530-3537`), which holds the row's lock until the sync commits or
aborts: a person may have loaded the row at any time before, but `UserCommit` waits.

**InvoiceNumbering** has requests in three steps, `Read`, `Lock`, `Commit`, and `ChangeSeries`. `held` is the settings object of the
session: `_settings_for_update` waits for the row but, having no `populate_existing`, leaves an already loaded object as it was, so
`Lock` does not change `held`. The history variable `overtaken` records that a request wrote on a row that had changed since it read it,
and `lost` the numbers that such a write took off an invoice.

**InvoiceSchedule** has runs of `generate_due` by the job and by the button (`RunStart`, `RunLock` with the refresh of all columns but
the failure count, `RunPeriod` for each turn of the loop, `RunFails`, `RunCommit`, `RunRecord` for the job's failure record after its
rollback, `RunDies`) and people's requests (`Request`, `Commit`; `Allowed` and `Wanted` hold what each operation refuses and does).
`Merged` is what an UPDATE of changed columns makes of a row that moved meanwhile; `Stored` and `Consistent` are the table's constraints.

**Reimbursements** has sessions that work on rows of transactions under the rows' locks. A request (`replace`, `link`, `accept`, `split`, `unpair`,
`edit`) begins with what the code loads without a lock (`BeginReplace`, `BeginLink`, ...), takes its locks one row at a time (`LockNext`,
in the order of the ids, as `lock_rows` does), decides on what is committed by then (`Replace`, `Link`, `Accept`, `Split`, `Unpair`, `Edit`)
and commits. A sync takes amounts in the order of its source (`Report`, `Take`, `TakeApart`), keeps each row lock to its commit and then looks
for transfers (`Detect`, which agrees on several couples at once, and `PairDetected`). A split locks one row or, in bulk, several (`BeginSplit`, `BeginBulkSplit`).
The history variable `crossed` records a commit that wrote over what it had not looked at (`Crosses`): a sync that puts a link back above what another session made of it, or
an edit that changes the other leg of a transfer taken apart meanwhile. What a session has written and not committed is its `pend`; `Over(w, f)` is a table as that session
sees it. `Fitted` is `fit_links_to_amount`, `Missed` what makes a flush fail, `Victim` the database's answer to a deadlock. Requests of a
single statement are single actions (`DeleteReimbursement`, `ClearSplits`, `Decline`, `Ask`).

**ReimbursementBook** is what `docs/adr` 0012 promises of the links, each change in one step: a person rebooks one credit (`Rebook`) or
drops a link (`Drop`), a bank's report only shrinks links (`Report`), arranging rows changes no link (`Arrange`), and every state is `Sound`.
Until a commit crosses another, Reimbursements implements it (`Book == INSTANCE ReimbursementBook WITH ...`, `KeepsTheBook`): locks, stale reads and pending writes disappear.

**RecurringGeneration** has one bill, its cursor, the number of placeholders of each occurrence and the charges that are rows. A session holds
what it loaded (`read`), where it stands (`at`) and its writes. `BeginRun` is the query of `generate_pending`, `Materialize` one
round of its loop, `CommitRun` its commit; `BeginImport`, `Bring` (with `Merge`, `Link` and `WriteUnlinked`) and `CommitImport` are a sync or a file
import, with the matching of `recurring_match_service`; `BeginAccept` loads the bill for an accepted suggestion and `CommitAccept` writes it, `Decline` and `Unlink` are single
statements of a person. Nobody locks the bill when it loads it, so a commit writes the cursor over whatever another session has written; the lock that a flushed write takes on the bill
until the commit is left out, which allows more interleavings than there are. `overtaken` records that a session committed after another one had committed during its work,
and `astray` the charges that became the row of another occurrence's placeholder.
Sync's transaction row and the connection of ConnectionSync are not shared with this module: a sync is here what it does to one bill.

The definitions whose comment says "Mutant of ..." are not part of the specification: each is a plausible slip of the code next to
the definition it would replace, kept to show that a property notices it. `PROJECT.json` says which property notices which.

## 3. Runs

| Run | What it asks | Size |
|---|---|---|
| `connection_sync` | lock isolation, the meaning of the version, the user's work, the diagnosis, late failures, the refinement of ConnectionHealth; every sync ends, every mutation is answered | 2 sessions, 2 operations, 1 account, clock 0-1, 121 thousand states |
| `busy_callback` (violation) | a callback told to try again can be sent again | 2 operations |
| `pending_hold` | earned retirement, owners of an ignore, a person's row is the person's, the audit trail, postings seen | 5 days, 3 requests, 1.7 million states |
| `posted_return_stays_ignored` (violation) | a posted return restores an ignore that only sync owns | 5 days, 2 requests |
| `invoice_numbering` | no number skipped whatever overlaps; unique and permanent numbers while no request is overtaken | 3 invoices, 2 sessions, 1 series and NULL, 4.4 million states under symmetry |
| `invoice_number_reused` (violation) | two invoices of a series never share a number | 2 invoices, 2 sessions |
| `invoice_schedule` | billed once, nothing skipped, billed under the agreement in force, ended is terminal, no period due for ever | job and 1 person, 3 days, 4 periods, 2 requests, 1 crash |
| `pause_undone` (violation) | the job never makes a paused agreement active | 1 request |
| `reimbursements` | links fit until a commit crosses another, linked rows stand alone, `lock_rows` never deadlocks with itself, the refinement of ReimbursementBook, every request ends | 2 credits, 1 expense, amounts 1-2, 2 sessions (both may sync), 3 requests of 7 kinds, 0.7 million states |
| `two_syncs_overbook` (violation) | links fit, whatever happens | 1 credit, 1 expense, amounts 1-3, 2 syncs |
| `recurring_generation` | no occurrence skipped or passed before its time, one row each, no purchase doubled but a stray one, due is written | 2 occurrences 3 days apart, 6 days, task, button, import and a person, 0.9 million states |
| `weekly_bill_doubles` (violation) | no purchase is doubled, however often the bill repeats | the same without button and person |

Why the bounds are enough. Two sessions are needed for a race, and two operations let a late
verdict meet a row that another session has changed; the theorems of section 4 cover any number. One account is enough to be created in a
failing import and then be blamed for it; accounts do not interact. The clock only tells an unchanged `last_sync_at` from a new one.
In PendingHold the grace of two days is the code's; the minimum age of seven days is scaled to one, since the code compares it once and
nothing happens in between; five days hold two absences a grace apart, a return and a third absence. In InvoiceNumbering the third
invoice makes a gap between two numbers possible; one series and NULL are the two cases the unique constraint tells apart. In
InvoiceSchedule a day is a period, because the code only ever compares a period's start with today; two failures stand for the three
that pause an agreement, and two periods a run for the twelve, so that both limits are reached.

In Reimbursements two credits on one expense are the smallest set in which a link's capacity depends on another credit and in which three rows can be locked in
different orders; three requests let one commit between the read and the commit of another and a third act on the outcome. Both sessions may sync, so one of the two crossings happens in the
run; the other, the edit of a leg left behind, takes four requests and is within the theorems but not within the run. `MCSpec` starts the
credits at the largest amount: a smaller one is reached by an edit or a report. Amounts of two make a proportional fit round down.
In RecurringGeneration the first occurrence has a successor, the second has none, so the step between two occurrences and the end of a bill both
happen; a run may find both due at once. The windows keep the geometry of a weekly bill (2 days early, 2 late, 5 days either side of a placeholder, 7 days apart) at a smaller scale (1, 1, 2 and 3):
windows of neighbouring occurrences are disjoint, and a charge may be as near to the placeholder before its own as `Reach`. A bill with more room between its occurrences has fewer behaviours of
that kind; the theorems cover every period.

The runs whose operations, requests or clock are bounded set `CHECK_DEADLOCK FALSE`: their states without a successor are those
where the bound is used up. InvoiceNumbering has no such bound and is checked for deadlock.

Fairness. `connection_sync`: a session that can step does (provider calls and statements end, they have timeouts), and the waiters
of a row lock are served in turn, so a wait that keeps being possible ends (strong fairness on the lock steps); nothing is assumed
of requests, crashes or the clock. `invoice_schedule`: Celery beat starts the job every hour (`worker.py`), the lock is granted in turn, and
a run that holds it goes on; whether an emission succeeds or fails is free, and nothing is assumed of people. `reimbursements`: a request that can step
does, and the database breaks a deadlock (PostgreSQL's `deadlock_timeout`); that a sync reports, or pairs, is not assumed. `recurring_generation`: the hourly
task begins, goes on and commits; nothing is assumed of the button, of imports, of people or of the days.

### Disagreements between the code and its text

1. `busy_callback`: a reconnect callback consumes its OAuth state before it waits for the row lock, so the retry it is advised to make is
   rejected.
2. `posted_return_stays_ignored`: post-today on a retired hold does not claim it, and sync looks at pending rows only, so the posted
   purchase stays ignored.
3. `invoice_number_reused`: the counter is locked but not read again; two invoices issued at once get one number, and with the default NULL
   series the unique constraint does not object.
4. `pause_undone`: the failure record writes back a status read before the rollback and undoes a pause committed in between.
5. `two_syncs_overbook`: ADR 0012 (`src/docs/adr/0012-a-reimbursement-is-booked-against-the-expense-it-repays.md:23`) and `reimbursement_service.py:5-9` call it an invariant of every write path that a row's links add up to no more than its amount.
   `fit_links_to_amount` locks the row whose amount changed and not the row at the other end, and writes absolute amounts: two syncs that lower both ends of a link read the same
   old link, and the later commit exceeds what the other row needed. `LinksFitUncrossed` and `KeepsTheBook` say that this and the stale edit told below are the only two ways out.
6. `weekly_bill_doubles`: `reconciliation_policy.py:233-238` and `recurring_match_service.py:197-199` say that a placeholder has no neighbour to be confused with, "regardless of how often the bill
   repeats". For a weekly bill, whose own window narrows to two days, the placeholder's stays five days either side: a charge two days early takes the unfulfilled placeholder of the week before, and its
   own occurrence is written beside it. `OnlyStraysDouble` says that nothing else counts a purchase twice as long as no session is overtaken.

A seventh has no run of its own: `models/invoice.py:215` calls the numbers "gapless within a series", but a workspace has one counter for all its series. A series that is left and taken up again by `ChangeSeries` lacks the numbers
that the series in between has used. `Gapless` is about the counter, which is what the code keeps; it is not the sentence of the model's comment.

Seen while modelling and not made into runs: linking an invoice to a period after the cursor moves the cursor past unbilled periods; two
resumes of an agreement paused for failures drop the overdue period, because the second one sees no pause reason; a failure record that
breaks the ended-fields constraint ends the task for the agreements after it.

Seen with Reimbursements and kept as a configuration, not as a run:

- `MCReimbursementsPairedTwice.cfg` (module Reimbursements, invariant `PairIsMutual`, violated). The comment in `_settle` (`api/reconciliation.py:515-523`) locks both
  rows so that two accepts a moment apart do not "leave the loser's other leg carrying a pair id with nothing on the far end". The suggestion's own
  transaction is loaded with the suggestion, the `FOR UPDATE` at line 524 has no `populate_existing`, and line 541 tests the pair id read before the
  wait: of two questions about one row, the second accept pairs it again.

Seen while proving `LinksFitUncrossed`, beyond what three requests reach: `update_transaction` looks at the links of the edited row alone
(`ensure_update_keeps_links`, `reimbursement_service.py:491-529`), then follows the pair id it has loaded to the other leg and changes that amount too
(`transaction_service.py:1635-1675`). It is safe as long as both legs name the pair, since a paired row has no links. Two pairings of one row at a time (`MCReimbursementsPairedTwice.cfg`)
leave a leg behind that names the old pair, counts as unpaired and can be linked; an edit that loaded the old id lowers its amount below the link that a replace has just committed. TLC finds it
with two `link` requests, an edit and a replace.

Seen with RecurringGeneration, where no text of the repository denies it: two overlapping runs of `generate_pending` write an occurrence twice (`worker.py:28` calls it
idempotent, which it is from tick to tick), so `OneRowEach` and `OnlyStraysDouble` are stated for sessions that are not overtaken; and accepting a recurring suggestion after its
occurrence was generated moves the bill past the next occurrence and leaves the placeholder.

## 4. Proofs

`ConnectionSyncProofs` proves, for any number of sessions, accounts and operations, the type invariant, every safety invariant and
action property of the run but the liveness, and the refinement (`Implements`). The inductive invariant `IInv` is the conjunction of the run's
seven invariants; the proof reads it per session, as what the holder of the lock (`Holder`) and a session that lost it (`Loser`) know. None of the properties is inductive alone: that a late failure is dropped needs that an equal version means equal health, which needs
that no session writes a row another one holds, which needs the isolation. Two lemmas carry most steps: `KeepsRow`
(a step of one session that leaves the committed row) and `CommitsRow` (one that commits and frees the lock). The refinement maps a
step to the abstract operation it commits, or to a stutter; it also needs `WorkIsTimely`, that a sync stamps nothing later than the clock.

`InvoiceNumberingProofs` proves all four properties, for any number of invoices, sessions and series. `Gapless` holds with every overlap: a request may bring back an old counter, but whatever counter a
session has loaded, the numbers below it are in use or were until a stale request took one off its invoice (`HeldIsCovered`). The rest of the invariant is that a pending request was allowed on what it read, that a
request that creates an invoice keeps it to itself (`CreatesFresh`), and that, while nothing was overtaken, drafts have no number (`DraftsUnnumbered`).

`ReimbursementsProofs` proves `StandsAlone` and `WaitsAscend` for any number of rows, sessions and requests. The inductive invariant says who may have which lock: two sessions never
hold one row, a session at its decision holds every row it decides about, and a pending write is of rows the session still holds, unlinked when it pairs them and
unpaired and unsplit when it links them. From it, a commit that links and a commit that pairs or splits exclude each other.
`NoDeadlockOfRequests` draws the conclusion from `WaitsAscend`: however many sessions wait for each other in a circle, one of them is an edit, a sync or an import (there would be a last row
that is waited for, and who holds it waits for a later one).

`ReimbursementAmountsProofs` proves the type invariant, `LinksFitUncrossed` and `KeepsTheBook` for any number of rows, amounts, sessions, syncs and requests, without a hypothesis. A sum over a set of links is a fold, about which
the library's induction theorems could not be used (they take an operator as a parameter); what a fold does with an element more or less (`TotalUnfolds`, `TotalWithout`), that it grows with its
terms (`TotalGrows`) and scales with them (`TotalScales`) is proved from the finite sets' own well-foundedness: among the subsets that would be an exception there is a smallest one (`SmallestSubset`). So
`FittedFits` follows: links scaled to `capacity * link \div total`, each rounded down, sum to the capacity at most.
`UncrossedInv` is the inductive invariant: `FitInv` until a commit crosses another. Beside `LinksFit` it holds what each session is about to commit to its own promise (`Kept`): a replace fits every row it has locked against what is committed now,
and grows no link of any other (`ReplaceFits`); a sync has fitted each row it takes an amount of, in its own view of the links (`SyncFits`), and makes no link larger than it read it (`SyncShrinks`); an edit fits the row it is of (`EditFits`); another row
it writes is unlinked if it is still the other leg of the pair, and otherwise the commit crosses. A commit of one session then leaves the promises of all others, because whoever grows a link has locked both its ends (`CommitEffect`, `OthersKept`).
A commit that does cross another sets `crossed`, after which nothing is claimed: the theorems say which two steps break ADR 0012's invariant, and that no other does. The refinement maps the commit of a replace to
`Rebook`, of a sync to `Report`, of an edit and every step that changes no link to `Arrange`, a deletion to `Drop`; that the book stays `Sound` is `LinksFit` with `StandsAlone`, an unlinked row's total being zero.

`RecurringGenerationProofs` proves the type invariant and `NothingIsSkipped` for any bill, period, windows and number of runs and people, with every overlap. The cursor that a stale session writes back
is safe because of `BeforeCursorsAccounted`: every occurrence before the bill's cursor, or before the one any session has loaded, has a row or was settled by
hand, and that is stable since no commit takes the last row of an occurrence away without giving it another (`RunsBindRows`, `ImportBringsNew`, `PeopleBindAsked`) or a person's hand in it; `WritesWhatItPasses`
adds the occurrences the session has gone over itself.

`RecurringOnceProofs` proves the other three. `PassesWhatHappened` needs only that a run has gone over due occurrences, an import over charges that are posted and a person over what is
settled by hand (`HappenedInv`). `OneRowEach` and `OnlyStraysDouble` speak of states in which nothing was overtaken; there `OnceInv` says that an occurrence has one place at most among the placeholders, the
bound charges and the uncommitted writes of the open sessions, and that nothing is written at the cursor or after it. `OnlyStraysDouble` adds that a charge that is written while its own
placeholder stands takes that one or is astray (`TakesItsPlaceholder`: of two placeholders the nearest is taken, which need not be its own), and that a run writes no placeholder for an occurrence whose charge is a row, since such
a charge would be in the bill's window and unlinked (`NotPlacedBeside`). Both hold for any period, windows and reach.

`PendingHoldProofs` proves all six properties of PendingHold, for any grace, age, freshness and number of days and requests. The sync has the row's lock from its first statement on, so
while it works the committed row is the one it began with (`SyncHoldsRow`); `OwnershipSticks` rests on that. The rest follows the sync's belief: when it persists, the verdict is that of the row it
read (`VerdictIsCurrent`); what it has written and not committed is justified on the row as it stands (`WorkIsJustified`); the day its streak started is one that a sync committed (`StreakIsCounted`); a row
that a request loaded as posted is posted still (`LoadedStaysPosted`).

`InvoiceScheduleProofs` proves the type invariant and the four action properties of InvoiceSchedule, for any number of persons, days, periods and dying runs. The inductive
invariant is that only the run that emits or commits holds the row lock (`LockIsRun`) and what such a run knows (`RunKnows`): the row is, but for the failure count, the one it refreshed, and
each period between the row's cursor and its own is answered or made by it. `NeverBilledAgain` also needs that the cursor stays past what runs emitted while no request was
overtaken (`EmittedIsPast`), and `EndedIsTerminal` the table's constraint (`RowIsConsistent`) and that no decision takes an end back (`DecisionsSound`).

The proofs assume what each module says of its constants (`ConstantsAssumption`, `NumberingAssumption`, `ReimbursementAssumption`, `RecurringAssumption`, `HoldAssumption`,
`ScheduleAssumption`): the bounds are naturals, NULL is no session, account, series, number or day, ids of credits and expenses are disjoint and finitely many, the windows are narrower than the
period, the task or job is among the runs or apart from the persons, and InvoiceSchedule's calendar holds the first days and periods that Init and the requests name. TLC evaluates them all in the runs.

Only model-checked: liveness (`SyncEnds`, `MutationEnds`, `DueIsBilledOrStopped`, `RequestEnds`, `DueIsWritten`), since fairness and ENABLED are beyond the prover, and of course the
disagreements, which are refutations. Every invariant and every action property of a passing run, and both refinements, are theorems.

## 5. What is abstracted, and what is not modelled

Amounts, names, currencies, terms, texts and provider formats are left out unless a property tells them apart. The import's matching of
transactions is reduced to the exact-id branch. Frequencies other than "a period a day" and the `on_date` end, which like
`after_count` is a last period, are left out of InvoiceSchedule; month arithmetic is not modelled. `PROJECT.json` lists every component left out
with its reason.

Not modelled of Reimbursements: currencies and dates, which only make rows ineligible; rows that come and go; the counterpart row that a transfer can create; links that move with their
account; what the shares of a split add up to. Not modelled of RecurringGeneration: weekends, several bills and amounts or descriptions that tell them apart, edits of the
schedule, a bill switched off by hand, deleting a placeholder, failing sessions (which leave nothing).

## 6. Plan

1. `InvoiceSettlement`: allocations, deductions, voids and suggestions of one invoice; never settled beyond its total, never settled
   while void. It composes with InvoiceNumbering through the invoice's status.
2. `SyncWindow`: the shared `last_sync_at`, incomplete reads, accounts that join late, are unchecked and checked again or closed and reopened, first connect and reconnect. An
   account that every complete sync has read leaves no row behind its window, as long as a row is exposed no later after its date than the rewind allows; the overlap of 45
   days that `providers/simplefin.py:543` gives for rows exposed "weeks after their posted date" counts from today and not from the last sync, so it does not reach a row exposed
   late when the next complete sync is weeks away. It refines the import step of ConnectionSync.
3. Later: schedule edits of a bill, and month arithmetic against a reference definition; lots of tax calculation over bounded movements; the on-chain history's NOWAIT locks.
4. Proofs: an abstract agreement (each period billed at most once) that InvoiceSchedule implements, and an abstract counter that InvoiceNumbering implements while nothing is overtaken.

Parse, check and prove from this directory: `tlc -config MCConnectionSync.cfg ConnectionSync`, `tlapm ConnectionSyncProofs.tla`; `PROJECT.json`
names the module and the configuration of every run.
