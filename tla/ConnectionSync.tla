--------------------------- MODULE ConnectionSync ---------------------------
(***************************************************************************)
(* One bank connection and the database sessions that work on it.          *)
(*                                                                         *)
(* A bank connection is one row of bank_connections.  Requests and Celery  *)
(* tasks reach it from independent sessions: manual, on-demand and         *)
(* scheduled syncs, reconnects, settings saves and deletes.  All of them   *)
(* take the row lock; the transaction of the holder is the only one with   *)
(* uncommitted work.  A sync works inside a savepoint, so that a failure   *)
(* undoes the import and keeps the lock; a failure after the commit has no *)
(* savepoint and loses the lock, and there the column sync_state_version   *)
(* decides whether its verdict still describes the row.                    *)
(*                                                                         *)
(* PostgreSQL at READ COMMITTED: row is the committed row, work[s] is what *)
(* session s has written and not committed, snap[s] is what it read.       *)
(***************************************************************************)
EXTENDS Naturals, FiniteSets

CONSTANTS
    Sessions,         \* request handlers and Celery tasks
    Accounts,         \* the provider's accounts behind this connection
    None,             \* SQL NULL, and "nobody" as the lock holder
    MaxOps,           \* bound: how many requests and tasks are started
    MaxClock,         \* bound: how far the clock runs
    SyncInterval,     \* bank_sync_min_interval_hours, in ticks
    RefreshThreshold  \* PROVIDER_REFRESH_THRESHOLD, in ticks

ASSUME ConstantsAssumption ==
    /\ MaxOps \in Nat
    /\ MaxClock \in Nat
    /\ SyncInterval \in Nat
    /\ RefreshThreshold \in Nat
    /\ None \notin Nat
    /\ None \notin Sessions
    /\ None \notin Accounts

VARIABLES
    row,      \* the committed row
    lock,     \* the session whose transaction holds the row lock, or None
    ses,      \* what each session is doing, a record of Session
    clock,
    started,  \* requests and tasks started so far
    saves,    \* history: settings saves committed
    relinks   \* history: reconnects committed

history == <<saves, relinks>>
vars == <<row, lock, ses, clock, started, history>>

Times == 0 .. MaxClock
Status == {"active", "error", "sync_error", "expired"}
CredentialProblem == {"error", "expired"}
Selectable == {"active", "error", "sync_error"}
FailKind == {"expired", "action", "limited", "generic"}

(* Where the session is inside its handler.  *)
SyncLocked == {"begun", "reading", "import"}
MutationLocked == {"recon", "editing", "deleting"}
Waiting == {"syncWait", "reconWait", "editWait", "delWait"}
Bounded == {"reconWait", "delWait"}
PCs == {"idle", "committed", "failed"} \cup Waiting \cup SyncLocked
         \cup MutationLocked

(* The row.  edit, refresh and observed are the keys of the settings blob: *)
(* what the user saved, last_provider_refresh_at, and what a sync records  *)
(* of the provider's accounts and balances.  accts are the account rows    *)
(* linked to the connection.                                               *)
Rows == [live: BOOLEAN, status: Status, err: Accounts \cup {None},
         version: Nat, lastSync: Times \cup {None}, creds: Nat,
         edit: Nat, refresh: Times \cup {None},
         observed: Times \cup {None}, accts: SUBSET Accounts]

Health(r) == <<r.status, r.err, r.version, r.lastSync, r.creds>>
Blob(r) == <<r.edit, r.refresh, r.observed>>

FreshRow(last, accts) ==
    [live |-> TRUE, status |-> IF last = None THEN "sync_error" ELSE "active",
     err |-> None, version |-> 0, lastSync |-> last, creds |-> 0, edit |-> 0,
     refresh |-> None, observed |-> None, accts |-> accts]

(* A session.  snap is the row as it was read under the lock (sync_start_* *)
(* and conn_settings), work the row with the uncommitted writes; trigger,  *)
(* todo and cur are the sync's trigger_provider_refresh, the accounts it   *)
(* has still to import and syncing_account_id; fail is the failure being   *)
(* handled; spent says that the callback consumed a single-use OAuth       *)
(* state, and busy that the last request was told to try again.            *)
Session == [pc: PCs, snap: Rows, work: Rows, trigger: BOOLEAN,
            todo: SUBSET Accounts, cur: Accounts \cup {None},
            fail: FailKind, spent: BOOLEAN, busy: BOOLEAN]

Idle ==
    [pc |-> "idle", snap |-> FreshRow(None, {}), work |-> FreshRow(None, {}),
     trigger |-> FALSE, todo |-> {}, cur |-> None, fail |-> "generic",
     spent |-> FALSE, busy |-> FALSE]

(* A connection as handle_oauth_callback commits it: the first import has  *)
(* run, and last_sync_at is set unless an account's balance was missing.   *)
Init ==
    /\ \E last \in Times \cup {None}, accts \in SUBSET Accounts :
          /\ last # None => last = 0
          /\ row = FreshRow(last, accts)
    /\ lock = None
    /\ ses = [s \in Sessions |-> Idle]
    /\ clock = 0
    /\ started = 0
    /\ saves = 0
    /\ relinks = 0

-----------------------------------------------------------------------------
(* Steps shared by the handlers.                                           *)

(* A request or task starts; ops is the bound on how many do.  *)
Start(s, pc, trigger, sp) ==
    /\ ses[s].pc = "idle"
    /\ started < MaxOps
    /\ started' = started + 1
    /\ ses' = [ses EXCEPT ![s] = [Idle EXCEPT !.pc = pc, !.trigger = trigger,
                                            !.spent = sp]]
    /\ UNCHANGED <<row, lock, clock, history>>

Put(s, st) == ses' = [ses EXCEPT ![s] = st]

(* The handler returns or raises: its session closes. *)
Finish(s) == Put(s, Idle)

(* Mutant of ReadForUpdate: a plain SELECT, which does not wait.  *)
ReadUnlocked(s, from, to) ==
    /\ ses[s].pc = from
    /\ row.live
    /\ lock' = s
    /\ Put(s, [ses[s] EXCEPT !.pc = to, !.snap = row, !.work = row])
    /\ UNCHANGED <<row, clock, started, history>>

(* Mutant of ReadForUpdate: without populate_existing the session keeps    *)
(* the attributes it loaded before it waited.                              *)
ReadCached(s, from, to) ==
    /\ ses[s].pc = from
    /\ lock = None
    /\ row.live
    /\ lock' = s
    /\ Put(s, [ses[s] EXCEPT !.pc = to])
    /\ UNCHANGED <<row, clock, started, history>>

(* get_connection(for_update=True) with populate_existing: wait for the     *)
(* row lock, then read the committed row.  A deleted row is not found and   *)
(* locks nothing.                                                          *)
ReadForUpdate(s, from, to) ==
    /\ ses[s].pc = from
    /\ lock = None
    /\ IF row.live
       THEN /\ lock' = s
            /\ Put(s, [ses[s] EXCEPT !.pc = to, !.snap = row, !.work = row])
       ELSE /\ lock' = lock
            /\ Finish(s)
    /\ UNCHANGED <<row, clock, started, history>>

(* _get_connection_for_mutation: lock_timeout runs out while another       *)
(* transaction holds the row; the request is told to try again.            *)
LockTimeout(s) ==
    /\ ses[s].pc \in Bounded
    /\ lock # None
    /\ Put(s, [Idle EXCEPT !.busy = TRUE, !.spent = ses[s].spent])
    /\ UNCHANGED <<row, lock, clock, started, history>>

(* Mutant of RollBack: the transaction is left open.  *)
RollBackForgotten(s) ==
    /\ Finish(s)
    /\ UNCHANGED <<row, lock, clock, started, history>>

(* The holder's transaction ends without committing.  *)
RollBack(s) ==
    /\ lock' = None
    /\ Finish(s)
    /\ UNCHANGED <<row, clock, started, history>>

-----------------------------------------------------------------------------
(* sync_connection                                                         *)

(* POST /connections/{id}/sync triggers a provider refresh; the on-demand  *)
(* Celery task does not.                                                   *)
RequestSync(s) == \E t \in BOOLEAN : Start(s, "syncWait", t, FALSE)

Stale == row.lastSync # None => clock - row.lastSync > SyncInterval

(* _should_trigger_provider_refresh *)
RefreshDue == row.refresh # None => clock - row.refresh >= RefreshThreshold

(* The hourly task reads the stale connections, without a lock, and then   *)
(* syncs them one by one: neither the staleness, nor the status, nor the   *)
(* refresh decision is looked at again.                                    *)
SelectForSync(s) ==
    /\ row.live
    /\ row.status \in Selectable
    /\ Stale
    /\ Start(s, "syncWait", RefreshDue, FALSE)

SyncLock(s) == ReadForUpdate(s, "syncWait", "begun")

(* ProviderNotConfiguredError, raised before the savepoint: a               *)
(* misconfigured server says nothing of the connection's health.           *)
SyncUnconfigured(s) ==
    /\ ses[s].pc = "begun"
    /\ RollBack(s)

(* The provider is asked to pull from the bank, or not.  *)
RefreshedAt(s) ==
    [ses[s].work EXCEPT !.refresh = IF ses[s].trigger THEN clock ELSE @]

SyncRefresh(s) ==
    /\ ses[s].pc = "begun"
    /\ Put(s, [ses[s] EXCEPT !.pc = "reading", !.work = RefreshedAt(s)])
    /\ UNCHANGED <<row, lock, clock, started, history>>

(* The provider wants the user first: that verdict and the refresh time    *)
(* are committed, and the exception passes the handlers untouched.         *)
SyncNeedsUser(s) ==
    /\ ses[s].pc = "begun"
    /\ ses[s].trigger
    /\ row' = [RefreshedAt(s) EXCEPT !.status = "error", !.err = None,
                                     !.version = @ + 1]
    /\ lock' = None
    /\ Finish(s)
    /\ UNCHANGED <<clock, started, history>>

(* get_accounts, _record_seen_accounts and _syncable_accounts. *)
SyncReadAccounts(s) ==
    /\ ses[s].pc = "reading"
    /\ \E accts \in SUBSET Accounts :
          Put(s, [ses[s] EXCEPT !.pc = "import", !.work.observed = clock,
                                !.todo = accts])
    /\ UNCHANGED <<row, lock, clock, started, history>>

(* One turn of the account loop: the account row is found or created and   *)
(* becomes the one a failure is attributed to.  An account that is new and *)
(* has no balance is passed over.                                          *)
SyncImport(s) ==
    /\ ses[s].pc = "import"
    /\ \E a \in ses[s].todo :
          \/ Put(s, [ses[s] EXCEPT !.work.accts = @ \cup {a}, !.cur = a,
                                   !.todo = @ \ {a}])
          \/ /\ a \notin ses[s].work.accts
             /\ Put(s, [ses[s] EXCEPT !.cur = None, !.todo = @ \ {a}])
    /\ UNCHANGED <<row, lock, clock, started, history>>

(* The status a sync that read the provider ends with.  *)
Outcome(actionRequired, incompleteBalances) ==
    CASE actionRequired -> "error"
      [] ~actionRequired /\ incompleteBalances -> "sync_error"
      [] OTHER -> "active"

(* Mutant of SyncCommit: last_sync_at moves whatever was missing.  *)
SyncCommitAdvances(s) ==
    /\ ses[s].pc = "import"
    /\ ses[s].todo = {}
    /\ \E actionRequired, incompleteBalances \in BOOLEAN :
          row' = [ses[s].work EXCEPT
                    !.lastSync = clock,
                    !.status = Outcome(actionRequired, incompleteBalances),
                    !.err = None,
                    !.version = @ + 1]
    /\ lock' = None
    /\ Put(s, [ses[s] EXCEPT !.pc = "committed", !.cur = None])
    /\ UNCHANGED <<clock, started, history>>

(* The work of the sync is committed.  last_sync_at moves only if every    *)
(* account was fetched in full with its balance.                           *)
SyncCommit(s) ==
    /\ ses[s].pc = "import"
    /\ ses[s].todo = {}
    /\ \E actionRequired, incompleteBalances, incompleteFetch \in BOOLEAN :
          row' = [ses[s].work EXCEPT
                    !.lastSync = IF incompleteBalances \/ incompleteFetch
                                 THEN @ ELSE clock,
                    !.status = Outcome(actionRequired, incompleteBalances),
                    !.err = None,
                    !.version = @ + 1]
    /\ lock' = None
    /\ Put(s, [ses[s] EXCEPT !.pc = "committed", !.cur = None])
    /\ UNCHANGED <<clock, started, history>>

(* session.refresh(connection) after the commit, and the answer.  *)
SyncDone(s) ==
    /\ ses[s].pc = "committed"
    /\ row.live
    /\ Finish(s)
    /\ UNCHANGED <<row, lock, clock, started, history>>

(* Mutant of SyncFail: the savepoint is not rolled back.  *)
SyncFailKeepsWork(s) ==
    /\ ses[s].pc \in SyncLocked
    /\ \E kind \in FailKind :
          Put(s, [ses[s] EXCEPT !.pc = "failed", !.fail = kind])
    /\ UNCHANGED <<row, lock, clock, started, history>>

(* An exception while the lock is held.  _rollback_sync_attempt undoes the *)
(* savepoint and keeps the lock.  A failure between two accounts has no    *)
(* account to name.                                                        *)
SyncFail(s) ==
    /\ ses[s].pc \in SyncLocked
    /\ \E kind \in FailKind, acct \in {ses[s].cur, None} :
          Put(s, [ses[s] EXCEPT !.pc = "failed", !.work = ses[s].snap,
                                !.fail = kind, !.cur = acct])
    /\ UNCHANGED <<row, lock, clock, started, history>>

(* The commit itself fails: nothing is stored, and the lock is gone with   *)
(* the transaction.                                                        *)
SyncCommitFails(s) ==
    /\ ses[s].pc = "import"
    /\ ses[s].todo = {}
    /\ lock' = None
    /\ Put(s, [ses[s] EXCEPT !.pc = "failed", !.work = ses[s].snap,
                             !.fail = "generic", !.cur = None])
    /\ UNCHANGED <<row, clock, started, history>>

(* The refresh after the commit fails, as it must when the row has been    *)
(* deleted since.                                                          *)
SyncRefreshFails(s) ==
    /\ ses[s].pc = "committed"
    /\ Put(s, [ses[s] EXCEPT !.pc = "failed", !.fail = "generic"])
    /\ UNCHANGED <<row, lock, clock, started, history>>

(* Mutant of FailStatus: the outcome of the run is stored as a status.  *)
FailStatusOutcome(st) ==
    IF st.fail = "limited" THEN "rate_limited" ELSE "sync_error"

(* Mutant of FailStatus: any failure is a retryable one.  *)
FailStatusForgets(st) ==
    CASE st.fail = "expired" -> "expired"
      [] st.fail = "action" -> "error"
      [] OTHER -> "sync_error"

(* What each exception handler says of the connection.  *)
FailStatus(st) ==
    CASE st.fail = "expired" -> "expired"
      [] st.fail = "action" -> "error"
      [] st.fail = "limited" -> st.snap.status
      [] OTHER -> IF st.snap.status \in CredentialProblem
                  THEN st.snap.status ELSE "sync_error"

(* Mutant of FailAccount: the account is not looked up again.  *)
FailAccountUnchecked(st) == IF st.fail = "generic" THEN st.cur ELSE None

FailAccount(st) ==
    CASE st.fail \in {"expired", "action"} -> None
      [] st.fail = "limited" -> st.snap.err
      [] OTHER -> IF st.snap.status \in CredentialProblem THEN st.snap.err
                  ELSE IF st.cur \in row.accts THEN st.cur ELSE None

(* Mutant of StillCurrent: the version is not compared.  *)
StillThere(s) == row.live

(* The condition of the UPDATE in _set_sync_status_if_current. *)
StillCurrent(s) == row.live /\ row.version = ses[s].snap.version

(* Mutant of StampFailure: the status update is not committed.  *)
StampFailureOpen(s) ==
    /\ ses[s].pc = "failed"
    /\ lock \in {None, s}
    /\ lock' = s
    /\ Finish(s)
    /\ UNCHANGED <<row, clock, started, history>>

(* The UPDATE takes the row lock when the session no longer has it, sees   *)
(* the newest committed row, and is committed at once.                     *)
StampFailure(s) ==
    /\ ses[s].pc = "failed"
    /\ lock \in {None, s}
    /\ row' = IF StillCurrent(s)
              THEN [row EXCEPT !.status = FailStatus(ses[s]),
                               !.err = FailAccount(ses[s]),
                               !.version = @ + 1]
              ELSE row
    /\ lock' = None
    /\ Finish(s)
    /\ UNCHANGED <<clock, started, history>>

-----------------------------------------------------------------------------
(* handle_oauth_callback of an existing connection                         *)

(* The callback carries an OAuth state, which is consumed before the row   *)
(* is locked, or it is a pasted token and carries none.                    *)
RequestReconnect(s) == \E oauth \in BOOLEAN : Start(s, "reconWait", FALSE, oauth)

ReconnectLock(s) == ReadForUpdate(s, "reconWait", "recon")

(* Mutant of ReconnectCommit: the reconnect does not count as a change.  *)
ReconnectUnversioned(s) ==
    /\ ses[s].pc = "recon"
    /\ row' = [ses[s].work EXCEPT !.status = "active", !.err = None,
                                  !.lastSync = None, !.creds = @ + 1]
    /\ lock' = None
    /\ relinks' = relinks + 1
    /\ Finish(s)
    /\ UNCHANGED <<clock, started, saves>>

(* The provider exchanged the code: new credentials, a clean slate for the *)
(* diagnosis, and last_sync_at forgotten so that the next sync reads all.  *)
ReconnectCommit(s) ==
    /\ ses[s].pc = "recon"
    /\ \E unavailable \in BOOLEAN :
          row' = [ses[s].work EXCEPT
                    !.status = IF unavailable THEN "sync_error" ELSE "active",
                    !.err = None,
                    !.version = @ + 1,
                    !.lastSync = None,
                    !.creds = @ + 1,
                    !.observed = clock]
    /\ lock' = None
    /\ relinks' = relinks + 1
    /\ Finish(s)
    /\ UNCHANGED <<clock, started, saves>>

(* The provider refused the code, or names another provider.  *)
ReconnectRefused(s) ==
    /\ ses[s].pc = "recon"
    /\ RollBack(s)

-----------------------------------------------------------------------------
(* update_connection_settings                                              *)

RequestSave(s) == Start(s, "editWait", FALSE, FALSE)

(* Mutant of SaveLock: the blob is read without the row lock.  *)
SaveReadsUnlocked(s) ==
    /\ ses[s].pc = "editWait"
    /\ row.live
    /\ Put(s, [ses[s] EXCEPT !.pc = "editing", !.snap = row, !.work = row])
    /\ UNCHANGED <<row, lock, clock, started, history>>

SaveLock(s) == ReadForUpdate(s, "editWait", "editing")

(* The patch is merged onto the blob that was read, the whole blob is      *)
(* written.  The version is left alone: a save says nothing of health.     *)
SaveCommit(s) ==
    /\ ses[s].pc = "editing"
    /\ row' = [row EXCEPT !.edit = ses[s].work.edit + 1,
                          !.refresh = ses[s].work.refresh,
                          !.observed = ses[s].work.observed]
    /\ lock' = None
    /\ saves' = saves + 1
    /\ Finish(s)
    /\ UNCHANGED <<clock, started, relinks>>

-----------------------------------------------------------------------------
(* delete_connection                                                       *)

RequestDelete(s) == Start(s, "delWait", FALSE, FALSE)

DeleteLock(s) == ReadForUpdate(s, "delWait", "deleting")

DeleteCommit(s) ==
    /\ ses[s].pc = "deleting"
    /\ row' = [row EXCEPT !.live = FALSE]
    /\ lock' = None
    /\ Finish(s)
    /\ UNCHANGED <<clock, started, history>>

(* guard_scope_mutation objects, or a statement fails.  *)
DeleteRefused(s) ==
    /\ ses[s].pc = "deleting"
    /\ RollBack(s)

-----------------------------------------------------------------------------
(* The process of a session dies, or its client goes away: PostgreSQL      *)
(* rolls the transaction back.                                             *)
Crash(s) ==
    /\ ses[s].pc # "idle"
    /\ lock' = IF lock = s THEN None ELSE lock
    /\ Finish(s)
    /\ UNCHANGED <<row, clock, started, history>>

Tick ==
    /\ clock < MaxClock
    /\ clock' = clock + 1
    /\ UNCHANGED <<row, lock, ses, started, history>>

SyncStep(s) ==
    \/ SyncLock(s) \/ SyncUnconfigured(s) \/ SyncRefresh(s)
    \/ SyncNeedsUser(s) \/ SyncReadAccounts(s) \/ SyncImport(s)
    \/ SyncCommit(s) \/ SyncDone(s) \/ SyncFail(s) \/ SyncCommitFails(s)
    \/ SyncRefreshFails(s) \/ StampFailure(s)

MutationStep(s) ==
    \/ ReconnectLock(s) \/ ReconnectCommit(s) \/ ReconnectRefused(s)
    \/ SaveLock(s) \/ SaveCommit(s)
    \/ DeleteLock(s) \/ DeleteCommit(s) \/ DeleteRefused(s)
    \/ LockTimeout(s)

Request(s) ==
    \/ RequestSync(s) \/ SelectForSync(s) \/ RequestReconnect(s)
    \/ RequestSave(s) \/ RequestDelete(s)

Next ==
    \/ \E s \in Sessions : Request(s) \/ SyncStep(s) \/ MutationStep(s) \/ Crash(s)
    \/ Tick

Spec == Init /\ [][Next]_vars

(* Every provider call and every statement ends, so a session that runs    *)
(* does not stop on its own; the waiters of a row lock are served in turn, *)
(* so one that keeps being possible is granted in the end.                 *)
Fairness ==
    \A s \in Sessions : WF_vars(SyncStep(s) \/ MutationStep(s))
                       /\ SF_vars(SyncLock(s) \/ SaveLock(s))
                       /\ SF_vars(StampFailure(s))

FairSpec == Spec /\ Fairness

-----------------------------------------------------------------------------
(* Invariants                                                              *)

(* The type of every variable.  *)
TypeOK ==
    /\ row \in Rows
    /\ lock \in Sessions \cup {None}
    /\ ses \in [Sessions -> Session]
    /\ clock \in Times
    /\ started \in 0 .. MaxOps
    /\ saves \in Nat
    /\ relinks \in Nat

(* A session that took the lock and has not ended its transaction is the   *)
(* one the lock names, so no two handlers are past their SELECT ... FOR    *)
(* UPDATE at once: not two syncs, nor a sync and a reconnect or a delete.  *)
HolderIsAlone ==
    \A s \in Sessions : ses[s].pc \in SyncLocked \cup MutationLocked => lock = s

(* What the holder read is what the row still is: nobody, a late failure   *)
(* included, writes a row that another session has read for update.        *)
HolderSeesCurrentRow == \A s \in Sessions : lock = s => ses[s].snap = row

(* What a sync has not committed differs from the row in what a sync owns  *)
(* only; a failed one has undone even that.                                *)
WorkIsOwn ==
    \A s \in Sessions : lock = s =>
        /\ row.live
        /\ ses[s].pc \in SyncLocked \cup MutationLocked \cup {"failed"}
        /\ Health(ses[s].work) = Health(row)
        /\ ses[s].work.live
        /\ ses[s].work.edit = row.edit
        /\ row.accts \subseteq ses[s].work.accts
        /\ ses[s].pc \in SyncLocked \/ ses[s].work = row

(* The version tells a session that lost the lock whether what it read is  *)
(* still true: an equal version means equal health, and after its own      *)
(* commit the version it started from never comes back.                    *)
VersionTellsChange ==
    \A s \in Sessions : ses[s].pc \in {"committed", "failed"} /\ lock # s =>
        /\ ses[s].snap.version <= row.version
        /\ ses[s].pc = "committed" => ses[s].snap.version < row.version
        /\ ses[s].snap.version = row.version => Health(ses[s].snap) = Health(row)

(* The user's part of the row is never lost: every settings save that was  *)
(* answered is in the blob, however many syncs rewrote it since, and the   *)
(* credentials are those of the last reconnect.                            *)
UserWorkSurvives == row.edit = saves /\ row.creds = relinks

(* An account is blamed only for a retryable failure, and it is an account *)
(* the connection has: one created in the failed import and rolled back    *)
(* with it is never named.                                                 *)
DiagnosisIsSound ==
    row.err # None => row.status = "sync_error" /\ row.err \in row.accts

-----------------------------------------------------------------------------
(* Action properties                                                       *)

(* A sync's failure is written only onto the row the sync read: if anyone  *)
(* has synced, reconnected or deleted in between, it changes nothing.      *)
StaleFailureIsDropped ==
    [][\A s \in Sessions :
        ses[s].pc = "failed" /\ ses'[s].pc = "idle" /\ row' # row
            => row.live /\ Health(row) = Health(ses[s].snap)]_vars

(* A known credential problem is cleared by a sync that read the provider  *)
(* or by a reconnect, never by a transient failure or a throttled run.     *)
CredentialProblemSticks ==
    [][row.status \in CredentialProblem /\ row'.status \notin CredentialProblem
        => \/ relinks' = relinks + 1
           \/ \E s \in Sessions : ses[s].pc = "import" /\ ses'[s].pc = "committed"]_vars

(* Each step is one operation of the abstract connection, or none; so a    *)
(* deleted connection is never written again by a session still at work.   *)
Abstract == INSTANCE ConnectionHealth
    WITH Accounts <- Accounts, None <- None, MaxClock <- MaxClock, row <- row, clock <- clock
ActsAtomically == Abstract!Spec

-----------------------------------------------------------------------------
(* Liveness                                                                *)

(* Every sync ends, whatever the others do, and releases the connection.   *)
SyncEnds == \A s \in Sessions : ses[s].pc \in {"syncWait", "failed"} ~> ses[s].pc = "idle"

(* A reconnect, save or delete is answered, and the first and the last     *)
(* without waiting for the sync that is running.                           *)
MutationEnds ==
    \A s \in Sessions : ses[s].pc \in {"reconWait", "editWait", "delWait"} ~> ses[s].pc = "idle"

-----------------------------------------------------------------------------
(* "Connection sync in progress. Please try again shortly."                *)

(* A callback that is told so can be sent again: it has not yet consumed   *)
(* the OAuth state it carries.                                             *)
BusyCallbackCanBeSentAgain ==
    \A s \in Sessions : ses[s].busy => ~ses[s].spent

=============================================================================
