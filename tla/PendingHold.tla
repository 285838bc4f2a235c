----------------------------- MODULE PendingHold -----------------------------
(***************************************************************************)
(* One SimpleFIN authorization hold, from the bank to the ledger row.      *)
(*                                                                         *)
(* The bank may keep a hold, cancel it or post it; the bridge hands out a  *)
(* cached observation of the bank; a sync reads it, and retires the row    *)
(* only after the hold was missing from two complete observations far      *)
(* enough apart.  A person may edit or ignore the row at any time and then *)
(* owns it.  Syncs are serialized by the connection's row lock.  A sync    *)
(* stamps the owner and workspace of the account on all its synced rows    *)
(* before it reads one, and that UPDATE locks them until it ends: a        *)
(* person's request may have loaded the row long before, but writes it     *)
(* before the sync begins or after it has ended.                           *)
(*                                                                         *)
(* PostgreSQL at READ COMMITTED: row is the committed row, sync.work what  *)
(* the sync has written to it; an UPDATE waits for the other's commit.     *)
(* Dates are days after the day of the authorization.                      *)
(***************************************************************************)
EXTENDS Naturals

CONSTANTS
    None,      \* a key that is not in sync_metadata
    Grace,     \* PENDING_MISSING_GRACE
    MinAge,    \* PENDING_MIN_AGE
    Fresh,     \* how old a source time may be to count, 48 hours
    MaxClock,  \* bound: the last day
    MaxOps     \* bound: how many requests the person makes

ASSUME HoldAssumption ==
    /\ {Grace, MinAge, Fresh, MaxClock, MaxOps} \subseteq Nat
    /\ None \notin Nat

VARIABLES
    feed,    \* what the bank holds
    shot,    \* the bridge's cached observation of it
    row,     \* the transaction, as committed
    sync,    \* the sync at work on the account
    user,    \* the request of the person
    ops,     \* requests made so far
    clock,
    missed   \* history: the complete observations without the hold, as of
             \* the committed syncs since it was last seen

vars == <<feed, shot, row, sync, user, ops, clock, missed>>

Times == 0 .. MaxClock
Feed == {"pending", "posted", "absent"}
Ops == {"toggle", "edit", "rule", "post", "reopen"}

(* amount is the authorized one, the one it posts at, or what a person     *)
(* typed; manual, owned, missing, last and retired are the keys pending_*  *)
(* of sync_metadata.                                                       *)
Rows == [status: {"pending", "posted"}, amount: {"held", "settled", "typed"},
         ignored: BOOLEAN, manual: BOOLEAN, owned: BOOLEAN,
         missing: Times \cup {None}, last: Times \cup {None},
         retired: Times \cup {None}]

(* What a read returned: the hold, the source's time, and whether every    *)
(* part of the date window was read, which is what gives a coverage.       *)
Observations == [hold: Feed, at: Times, complete: BOOLEAN]

(* base is what reconcile_pending read and verdict what it wants stored;   *)
(* seen is what the import then read; work is the uncommitted row, when    *)
(* wrote says that the sync has updated it and so holds its lock.          *)
Syncs == [pc: {"idle", "fetched", "persist", "import", "apply", "commit"},
          obs: Observations, base: Rows, verdict: Rows, seen: Rows,
          work: Rows, wrote: BOOLEAN]

Users == [pc: {"idle", "loaded"}, op: Ops, loaded: Rows]

(* A legacy row has an edited amount and no mark of it.  *)
NewRow(amount) ==
    [status |-> "pending", amount |-> amount, ignored |-> FALSE,
     manual |-> FALSE, owned |-> FALSE, missing |-> None, last |-> None,
     retired |-> None]

NoSync ==
    [pc |-> "idle", obs |-> [hold |-> "absent", at |-> 0, complete |-> FALSE],
     base |-> NewRow("held"), verdict |-> NewRow("held"),
     seen |-> NewRow("held"), work |-> NewRow("held"), wrote |-> FALSE]

NoUser == [pc |-> "idle", op |-> "toggle", loaded |-> NewRow("held")]

Init ==
    /\ feed = "pending"
    /\ shot = [at |-> 0, hold |-> "pending"]
    /\ row \in {NewRow("held"), NewRow("typed")}
    /\ sync = NoSync
    /\ user = NoUser
    /\ ops = 0
    /\ clock = 0
    /\ missed = {}

-----------------------------------------------------------------------------
(* The bank and the bridge                                                 *)

BankMoves ==
    /\ feed # "posted"
    /\ feed' \in Feed \ {feed}
    /\ UNCHANGED <<shot, row, sync, user, ops, clock, missed>>

BridgePulls ==
    /\ shot.at < clock
    /\ shot' = [at |-> clock, hold |-> feed]
    /\ UNCHANGED <<feed, row, sync, user, ops, clock, missed>>

Tick ==
    /\ clock < MaxClock
    /\ clock' = clock + 1
    /\ UNCHANGED <<feed, shot, row, sync, user, ops, missed>>

-----------------------------------------------------------------------------
(* The sync                                                                *)

(* get_transactions: an incomplete read may have missed the hold, and an   *)
(* old observation gives no coverage.                                      *)
MayReturn(o) ==
    /\ o.at = shot.at
    /\ o.hold \in {shot.hold, "absent"}
    /\ o.complete => o.hold = shot.hold /\ clock <= shot.at + Fresh

(* Mutant of SyncFetch: the sync reads rows it has not locked.  *)
SyncFetchUnlocked ==
    /\ sync.pc = "idle"
    /\ \E o \in Observations :
        /\ MayReturn(o)
        /\ sync' = [NoSync EXCEPT !.pc = "fetched", !.obs = o]
    /\ UNCHANGED <<feed, shot, row, user, ops, clock, missed>>

(* The UPDATE that stamps the owner locks the row, whose columns modelled  *)
(* here it leaves alone; then the sync asks the provider.                  *)
SyncFetch ==
    /\ sync.pc = "idle"
    /\ \E o \in Observations :
        /\ MayReturn(o)
        /\ sync' = [NoSync EXCEPT !.pc = "fetched", !.obs = o,
                                  !.work = row, !.wrote = TRUE]
    /\ UNCHANGED <<feed, shot, row, user, ops, clock, missed>>

(* The row as the session of the sync sees it.  *)
SyncSees == IF sync.wrote THEN sync.work ELSE row

(* A sync-owned ignore ends when the hold posts or comes back in a newer   *)
(* complete observation.                                                   *)
Restores(r, o) ==
    /\ r.owned
    /\ \/ o.hold = "posted"
       \/ o.complete /\ r.retired # None /\ o.at > r.retired

(* Mutant of Present: the return of the hold does not end the streak.  *)
PresentKeepsStreak(r, o) ==
    IF Restores(r, o) THEN [r EXCEPT !.ignored = FALSE, !.owned = FALSE] ELSE r

(* Mutant of Present: ownership is given up and the ignore stays.  *)
PresentDisowns(r, o) ==
    IF Restores(r, o) THEN [r EXCEPT !.owned = FALSE, !.missing = None, !.last = None]
    ELSE [r EXCEPT !.missing = None, !.last = None]

(* Mutant of Present: a posting restores only with a complete coverage.  *)
PresentNeedsCoverage(r, o) ==
    IF r.owned /\ o.complete /\ r.retired # None /\ o.at > r.retired
    THEN [r EXCEPT !.ignored = FALSE, !.owned = FALSE, !.missing = None, !.last = None]
    ELSE [r EXCEPT !.missing = None, !.last = None]

(* The hold was seen: any disappearance streak is over.  *)
Present(r, o) ==
    LET seen == [r EXCEPT !.missing = None, !.last = None]
    IN  IF Restores(r, o)
        THEN [seen EXCEPT !.ignored = FALSE, !.owned = FALSE]
        ELSE seen

(* The absence counts: nobody ignored the row, its evidence is intact, the *)
(* window was read in full, the hold is old enough, and this is not the    *)
(* observation that was counted last.                                      *)
Counts(r, o) ==
    /\ ~r.ignored
    /\ o.complete
    /\ r.amount = "held"
    /\ o.at >= MinAge
    /\ r.last # None => o.at > r.last

(* Mutant of Absent: the end of the grace is kept, not its start.  *)
AbsentKeepsDeadline(r, o) ==
    IF r.missing # None /\ o.at >= r.missing
    THEN [r EXCEPT !.last = o.at, !.ignored = TRUE, !.owned = TRUE, !.retired = o.at]
    ELSE [r EXCEPT !.last = o.at, !.missing = IF @ = None THEN o.at + Grace ELSE @]

Absent(r, o) ==
    LET counted == [r EXCEPT !.last = o.at,
                             !.missing = IF @ = None THEN o.at ELSE @]
    IN  IF r.missing # None /\ o.at - r.missing >= Grace
        THEN [counted EXCEPT !.ignored = TRUE, !.owned = TRUE, !.retired = o.at]
        ELSE counted

Verdict(r, o) ==
    IF o.hold # "absent" THEN Present(r, o)
    ELSE IF Counts(r, o) THEN Absent(r, o) ELSE r

(* reconcile_pending reads the row and makes up its mind.  *)
SyncReconcile ==
    /\ sync.pc = "fetched"
    /\ LET v == Verdict(SyncSees, sync.obs)
           concerned == /\ SyncSees.status = "pending"
                        /\ ~SyncSees.manual
                        /\ v # SyncSees
       IN  sync' = [sync EXCEPT !.pc = IF concerned THEN "persist" ELSE "import",
                                !.base = SyncSees, !.verdict = v]
    /\ UNCHANGED <<feed, shot, row, user, ops, clock, missed>>

(* _persist_state: the UPDATE matches only the row that was read, which    *)
(* the locked row still is.                                                *)
SyncPersist ==
    /\ sync.pc = "persist"
    /\ sync' = IF SyncSees = sync.base
               THEN [sync EXCEPT !.pc = "import", !.work = sync.verdict,
                                 !.wrote = TRUE]
               ELSE [sync EXCEPT !.pc = "import"]
    /\ UNCHANGED <<feed, shot, row, user, ops, clock, missed>>

(* The exact-ID branch of the import reads the row again.  It goes on to   *)
(* promote a pending row that has posted, unless it is frozen or its       *)
(* amount is not the bank's.                                               *)
Promotes(r) ==
    /\ sync.obs.hold = "posted"
    /\ ~r.ignored
    /\ ~r.manual
    /\ r.status = "pending"
    /\ r.amount = "held"

SyncLook ==
    /\ sync.pc = "import"
    /\ sync' = [sync EXCEPT !.pc = IF Promotes(SyncSees) THEN "apply" ELSE "commit",
                            !.seen = SyncSees]
    /\ UNCHANGED <<feed, shot, row, user, ops, clock, missed>>

(* _promote_synced_transaction, flushed: the columns that differ from what *)
(* was read are written, by primary key.                                   *)
SyncApply ==
    /\ sync.pc = "apply"
    /\ sync' = [sync EXCEPT !.pc = "commit", !.wrote = TRUE,
                  !.work = [SyncSees EXCEPT !.status = "posted",
                                            !.amount = "settled"]]
    /\ UNCHANGED <<feed, shot, row, user, ops, clock, missed>>

SyncCommit ==
    /\ sync.pc = "commit"
    /\ row' = SyncSees
    /\ sync' = NoSync
    /\ missed' = CASE sync.obs.hold # "absent" -> {}
                   [] sync.obs.hold = "absent" /\ sync.obs.complete
                        -> missed \cup {sync.obs.at}
                   [] OTHER -> missed
    /\ UNCHANGED <<feed, shot, user, ops, clock>>

(* The sync fails or its process dies: nothing of it is stored.  *)
SyncAborts ==
    /\ sync.pc # "idle"
    /\ sync' = NoSync
    /\ UNCHANGED <<feed, shot, row, user, ops, clock, missed>>

-----------------------------------------------------------------------------
(* The person                                                              *)

(* get_transaction.  edit stands for the financial fields of PATCH, reopen *)
(* for its status set back to pending, toggle for the ignore button, rule  *)
(* for a rule that ignores, and post for the "it cleared today" button.    *)
UserLoad ==
    /\ user.pc = "idle"
    /\ ops < MaxOps
    /\ ops' = ops + 1
    /\ \E op \in Ops :
        /\ op = "edit" => row.amount # "typed"
        /\ op = "rule" => ~row.ignored
        /\ op = "post" => row.status = "pending"
        /\ op = "reopen" => row.status = "posted"
        /\ user' = [pc |-> "loaded", op |-> op, loaded |-> row]
    /\ UNCHANGED <<feed, shot, row, sync, clock, missed>>

(* Mutant of Claim: the metadata that was loaded is written back whole.  *)
ClaimFromLoaded(r, loaded) ==
    [r EXCEPT !.manual = TRUE, !.owned = FALSE, !.missing = loaded.missing,
              !.last = loaded.last, !.retired = loaded.retired]

(* preserve_pending_override, merged at flush time with the newest audit.  *)
Claim(r, loaded) == [r EXCEPT !.manual = TRUE, !.owned = FALSE]

(* What the UPDATE of each request makes of the newest row.  *)
Requested(op, r, loaded) ==
    CASE op = "toggle" -> [r EXCEPT !.ignored = ~loaded.ignored]
      [] op = "rule"   -> [r EXCEPT !.ignored = TRUE]
      [] op = "edit"   -> [r EXCEPT !.amount = "typed"]
      [] op = "post"   -> [r EXCEPT !.status = "posted"]
      [] op = "reopen" -> [r EXCEPT !.status = "pending"]

(* The UPDATE waits for a sync that holds the row's lock.  *)
UserCommit ==
    /\ user.pc = "loaded"
    /\ ~sync.wrote
    /\ LET claims == \/ user.op = "reopen"
                     \/ user.op # "post" /\ user.loaded.status = "pending"
           r == IF claims THEN Claim(row, user.loaded) ELSE row
       IN  row' = Requested(user.op, r, user.loaded)
    /\ user' = NoUser
    /\ UNCHANGED <<feed, shot, sync, ops, clock, missed>>

-----------------------------------------------------------------------------
SyncStep ==
    \/ SyncFetch \/ SyncReconcile \/ SyncPersist \/ SyncLook \/ SyncApply
    \/ SyncCommit \/ SyncAborts

Next == BankMoves \/ BridgePulls \/ Tick \/ SyncStep \/ UserLoad \/ UserCommit

Spec == Init /\ [][Next]_vars

-----------------------------------------------------------------------------
(* The type of every variable.  *)
TypeOK ==
    /\ feed \in Feed
    /\ shot \in [at: Times, hold: Feed]
    /\ row \in Rows
    /\ sync \in Syncs
    /\ user \in Users
    /\ ops \in 0 .. MaxOps
    /\ clock \in Times
    /\ missed \subseteq Times

(* An ignored hold can be traced to who ignored it, so that either the     *)
(* sync will take it back when the hold returns or a person decided so.    *)
IgnoreHasOwner ==
    row.status = "pending" /\ row.ignored => row.owned # row.manual

(* A hold is retired only if two complete observations, of different days  *)
(* at least the grace apart, were without it, and none between showed it:  *)
(* neither a cached snapshot read twice, nor an incomplete read, nor an    *)
(* absence from before the hold's return counts.                           *)
RetirementIsEarned ==
    [][~row.owned /\ row'.owned =>
        /\ sync.obs.hold = "absent" /\ sync.obs.complete
        /\ sync.obs.at >= MinAge
        /\ \E first \in missed : first + Grace <= sync.obs.at]_vars

(* docs/automatic-bank-sync.md: "A manual financial edit, ignore toggle or *)
(* ignore rule takes ownership away from automatic reconciliation."        *)
(* Once a person owns the row no sync hides, reveals or reprices it: the   *)
(* retirement and the promotion, which write what they concluded from the  *)
(* row they read, never land on an edit committed in between.              *)
OwnershipSticks ==
    [][row.manual /\ (row'.ignored # row.ignored \/ row'.amount # row.amount)
        => user' # user]_vars

(* Why and when a hold was retired is never erased, not even by a person   *)
(* whose request had loaded the row before.                                *)
AuditSurvives == [][row.retired # None => row'.retired # None]_vars

(* A sync that saw the hold posted leaves no pending row behind: the row   *)
(* has posted too, or a person has taken it, or its amount was edited in   *)
(* the days before edits were marked.                                      *)
PostingIsSeen ==
    [][SyncCommit /\ sync.obs.hold = "posted" =>
        row'.status = "posted" \/ row'.manual \/ row'.amount = "typed"]_vars

-----------------------------------------------------------------------------
(* docs/automatic-bank-sync.md: "An exact-ID posted return or a newer      *)
(* complete feed containing the hold restores only an ignore owned by      *)
(* sync."                                                                  *)

(* After a sync that saw the hold posted the sync's own ignore is lifted.  *)
PostedReturnRestores ==
    [][SyncCommit /\ sync.obs.hold = "posted" => ~row'.owned]_vars

=============================================================================
