-------------------------- MODULE ConnectionHealth --------------------------
(***************************************************************************)
(* What a bank connection promises, with no sessions, locks, savepoints or *)
(* version tests: every operation happens in one step on the row as it is  *)
(* then.  ConnectionSync is shown to implement this.                       *)
(*                                                                         *)
(* The definitions state the policy of sync_connection,                    *)
(* handle_oauth_callback, update_connection_settings and                   *)
(* delete_connection.                                                      *)
(***************************************************************************)
EXTENDS Naturals

CONSTANTS Accounts, None, MaxClock

VARIABLES row, clock

Now == 0 .. clock

(* A sync that read the provider: the result replaces the diagnosis, and   *)
(* last_sync_at moves to the present or not at all.                        *)
Synced ==
    \E st \in {"active", "sync_error", "error"}, last \in {row.lastSync, clock},
       asked \in Now \cup {row.refresh}, seen \in Now, new \in SUBSET Accounts :
        /\ st = "sync_error" => last = row.lastSync
        /\ row' = [row EXCEPT !.status = st, !.err = None, !.version = @ + 1,
                              !.lastSync = last, !.refresh = asked,
                              !.observed = seen, !.accts = @ \cup new]

(* The provider asks for the user: that is recorded, and when it was asked. *)
NeedsUser ==
    row' = [row EXCEPT !.status = "error", !.err = None, !.version = @ + 1,
                       !.refresh = clock]

(* A sync that ended in a verdict on the credentials.  *)
Rejected ==
    \E st \in {"error", "expired"} :
        row' = [row EXCEPT !.status = st, !.err = None, !.version = @ + 1]

(* A sync that was throttled learned nothing.  *)
Throttled == row' = [row EXCEPT !.version = @ + 1]

(* Any other failure: a known credential problem outlives it; otherwise it *)
(* is a retryable error, of one of the connection's own accounts or of     *)
(* none.                                                                   *)
Failed ==
    IF row.status \in {"error", "expired"}
    THEN row' = [row EXCEPT !.version = @ + 1]
    ELSE \E acct \in row.accts \cup {None} :
            row' = [row EXCEPT !.status = "sync_error", !.err = acct,
                               !.version = @ + 1]

Reconnected ==
    \E st \in {"active", "sync_error"} :
        row' = [row EXCEPT !.status = st, !.err = None, !.version = @ + 1,
                           !.lastSync = None, !.creds = @ + 1,
                           !.observed = clock]

Saved == row' = [row EXCEPT !.edit = @ + 1]

Deleted == row' = [row EXCEPT !.live = FALSE]

Tick == /\ clock < MaxClock
        /\ clock' = clock + 1
        /\ row' = row

Operation ==
    /\ row.live
    /\ clock' = clock
    /\ \/ Synced \/ NeedsUser \/ Rejected \/ Throttled \/ Failed
       \/ Reconnected \/ Saved \/ Deleted

Init ==
    /\ clock = 0
    /\ row.live
    /\ row.version = 0
    /\ row.lastSync \in {0, None}

Next == Operation \/ Tick

Spec == Init /\ [][Next]_<<row, clock>>

=============================================================================
