------------------------ MODULE ConnectionSyncProofs ------------------------
(***************************************************************************)
(* Proofs about ConnectionSync, for any number of sessions and accounts,   *)
(* any number of requests and any clock.                                   *)
(***************************************************************************)
EXTENDS ConnectionSync, TLAPS

(* The inductive invariant: what each part needs is in the others.  The    *)
(* lock gives the holder a current row, the version gives it to a session  *)
(* that lost the lock, and only with one of the two is a failure's verdict *)
(* on the row the verdict on what the sync saw.                            *)
IInv ==
    /\ TypeOK
    /\ HolderIsAlone
    /\ HolderSeesCurrentRow
    /\ WorkIsOwn
    /\ VersionTellsChange
    /\ UserWorkSurvives
    /\ DiagnosisIsSound

-----------------------------------------------------------------------------
(* Facts about the helpers                                                 *)

(* A session between two requests is of the right type. *)
LEMMA IdleType == Idle \in Session
  BY ConstantsAssumption
     DEF Idle, Session, FreshRow, Rows, PCs, FailKind, Status, Times

(* Writing one session's record leaves the others as they were. *)
LEMMA PutType ==
  ASSUME TypeOK, NEW s \in Sessions, NEW st \in Session, Put(s, st)
  PROVE  ses' \in [Sessions -> Session]
  BY DEF TypeOK, Put

(* Initially the invariant holds.  *)
LEMMA InitInv == Init => IInv
<1> SUFFICES ASSUME Init PROVE IInv
    OBVIOUS
<1> USE ConstantsAssumption
<1>1. PICK last \in Times \cup {None}, accts \in SUBSET Accounts :
        /\ last # None => last = 0
        /\ row = FreshRow(last, accts)
    BY DEF Init
<1>2. row \in Rows
    BY <1>1 DEF FreshRow, Rows, Status, Times
<1>3. TypeOK
    BY <1>2, IdleType DEF Init, TypeOK, Times
<1>4. /\ HolderIsAlone /\ HolderSeesCurrentRow /\ WorkIsOwn
      /\ VersionTellsChange
    BY DEF Init, Idle, HolderIsAlone, HolderSeesCurrentRow, WorkIsOwn,
           VersionTellsChange, SyncLocked, MutationLocked
<1>5. UserWorkSurvives /\ DiagnosisIsSound
    BY <1>1 DEF Init, FreshRow, UserWorkSurvives, DiagnosisIsSound
<1> QED BY <1>3, <1>4, <1>5 DEF IInv

-----------------------------------------------------------------------------
(* Two kinds of step                                                       *)

Locked == SyncLocked \cup MutationLocked

(* What the invariant says of a session st that holds the lock, and of one *)
(* that has lost it and has still to answer.                               *)
Holder(st) ==
    /\ st.snap = row
    /\ row.live
    /\ st.pc \in Locked \cup {"failed"}
    /\ Health(st.work) = Health(row)
    /\ st.work.live
    /\ st.work.edit = row.edit
    /\ row.accts \subseteq st.work.accts
    /\ st.pc \in SyncLocked \/ st.work = row

Loser(st, r) ==
    /\ st.snap.version <= r.version
    /\ st.pc = "committed" => st.snap.version < r.version
    /\ st.snap.version = r.version => Health(st.snap) = Health(r)

(* A step of session s that writes nothing to the committed row: it may    *)
(* take the lock when it is free and give it up when it is its own.        *)
LEMMA KeepsRow ==
  ASSUME IInv, NEW s \in Sessions, NEW st \in Session, Put(s, st),
         UNCHANGED <<row, clock, history>>, started' \in 0 .. MaxOps,
         \/ lock' = lock
         \/ lock \in {None, s} /\ lock' \in {None, s},
         st.pc \in Locked => lock' = s,
         lock' = s => Holder(st),
         lock' # s /\ st.pc \in {"committed", "failed"} => Loser(st, row)
  PROVE  IInv'
<1>1. TypeOK'
    BY PutType DEF IInv, TypeOK, history
<1>2. \A t \in Sessions : ses'[t] = IF t = s THEN st ELSE ses[t]
    BY DEF IInv, TypeOK, Put
<1>3. \A t \in Sessions : t # s => (lock' = t <=> lock = t)
    BY ConstantsAssumption
<1>4. HolderIsAlone'
    BY <1>2, <1>3 DEF IInv, HolderIsAlone, Locked
<1>5. HolderSeesCurrentRow' /\ WorkIsOwn'
    BY <1>2, <1>3 DEF IInv, HolderSeesCurrentRow, WorkIsOwn, Holder, Locked
<1>6. VersionTellsChange'
    BY <1>2, <1>3 DEF IInv, VersionTellsChange, Loser
<1>7. UserWorkSurvives' /\ DiagnosisIsSound'
    BY DEF IInv, UserWorkSurvives, DiagnosisIsSound, history
<1> QED BY <1>1, <1>4, <1>5, <1>6, <1>7 DEF IInv

(* A step of session s that commits the row and ends its transaction.  The *)
(* other sessions hold no lock, and the version tells those that lost it.  *)
LEMMA CommitsRow ==
  ASSUME IInv, NEW s \in Sessions, NEW st \in Session, Put(s, st),
         lock \in {None, s}, lock' = None,
         row' \in Rows, saves' \in Nat, relinks' \in Nat,
         UNCHANGED <<clock, started>>,
         row'.version >= row.version,
         row'.version = row.version => Health(row') = Health(row),
         st.pc \notin Locked,
         st.pc \in {"committed", "failed"} => Loser(st, row'),
         UserWorkSurvives', DiagnosisIsSound'
  PROVE  IInv'
<1>1. TypeOK'
    BY PutType DEF IInv, TypeOK
<1>2. \A t \in Sessions : ses'[t] = IF t = s THEN st ELSE ses[t]
    BY DEF IInv, TypeOK, Put
<1>3. HolderIsAlone' /\ HolderSeesCurrentRow' /\ WorkIsOwn'
    BY <1>2, ConstantsAssumption
    DEF IInv, HolderIsAlone, HolderSeesCurrentRow, WorkIsOwn, Locked
<1>4. VersionTellsChange'
  <2> SUFFICES ASSUME NEW t \in Sessions, ses'[t].pc \in {"committed", "failed"}
               PROVE  Loser(ses'[t], row')
      BY DEF VersionTellsChange, Loser
  <2>1. CASE t = s
      BY <2>1, <1>2 DEF Loser
  <2>2. CASE t # s
    <3>1. ses'[t] = ses[t] /\ lock # t
        BY <2>2, <1>2, ConstantsAssumption
    <3>2. Loser(ses[t], row)
        BY <3>1 DEF IInv, VersionTellsChange, Loser
    <3>3. /\ ses[t].snap.version \in Nat
          /\ row.version \in Nat
          /\ row'.version \in Nat
        BY DEF IInv, TypeOK, Session, Rows
    <3> QED BY <3>1, <3>2, <3>3 DEF Loser
  <2> QED BY <2>1, <2>2
<1> QED BY <1>1, <1>3, <1>4 DEF IInv

-----------------------------------------------------------------------------
(* The steps that leave the row alone                                      *)

(* Where a session is, by what its pc says of the lock. *)
LEMMA HolderFacts ==
  ASSUME IInv, NEW s \in Sessions
  PROVE  /\ ses[s] \in Session
         /\ ses[s].pc \in Locked => lock = s
         /\ lock = s => Holder(ses[s])
         /\ lock # s /\ ses[s].pc \in {"committed", "failed"} => Loser(ses[s], row)
         /\ row \in Rows /\ clock \in Times
  BY DEF IInv, TypeOK, HolderIsAlone, HolderSeesCurrentRow, WorkIsOwn,
         VersionTellsChange, Holder, Loser, Locked

(* A handler that returns holds nothing: it never had the lock, or it      *)
(* gives it up.                                                            *)
LEMMA FinishKeeps ==
  ASSUME IInv, NEW s \in Sessions, NEW b \in BOOLEAN, NEW p \in BOOLEAN,
         Put(s, [Idle EXCEPT !.busy = b, !.spent = p]),
         UNCHANGED <<row, clock, started, history>>,
         \/ lock' = lock /\ lock # s
         \/ lock \in {None, s} /\ lock' = None
  PROVE  IInv'
<1> DEFINE st == [Idle EXCEPT !.busy = b, !.spent = p]
<1>1. st \in Session /\ st.pc = "idle"
    BY IdleType DEF Session, Idle
<1>2. lock' # s /\ started' \in 0 .. MaxOps
    BY ConstantsAssumption DEF IInv, TypeOK
<1> QED BY <1>1, <1>2, KeepsRow DEF Locked, SyncLocked, MutationLocked

LEMMA FinishIsIdle ==
  ASSUME NEW s \in Sessions, Finish(s)
  PROVE  Put(s, [Idle EXCEPT !.busy = FALSE, !.spent = FALSE])
<1>1. Idle = [Idle EXCEPT !.busy = FALSE, !.spent = FALSE]
  <2>1. Idle.busy = FALSE /\ Idle.spent = FALSE
      BY DEF Idle
  <2> QED BY <2>1, IdleType DEF Session
<1> QED BY <1>1 DEF Finish

LEMMA StartKeeps ==
  ASSUME IInv, NEW s \in Sessions, NEW p \in Waiting, NEW tr \in BOOLEAN,
         NEW sp \in BOOLEAN, Start(s, p, tr, sp)
  PROVE  IInv'
<1> DEFINE st == [Idle EXCEPT !.pc = p, !.trigger = tr, !.spent = sp]
<1>1. st \in Session /\ st.pc = p
    BY IdleType DEF Session, Idle, PCs
<1>2. Put(s, st) /\ lock' = lock /\ ses[s].pc = "idle"
    BY DEF Start, Put
<1>3. lock # s
    BY <1>2, HolderFacts DEF Holder, Locked, SyncLocked, MutationLocked
<1>4. started' \in 0 .. MaxOps
    BY ConstantsAssumption DEF Start, IInv, TypeOK
<1>5. st.pc \notin Locked \cup {"committed", "failed"}
    BY <1>1 DEF Waiting, Locked, SyncLocked, MutationLocked
<1> QED BY <1>1, <1>2, <1>3, <1>4, <1>5, KeepsRow DEF Start

LEMMA ReadForUpdateKeeps ==
  ASSUME IInv, NEW s \in Sessions, NEW from \in Waiting,
         NEW to \in {"begun"} \cup MutationLocked, ReadForUpdate(s, from, to)
  PROVE  IInv'
<1> DEFINE st == [ses[s] EXCEPT !.pc = to, !.snap = row, !.work = row]
<1>1. CASE row.live
  <2>1. Put(s, st) /\ lock = None /\ lock' = s
      BY <1>1 DEF ReadForUpdate
  <2>2. st \in Session /\ st.pc = to /\ st.snap = row /\ st.work = row
      BY HolderFacts DEF Session, PCs, SyncLocked
  <2>3. Holder(st) /\ started' \in 0 .. MaxOps
      BY <1>1, <2>2 DEF Holder, Locked, SyncLocked, Health, ReadForUpdate,
                        IInv, TypeOK
  <2> QED BY <2>1, <2>2, <2>3, KeepsRow DEF ReadForUpdate
<1>2. CASE ~row.live
    BY <1>2, FinishIsIdle, FinishKeeps, ConstantsAssumption DEF ReadForUpdate
<1> QED BY <1>1, <1>2

LEMMA LockTimeoutKeeps ==
  ASSUME IInv, NEW s \in Sessions, LockTimeout(s)
  PROVE  IInv'
<1>1. lock # s
    BY HolderFacts DEF LockTimeout, Holder, Bounded, Locked, SyncLocked,
                       MutationLocked
<1>2. ses[s].spent \in BOOLEAN
    BY HolderFacts DEF Session
<1> QED BY <1>1, <1>2, FinishKeeps DEF LockTimeout

(* The abandoned transactions: nothing was configured, the provider or the *)
(* guard refused, the process died.                                        *)
LEMMA RollBackKeeps ==
  ASSUME IInv, NEW s \in Sessions, ses[s].pc \in Locked, RollBack(s)
  PROVE  IInv'
  BY HolderFacts, FinishIsIdle, FinishKeeps DEF RollBack

LEMMA CrashKeeps ==
  ASSUME IInv, NEW s \in Sessions, Crash(s)
  PROVE  IInv'
  BY FinishIsIdle, FinishKeeps DEF Crash

LEMMA SyncDoneKeeps ==
  ASSUME IInv, NEW s \in Sessions, SyncDone(s)
  PROVE  IInv'
<1>1. lock # s
    BY HolderFacts DEF SyncDone, Holder, Locked, SyncLocked, MutationLocked
<1> QED BY <1>1, FinishIsIdle, FinishKeeps DEF SyncDone

(* A sync at work inside the savepoint. *)
LEMMA SavepointKeeps ==
  ASSUME IInv, NEW s \in Sessions, NEW st \in Session, Put(s, st),
         ses[s].pc \in SyncLocked, st.pc \in SyncLocked,
         st.snap = ses[s].snap,
         st.work.live, Health(st.work) = Health(ses[s].work),
         st.work.edit = ses[s].work.edit,
         ses[s].work.accts \subseteq st.work.accts,
         UNCHANGED <<row, lock, clock, started, history>>
  PROVE  IInv'
<1>1. lock = s /\ Holder(ses[s])
    BY HolderFacts DEF Locked
<1>2. Holder(st)
    BY <1>1 DEF Holder, Locked
<1>3. started' \in 0 .. MaxOps
    BY DEF IInv, TypeOK
<1> QED BY <1>1, <1>2, <1>3, KeepsRow

LEMMA RefreshedAtType ==
  ASSUME IInv, NEW s \in Sessions
  PROVE  /\ RefreshedAt(s) \in Rows
         /\ RefreshedAt(s) = [ses[s].work EXCEPT !.refresh = RefreshedAt(s).refresh]
  BY HolderFacts DEF RefreshedAt, Session, Rows

LEMMA SyncRefreshKeeps ==
  ASSUME IInv, NEW s \in Sessions, SyncRefresh(s)
  PROVE  IInv'
<1> DEFINE st == [ses[s] EXCEPT !.pc = "reading", !.work = RefreshedAt(s)]
<1>1. st \in Session
    BY HolderFacts, RefreshedAtType DEF Session, PCs, SyncLocked
<1>2. Holder(ses[s])
    BY HolderFacts DEF SyncRefresh, Locked, SyncLocked
<1>3. /\ Health(st.work) = Health(ses[s].work)
      /\ st.work.live /\ st.work.edit = ses[s].work.edit
      /\ st.work.accts = ses[s].work.accts
    BY <1>2, HolderFacts, RefreshedAtType DEF Session, Rows, Health, Holder
<1> QED BY <1>1, <1>3, SavepointKeeps, HolderFacts
        DEF SyncRefresh, SyncLocked, Session

LEMMA SyncReadAccountsKeeps ==
  ASSUME IInv, NEW s \in Sessions, SyncReadAccounts(s)
  PROVE  IInv'
<1>1. PICK accts \in SUBSET Accounts :
        Put(s, [ses[s] EXCEPT !.pc = "import", !.work.observed = clock,
                              !.todo = accts])
    BY DEF SyncReadAccounts
<1> DEFINE st == [ses[s] EXCEPT !.pc = "import", !.work.observed = clock,
                                !.todo = accts]
<1>2. st \in Session
  <2>1. [ses[s].work EXCEPT !.observed = clock] \in Rows
      BY HolderFacts DEF Session, Rows
  <2>2. st = [ses[s] EXCEPT !.pc = "import", !.todo = accts,
                            !.work = [ses[s].work EXCEPT !.observed = clock]]
      BY HolderFacts DEF Session
  <2>3. ASSUME NEW w \in Rows
        PROVE  [ses[s] EXCEPT !.pc = "import", !.todo = accts, !.work = w]
                 \in Session
      BY HolderFacts DEF Session, PCs, SyncLocked
  <2> QED BY <2>1, <2>2, <2>3
<1>3. Holder(ses[s])
    BY HolderFacts DEF SyncReadAccounts, Locked, SyncLocked
<1>4. /\ Health(st.work) = Health(ses[s].work)
      /\ st.work.live /\ st.work.edit = ses[s].work.edit
      /\ st.work.accts = ses[s].work.accts
    BY <1>3, HolderFacts DEF Session, Rows, Health, Holder
<1> QED BY <1>1, <1>2, <1>4, SavepointKeeps, HolderFacts
        DEF SyncReadAccounts, SyncLocked, Session

LEMMA SyncImportKeeps ==
  ASSUME IInv, NEW s \in Sessions, SyncImport(s)
  PROVE  IInv'
<1>1. PICK a \in ses[s].todo, accts \in SUBSET Accounts, c \in Accounts \cup {None} :
        /\ ses[s].work.accts \subseteq accts
        /\ Put(s, [ses[s] EXCEPT !.work.accts = accts, !.cur = c,
                                 !.todo = @ \ {a}])
  <2>1. PICK a \in ses[s].todo :
          \/ Put(s, [ses[s] EXCEPT !.work.accts = @ \cup {a}, !.cur = a,
                                   !.todo = @ \ {a}])
          \/ Put(s, [ses[s] EXCEPT !.cur = None, !.todo = @ \ {a}])
      BY DEF SyncImport
  <2>2. a \in Accounts /\ ses[s].work.accts \in SUBSET Accounts
      BY HolderFacts DEF Session, Rows
  <2>3. CASE Put(s, [ses[s] EXCEPT !.work.accts = @ \cup {a}, !.cur = a,
                                   !.todo = @ \ {a}])
      BY <2>2, <2>3
  <2>4. CASE Put(s, [ses[s] EXCEPT !.cur = None, !.todo = @ \ {a}])
    <3>1. [ses[s] EXCEPT !.work.accts = ses[s].work.accts, !.cur = None,
                         !.todo = @ \ {a}]
             = [ses[s] EXCEPT !.cur = None, !.todo = @ \ {a}]
        BY HolderFacts DEF Session, Rows
    <3> QED BY <2>2, <2>4, <3>1
  <2> QED BY <2>1, <2>3, <2>4
<1> DEFINE st == [ses[s] EXCEPT !.work.accts = accts, !.cur = c,
                                !.todo = @ \ {a}]
<1>2. st \in Session
  <2>1. [ses[s].work EXCEPT !.accts = accts] \in Rows
      BY HolderFacts DEF Session, Rows
  <2>2. st = [ses[s] EXCEPT !.cur = c, !.todo = @ \ {a},
                            !.work = [ses[s].work EXCEPT !.accts = accts]]
      BY HolderFacts DEF Session
  <2>3. ASSUME NEW w \in Rows, NEW todo \in SUBSET Accounts
        PROVE  [ses[s] EXCEPT !.cur = c, !.todo = todo, !.work = w] \in Session
      BY HolderFacts DEF Session
  <2>4. ses[s].todo \ {a} \in SUBSET Accounts
      BY HolderFacts DEF Session
  <2> QED BY <2>1, <2>2, <2>3, <2>4
<1>3. Holder(ses[s])
    BY HolderFacts DEF SyncImport, Locked, SyncLocked
<1>4. /\ Health(st.work) = Health(ses[s].work)
      /\ st.work.live /\ st.work.edit = ses[s].work.edit
      /\ st.work.accts = accts
    BY <1>3, HolderFacts DEF Session, Rows, Health, Holder
<1> QED BY <1>1, <1>2, <1>4, SavepointKeeps, HolderFacts
        DEF SyncImport, SyncLocked, Session

(* The three ways into the failure handlers.  Inside the savepoint the     *)
(* lock stays; when the commit fails it goes, and the row is still the one *)
(* read; after the commit it has long gone.                                *)
LEMMA SyncFailKeeps ==
  ASSUME IInv, NEW s \in Sessions, SyncFail(s)
  PROVE  IInv'
<1>1. PICK kind \in FailKind, acct \in {ses[s].cur, None} :
        Put(s, [ses[s] EXCEPT !.pc = "failed", !.work = ses[s].snap,
                              !.fail = kind, !.cur = acct])
    BY DEF SyncFail
<1> DEFINE st == [ses[s] EXCEPT !.pc = "failed", !.work = ses[s].snap,
                                !.fail = kind, !.cur = acct]
<1>2. st \in Session /\ st.pc = "failed" /\ st.snap = ses[s].snap
      /\ st.work = ses[s].snap
    BY HolderFacts DEF Session, PCs
<1>3. lock = s /\ Holder(ses[s])
    BY HolderFacts DEF SyncFail, Locked
<1>4. Holder(st)
    BY <1>2, <1>3 DEF Holder, Health
<1>5. started' \in 0 .. MaxOps
    BY DEF SyncFail, IInv, TypeOK
<1>6. st.pc \notin Locked /\ lock' = lock
    BY <1>2 DEF SyncFail, Locked, SyncLocked, MutationLocked
<1> QED BY <1>1, <1>2, <1>3, <1>4, <1>5, <1>6, KeepsRow DEF SyncFail

LEMMA SyncCommitFailsKeeps ==
  ASSUME IInv, NEW s \in Sessions, SyncCommitFails(s)
  PROVE  IInv'
<1> DEFINE st == [ses[s] EXCEPT !.pc = "failed", !.work = ses[s].snap,
                                !.fail = "generic", !.cur = None]
<1>1. st \in Session /\ st.pc = "failed" /\ st.snap = ses[s].snap
    BY HolderFacts DEF Session, PCs, FailKind
<1>2. lock = s /\ Holder(ses[s])
    BY HolderFacts DEF SyncCommitFails, Locked, SyncLocked
<1>3. Loser(st, row)
    BY <1>1, <1>2, HolderFacts DEF Holder, Loser, Rows
<1>4. lock' = None /\ lock' # s /\ started' \in 0 .. MaxOps
    BY ConstantsAssumption DEF SyncCommitFails, IInv, TypeOK
<1>5. st.pc \notin Locked
    BY <1>1 DEF Locked, SyncLocked, MutationLocked
<1> QED BY <1>1, <1>2, <1>3, <1>4, <1>5, KeepsRow DEF SyncCommitFails

LEMMA SyncRefreshFailsKeeps ==
  ASSUME IInv, NEW s \in Sessions, SyncRefreshFails(s)
  PROVE  IInv'
<1> DEFINE st == [ses[s] EXCEPT !.pc = "failed", !.fail = "generic"]
<1>1. st \in Session /\ st.pc = "failed" /\ st.snap = ses[s].snap
    BY HolderFacts DEF Session, PCs, FailKind
<1>2. lock # s /\ Loser(ses[s], row)
    BY HolderFacts DEF SyncRefreshFails, Holder, Locked, SyncLocked,
                       MutationLocked
<1>3. Loser(st, row)
    BY <1>1, <1>2 DEF Loser
<1>4. lock' = lock /\ started' \in 0 .. MaxOps
    BY DEF SyncRefreshFails, IInv, TypeOK
<1>5. st.pc \notin Locked
    BY <1>1 DEF Locked, SyncLocked, MutationLocked
<1> QED BY <1>1, <1>2, <1>3, <1>4, <1>5, KeepsRow DEF SyncRefreshFails

-----------------------------------------------------------------------------
(* The steps that commit                                                   *)

(* What the holder writes back is the row, but for what a sync owns. *)
LEMMA WorkIsRow ==
  ASSUME IInv, NEW s \in Sessions, ses[s].pc \in Locked
  PROVE  /\ lock = s /\ row.live
         /\ ses[s].work \in Rows /\ ses[s].work.live
         /\ Health(ses[s].work) = Health(row)
         /\ ses[s].work.edit = row.edit
         /\ row.accts \subseteq ses[s].work.accts
         /\ ses[s].pc \notin SyncLocked => ses[s].work = row
  BY HolderFacts DEF Holder, Session

(* Each version is followed by another. *)
LEMMA VersionIsNat ==
  ASSUME NEW r \in Rows
  PROVE  r.version \in Nat /\ r.version + 1 \in Nat /\ r.edit + 1 \in Nat
         /\ r.creds + 1 \in Nat /\ r.creds \in Nat /\ r.edit \in Nat
  BY DEF Rows

(* A transaction that ends the session's request with a commit. *)
LEMMA LastCommit ==
  ASSUME IInv, NEW s \in Sessions, Finish(s), lock \in {None, s}, lock' = None,
         row' \in Rows, saves' \in Nat, relinks' \in Nat,
         UNCHANGED <<clock, started>>,
         row'.version >= row.version,
         row'.version = row.version => Health(row') = Health(row),
         UserWorkSurvives', DiagnosisIsSound'
  PROVE  IInv'
<1>1. Idle.pc = "idle" /\ Put(s, Idle)
    BY DEF Idle, Finish
<1> QED BY <1>1, IdleType, CommitsRow DEF Locked, SyncLocked, MutationLocked

LEMMA SyncNeedsUserKeeps ==
  ASSUME IInv, NEW s \in Sessions, SyncNeedsUser(s)
  PROVE  IInv'
<1> DEFINE w == RefreshedAt(s)
<1>1. lock = s /\ w \in Rows /\ Health(w) = Health(row) /\ w.edit = row.edit
    BY WorkIsRow, RefreshedAtType
    DEF SyncNeedsUser, Locked, SyncLocked, Health, Rows
<1>2. row' = [w EXCEPT !.status = "error", !.err = None, !.version = @ + 1]
    BY DEF SyncNeedsUser
<1> HIDE DEF w
<1>3. row' \in Rows
  <2>1. ASSUME NEW v \in Nat
        PROVE  [w EXCEPT !.status = "error", !.err = None, !.version = v] \in Rows
      BY <1>1 DEF Rows, Status
  <2> QED BY <1>1, <1>2, <2>1, VersionIsNat
<1>7. row'.version = row.version + 1 /\ row'.err = None
      /\ row'.edit = row.edit /\ row'.creds = row.creds
    BY <1>1, <1>2 DEF Rows, Health
<1>4. saves' = saves /\ relinks' = relinks /\ saves \in Nat /\ relinks \in Nat
      /\ row.version \in Nat
    BY DEF SyncNeedsUser, history, IInv, TypeOK, Rows
<1>5. UserWorkSurvives' /\ DiagnosisIsSound'
    BY <1>4, <1>7 DEF IInv, UserWorkSurvives, DiagnosisIsSound
<1>6. row'.version >= row.version /\ row'.version # row.version
    BY <1>4, <1>7
<1> QED BY <1>1, <1>3, <1>4, <1>5, <1>6, LastCommit DEF SyncNeedsUser

(* The row a sync commits. *)
LEMMA SyncCommitRow ==
  ASSUME IInv, NEW s \in Sessions, SyncCommit(s)
  PROVE  /\ row' \in Rows
         /\ row'.version = row.version + 1
         /\ row'.err = None
         /\ row'.edit = row.edit
         /\ row'.creds = row.creds
<1>1. PICK actionRequired \in BOOLEAN, incompleteBalances \in BOOLEAN,
           incompleteFetch \in BOOLEAN :
        row' = [ses[s].work EXCEPT
                  !.lastSync = IF incompleteBalances \/ incompleteFetch
                               THEN @ ELSE clock,
                  !.status = Outcome(actionRequired, incompleteBalances),
                  !.err = None,
                  !.version = @ + 1]
    BY DEF SyncCommit
<1>2. Outcome(actionRequired, incompleteBalances) \in Status
    BY DEF Outcome, Status
<1>3. clock \in Times /\ ses[s].pc \in Locked
    BY HolderFacts DEF SyncCommit, Locked, SyncLocked
<1> DEFINE w == ses[s].work
           t == Outcome(actionRequired, incompleteBalances)
           l == IF incompleteBalances \/ incompleteFetch THEN w.lastSync ELSE clock
<1>4. w \in Rows /\ Health(w) = Health(row) /\ w.edit = row.edit
    BY <1>3, WorkIsRow
<1>5. row' = [w EXCEPT !.lastSync = l, !.status = t, !.err = None,
                       !.version = w.version + 1]
    BY <1>1
<1>6. l \in Times \cup {None}
    BY <1>3, <1>4 DEF Rows
<1> HIDE DEF w, t, l
<1>7. row' \in Rows
  <2>1. ASSUME NEW v \in Nat
        PROVE  [w EXCEPT !.lastSync = l, !.status = t, !.err = None,
                         !.version = v] \in Rows
      BY <1>2, <1>4, <1>6 DEF Rows, t
  <2> QED BY <1>4, <1>5, <2>1, VersionIsNat
<1>8. row'.version = row.version + 1 /\ row'.err = None
      /\ row'.edit = row.edit /\ row'.creds = row.creds
    BY <1>4, <1>5 DEF Rows, Health
<1> QED BY <1>7, <1>8

LEMMA SyncCommitKeeps ==
  ASSUME IInv, NEW s \in Sessions, SyncCommit(s)
  PROVE  IInv'
<1> DEFINE st == [ses[s] EXCEPT !.pc = "committed", !.cur = None]
<1>1. st \in Session /\ st.pc = "committed" /\ st.snap = ses[s].snap
    BY HolderFacts DEF Session, PCs
<1>2. lock = s /\ ses[s].snap = row
    BY HolderFacts DEF SyncCommit, Holder, Locked, SyncLocked
<1>3. /\ saves' = saves /\ relinks' = relinks
      /\ saves \in Nat /\ relinks \in Nat /\ row.version \in Nat
    BY DEF SyncCommit, history, IInv, TypeOK, Rows
<1>4. Loser(st, row')
    BY <1>1, <1>2, <1>3, SyncCommitRow DEF Loser
<1>5. UserWorkSurvives' /\ DiagnosisIsSound'
    BY <1>3, SyncCommitRow DEF IInv, UserWorkSurvives, DiagnosisIsSound
<1>6. st.pc \notin Locked
    BY <1>1 DEF Locked, SyncLocked, MutationLocked
<1>7. row'.version >= row.version /\ row'.version # row.version
    BY <1>3, SyncCommitRow
<1>8. Put(s, st) /\ lock' = None
    BY DEF SyncCommit
<1> QED BY <1>1, <1>2, <1>3, <1>4, <1>5, <1>6, <1>7, <1>8, SyncCommitRow,
           CommitsRow DEF SyncCommit

(* A failure that is still current describes the row as it is. *)
LEMMA CurrentIsSeen ==
  ASSUME IInv, NEW s \in Sessions, ses[s].pc = "failed", lock \in {None, s},
         StillCurrent(s)
  PROVE  row.live /\ Health(row) = Health(ses[s].snap)
  BY HolderFacts, ConstantsAssumption DEF StillCurrent, Holder, Loser

(* The verdict of a failure is a status, and it names an account only with *)
(* a retryable failure, and one the row has.                               *)
LEMMA VerdictIsSound ==
  ASSUME IInv, NEW s \in Sessions, Health(row) = Health(ses[s].snap)
  PROVE  /\ FailStatus(ses[s]) \in Status
         /\ FailAccount(ses[s]) \in Accounts \cup {None}
         /\ FailAccount(ses[s]) # None =>
              /\ FailStatus(ses[s]) = "sync_error"
              /\ FailAccount(ses[s]) \in row.accts
<1>1. ses[s].snap.status = row.status /\ ses[s].snap.err = row.err
    BY DEF Health
<1>2. row.status \in Status /\ row.accts \subseteq Accounts
      /\ row.err \in Accounts \cup {None}
    BY HolderFacts DEF Rows
<1>3. ses[s].fail \in FailKind
    BY HolderFacts DEF Session
<1>4. row.err # None => row.status = "sync_error" /\ row.err \in row.accts
    BY DEF IInv, DiagnosisIsSound
<1>5. CASE ses[s].fail = "generic"
    BY <1>1, <1>2, <1>4, <1>5
    DEF FailStatus, FailAccount, Status, CredentialProblem
<1>6. CASE ses[s].fail # "generic"
    BY <1>1, <1>2, <1>3, <1>4, <1>6 DEF FailStatus, FailAccount, Status, FailKind
<1> QED BY <1>5, <1>6

LEMMA StampFailureKeeps ==
  ASSUME IInv, NEW s \in Sessions, StampFailure(s)
  PROVE  IInv'
<1>1. /\ saves' = saves /\ relinks' = relinks
      /\ saves \in Nat /\ relinks \in Nat /\ row \in Rows /\ row.version \in Nat
    BY DEF StampFailure, history, IInv, TypeOK, Rows
<1>2. CASE StillCurrent(s)
  <2>1. row' = [row EXCEPT !.status = FailStatus(ses[s]),
                           !.err = FailAccount(ses[s]), !.version = @ + 1]
      BY <1>2 DEF StampFailure
  <2>2. Health(row) = Health(ses[s].snap)
      BY <1>2, CurrentIsSeen DEF StampFailure
  <2>3. /\ row'.version = row.version + 1
        /\ row'.edit = row.edit /\ row'.creds = row.creds
        /\ row'.err = FailAccount(ses[s]) /\ row'.status = FailStatus(ses[s])
        /\ row'.accts = row.accts
      BY <1>1, <2>1 DEF Rows
  <2>6. row' \in Rows
    <3>1. ASSUME NEW v \in Nat
          PROVE  [row EXCEPT !.status = FailStatus(ses[s]),
                             !.err = FailAccount(ses[s]), !.version = v] \in Rows
        BY <1>1, <2>2, VerdictIsSound DEF Rows
    <3> QED BY <1>1, <2>1, <3>1, VersionIsNat
  <2>4. UserWorkSurvives' /\ DiagnosisIsSound'
      BY <1>1, <2>2, <2>3, VerdictIsSound
      DEF IInv, UserWorkSurvives, DiagnosisIsSound
  <2>5. row'.version >= row.version /\ row'.version # row.version
      BY <1>1, <2>3
  <2> QED BY <1>1, <2>4, <2>5, <2>6, LastCommit DEF StampFailure
<1>3. CASE ~StillCurrent(s)
  <2>1. row' = row
      BY <1>3 DEF StampFailure
  <2>2. UserWorkSurvives' /\ DiagnosisIsSound'
      BY <1>1, <2>1 DEF IInv, UserWorkSurvives, DiagnosisIsSound
  <2>3. row'.version >= row.version /\ Health(row') = Health(row)
      BY <1>1, <2>1
  <2> QED BY <1>1, <2>1, <2>2, <2>3, LastCommit DEF StampFailure
<1> QED BY <1>2, <1>3

LEMMA ReconnectCommitKeeps ==
  ASSUME IInv, NEW s \in Sessions, ReconnectCommit(s)
  PROVE  IInv'
<1>1. lock = s /\ ses[s].work = row
    BY WorkIsRow DEF ReconnectCommit, Locked, MutationLocked, SyncLocked
<1>2. PICK unavailable \in BOOLEAN :
        row' = [row EXCEPT
                  !.status = IF unavailable THEN "sync_error" ELSE "active",
                  !.err = None, !.version = @ + 1, !.lastSync = None,
                  !.creds = @ + 1, !.observed = clock]
    BY <1>1 DEF ReconnectCommit
<1>3. /\ saves' = saves /\ relinks' = relinks + 1
      /\ saves \in Nat /\ relinks \in Nat /\ row \in Rows /\ row.version \in Nat
      /\ clock \in Times
    BY DEF ReconnectCommit, IInv, TypeOK, Rows
<1>4. /\ row'.version = row.version + 1 /\ row'.err = None
      /\ row'.edit = row.edit /\ row'.creds = row.creds + 1
    BY <1>2, <1>3 DEF Rows
<1>8. row' \in Rows
  <2>1. ASSUME NEW v \in Nat, NEW c \in Nat
        PROVE  [row EXCEPT
                  !.status = IF unavailable THEN "sync_error" ELSE "active",
                  !.err = None, !.version = v, !.lastSync = None,
                  !.creds = c, !.observed = clock] \in Rows
      BY <1>3 DEF Rows, Status
  <2> QED BY <1>2, <1>3, <2>1, VersionIsNat
<1>5. UserWorkSurvives' /\ DiagnosisIsSound'
    BY <1>3, <1>4 DEF IInv, UserWorkSurvives, DiagnosisIsSound
<1>6. row'.version >= row.version /\ row'.version # row.version
    BY <1>3, <1>4
<1>7. relinks' \in Nat
    BY <1>3
<1> QED BY <1>1, <1>3, <1>4, <1>5, <1>6, <1>7, <1>8, LastCommit
        DEF ReconnectCommit

LEMMA SaveCommitKeeps ==
  ASSUME IInv, NEW s \in Sessions, SaveCommit(s)
  PROVE  IInv'
<1>1. lock = s /\ ses[s].work = row
    BY WorkIsRow DEF SaveCommit, Locked, MutationLocked, SyncLocked
<1>2. row' = [row EXCEPT !.edit = row.edit + 1, !.refresh = row.refresh,
                         !.observed = row.observed]
    BY <1>1 DEF SaveCommit
<1>3. /\ saves' = saves + 1 /\ relinks' = relinks
      /\ saves \in Nat /\ relinks \in Nat /\ row \in Rows /\ row.version \in Nat
    BY DEF SaveCommit, IInv, TypeOK, Rows
<1>4. /\ row'.edit = row.edit + 1
      /\ Health(row') = Health(row) /\ row'.accts = row.accts
      /\ row'.version = row.version
    BY <1>2, <1>3 DEF Rows, Health
<1>7. row' \in Rows
  <2>1. ASSUME NEW d \in Nat
        PROVE  [row EXCEPT !.edit = d, !.refresh = row.refresh,
                           !.observed = row.observed] \in Rows
      BY <1>3 DEF Rows
  <2> QED BY <1>2, <1>3, <2>1, VersionIsNat
<1>5. UserWorkSurvives' /\ DiagnosisIsSound'
    BY <1>3, <1>4 DEF IInv, UserWorkSurvives, DiagnosisIsSound, Health
<1>6. row'.version >= row.version /\ saves' \in Nat
    BY <1>3, <1>4
<1> QED BY <1>1, <1>3, <1>4, <1>5, <1>6, <1>7, LastCommit DEF SaveCommit

LEMMA DeleteCommitKeeps ==
  ASSUME IInv, NEW s \in Sessions, DeleteCommit(s)
  PROVE  IInv'
<1>1. lock = s
    BY WorkIsRow DEF DeleteCommit, Locked, MutationLocked
<1>2. /\ saves' = saves /\ relinks' = relinks
      /\ saves \in Nat /\ relinks \in Nat /\ row \in Rows /\ row.version \in Nat
    BY DEF DeleteCommit, history, IInv, TypeOK, Rows
<1>3. /\ row' \in Rows /\ row'.edit = row.edit /\ row'.accts = row.accts
      /\ Health(row') = Health(row) /\ row'.version = row.version
    BY <1>2 DEF DeleteCommit, Rows, Health
<1>4. UserWorkSurvives' /\ DiagnosisIsSound'
    BY <1>2, <1>3 DEF IInv, UserWorkSurvives, DiagnosisIsSound, Health
<1>5. row'.version >= row.version
    BY <1>2, <1>3
<1> QED BY <1>1, <1>2, <1>3, <1>4, <1>5, LastCommit DEF DeleteCommit

LEMMA TickKeeps ==
  ASSUME IInv, Tick
  PROVE  IInv'
<1>1. TypeOK'
    BY ConstantsAssumption DEF IInv, TypeOK, Tick, Times, history
<1> QED BY <1>1 DEF IInv, Tick, history, HolderIsAlone, HolderSeesCurrentRow,
           WorkIsOwn, VersionTellsChange, UserWorkSurvives, DiagnosisIsSound

-----------------------------------------------------------------------------
(* The invariant                                                           *)

LEMMA RequestKeeps ==
  ASSUME IInv, NEW s \in Sessions, Request(s)
  PROVE  IInv'
<1>1. RefreshDue \in BOOLEAN
    BY DEF RefreshDue
<1>2. {"syncWait", "reconWait", "editWait", "delWait"} \subseteq Waiting
    BY DEF Waiting
<1> QED BY <1>1, <1>2, StartKeeps
        DEF Request, RequestSync, SelectForSync, RequestReconnect, RequestSave,
            RequestDelete

LEMMA SyncStepKeeps ==
  ASSUME IInv, NEW s \in Sessions, SyncStep(s)
  PROVE  IInv'
<1>1. CASE SyncLock(s)
    BY <1>1, ReadForUpdateKeeps DEF SyncLock, Waiting
<1>2. CASE SyncUnconfigured(s)
    BY <1>2, RollBackKeeps DEF SyncUnconfigured, Locked, SyncLocked
<1> QED BY <1>1, <1>2, SyncRefreshKeeps, SyncNeedsUserKeeps,
           SyncReadAccountsKeeps, SyncImportKeeps, SyncCommitKeeps,
           SyncDoneKeeps, SyncFailKeeps, SyncCommitFailsKeeps,
           SyncRefreshFailsKeeps, StampFailureKeeps
        DEF SyncStep

LEMMA MutationStepKeeps ==
  ASSUME IInv, NEW s \in Sessions, MutationStep(s)
  PROVE  IInv'
<1>1. CASE ReconnectLock(s) \/ SaveLock(s) \/ DeleteLock(s)
    BY <1>1, ReadForUpdateKeeps
    DEF ReconnectLock, SaveLock, DeleteLock, Waiting, MutationLocked
<1>2. CASE ReconnectRefused(s) \/ DeleteRefused(s)
    BY <1>2, RollBackKeeps
    DEF ReconnectRefused, DeleteRefused, Locked, MutationLocked
<1> QED BY <1>1, <1>2, ReconnectCommitKeeps, SaveCommitKeeps,
           DeleteCommitKeeps, LockTimeoutKeeps
        DEF MutationStep

LEMMA NextInv == IInv /\ [Next]_vars => IInv'
<1> SUFFICES ASSUME IInv, [Next]_vars PROVE IInv'
    OBVIOUS
<1>1. CASE Next
    BY <1>1, RequestKeeps, SyncStepKeeps, MutationStepKeeps, CrashKeeps,
       TickKeeps
    DEF Next
<1>2. CASE UNCHANGED vars
    BY <1>2 DEF vars, history, IInv, TypeOK, HolderIsAlone,
        HolderSeesCurrentRow, WorkIsOwn, VersionTellsChange, UserWorkSurvives,
        DiagnosisIsSound
<1> QED BY <1>1, <1>2

LEMMA Invariance == Spec => []IInv
  BY InitInv, NextInv, PTL DEF Spec

(* Every variable keeps its type.  *)
THEOREM TypeCorrect == Spec => []TypeOK
  BY Invariance, PTL DEF IInv

(* No two handlers of one connection are past their row lock at once, and  *)
(* what the holder of the lock read is what the row still is.              *)
THEOREM LockIsolates == Spec => [](HolderIsAlone /\ HolderSeesCurrentRow)
  BY Invariance, PTL DEF IInv

(* What a holder has read stays what the row is: nothing is written past   *)
(* the lock.                                                               *)
THEOREM HolderReadsCurrentRow == Spec => []HolderSeesCurrentRow
  BY Invariance, PTL DEF IInv

(* What a sync has not committed differs from the row in the sync's own    *)
(* columns only, so its commit undoes nobody's work.                       *)
THEOREM UncommittedWorkIsOwn == Spec => []WorkIsOwn
  BY Invariance, PTL DEF IInv

(* An equal version is proof of an equal diagnosis: the test a late        *)
(* failure rests on is sound.                                              *)
THEOREM VersionIsEvidence == Spec => []VersionTellsChange
  BY Invariance, PTL DEF IInv

(* No settings save and no reconnect is ever lost to a sync.  *)
THEOREM NoUserWorkLost == Spec => []UserWorkSurvives
  BY Invariance, PTL DEF IInv

(* The account a connection's error names is one of its accounts.  *)
THEOREM SoundDiagnosis == Spec => []DiagnosisIsSound
  BY Invariance, PTL DEF IInv

-----------------------------------------------------------------------------
(* What a step may never do                                                *)

Commits(s) ==
    \/ SyncNeedsUser(s) \/ SyncCommit(s) \/ StampFailure(s)
    \/ ReconnectCommit(s) \/ SaveCommit(s) \/ DeleteCommit(s)

(* The row changes by the commit of one session, and no other session      *)
(* moves.                                                                  *)
LEMMA ChangesCommit ==
  ASSUME IInv, [Next]_vars, row' # row
  PROVE  \E s \in Sessions : /\ Commits(s)
                             /\ \A t \in Sessions : t # s => ses'[t] = ses[t]
<1>1. Next
    BY DEF vars
<1>2. PICK s \in Sessions : Request(s) \/ SyncStep(s) \/ MutationStep(s) \/ Crash(s)
    BY <1>1 DEF Next, Tick
<1>3. ~Request(s) /\ ~Crash(s)
    BY DEF Request, RequestSync, SelectForSync, RequestReconnect, RequestSave,
           RequestDelete, Start, Crash
<1>4. SyncStep(s) => Commits(s)
    BY DEF SyncStep, Commits, SyncLock, ReadForUpdate, SyncUnconfigured,
           RollBack, SyncRefresh, SyncReadAccounts, SyncImport, SyncDone,
           SyncFail, SyncCommitFails, SyncRefreshFails
<1>5. MutationStep(s) => Commits(s)
    BY DEF MutationStep, Commits, ReconnectLock, SaveLock, DeleteLock,
           ReadForUpdate, ReconnectRefused, DeleteRefused, RollBack, LockTimeout
<1>6. Commits(s)
    BY <1>2, <1>3, <1>4, <1>5
<1>7. Commits(s) => \E st : ses' = [ses EXCEPT ![s] = st]
    BY DEF Commits, SyncNeedsUser, SyncCommit, StampFailure, ReconnectCommit,
           SaveCommit, DeleteCommit, Finish, Put
<1> QED BY <1>6, <1>7 DEF IInv, TypeOK

(* A session that commits and had not failed holds the lock, and the row   *)
(* is live.                                                                *)
LEMMA CommitsLive ==
  ASSUME IInv, NEW s \in Sessions, Commits(s), row' # row
  PROVE  /\ row.live
         /\ ses[s].pc = "failed" =>
              StampFailure(s) /\ Health(row) = Health(ses[s].snap)
<1>1. CASE StampFailure(s)
    BY <1>1, CurrentIsSeen DEF StampFailure
<1>2. CASE ~StampFailure(s)
  <2>1. ses[s].pc \in Locked /\ ses[s].pc # "failed"
      BY <1>2 DEF Commits, SyncNeedsUser, SyncCommit, ReconnectCommit,
                  SaveCommit, DeleteCommit, Locked, SyncLocked, MutationLocked
  <2> QED BY <2>1, WorkIsRow
<1> QED BY <1>1, <1>2

(* A failure is stored only on the row, as far as the connection's health  *)
(* goes, that the failed sync had read.                                    *)
THEOREM StaleFailureDropped == Spec => StaleFailureIsDropped
<1>1. ASSUME IInv, [Next]_vars, NEW s \in Sessions, ses[s].pc = "failed",
             ses'[s].pc = "idle", row' # row
      PROVE  row.live /\ Health(row) = Health(ses[s].snap)
  <2>1. PICK t \in Sessions : /\ Commits(t)
                             /\ \A u \in Sessions : u # t => ses'[u] = ses[u]
      BY <1>1, ChangesCommit
  <2>2. t = s
      BY <1>1, <2>1
  <2> QED BY <1>1, <2>1, <2>2, CommitsLive
<1>2. IInv /\ [Next]_vars =>
        [\A s \in Sessions :
            ses[s].pc = "failed" /\ ses'[s].pc = "idle" /\ row' # row
              => row.live /\ Health(row) = Health(ses[s].snap)]_vars
    BY <1>1
<1> QED BY <1>2, Invariance, PTL DEF Spec, StaleFailureIsDropped

(* Only a sync that read the provider or a reconnect ends a credential     *)
(* problem.                                                                *)
THEOREM CredentialProblemKept == Spec => CredentialProblemSticks
<1>1. ASSUME IInv, [Next]_vars,
             row.status \in CredentialProblem, row'.status \notin CredentialProblem
      PROVE  \/ relinks' = relinks + 1
             \/ \E s \in Sessions : ses[s].pc = "import" /\ ses'[s].pc = "committed"
  <2>1. PICK s \in Sessions : Commits(s)
      BY <1>1, ChangesCommit
  <2>2. row \in Rows /\ ses[s] \in Session /\ ses[s].work \in Rows
      BY <1>1, HolderFacts DEF Session
  <2>3. CASE SyncNeedsUser(s)
    <3>1. RefreshedAt(s) \in Rows
        BY <1>1, RefreshedAtType
    <3>2. row'.status = "error"
        BY <2>3, <3>1 DEF SyncNeedsUser, Rows
    <3> QED BY <1>1, <3>2 DEF CredentialProblem
  <2>4. CASE SyncCommit(s)
    <3>1. ses' = [ses EXCEPT ![s] = [ses[s] EXCEPT !.pc = "committed", !.cur = None]]
        BY <2>4 DEF SyncCommit, Put
    <3>2. ses'[s].pc = "committed"
        BY <1>1, <2>2, <3>1 DEF IInv, TypeOK, Session
    <3> QED BY <2>4, <3>2 DEF SyncCommit
  <2>5. CASE StampFailure(s)
    <3>1. row' # row
        BY <1>1
    <3>2. StillCurrent(s) /\ row'.status = FailStatus(ses[s])
        BY <2>2, <2>5, <3>1 DEF StampFailure, Rows
    <3>3. Health(row) = Health(ses[s].snap)
        BY <1>1, <2>5, <3>2, CurrentIsSeen DEF StampFailure
    <3>4. ses[s].snap.status = row.status
        BY <3>3 DEF Health
    <3> QED BY <1>1, <3>2, <3>4 DEF FailStatus, CredentialProblem
  <2>6. CASE ReconnectCommit(s)
      BY <2>6 DEF ReconnectCommit
  <2>7. CASE SaveCommit(s) \/ DeleteCommit(s)
    <3>1. row'.status = row.status
        BY <2>2, <2>7 DEF SaveCommit, DeleteCommit, Rows
    <3> QED BY <1>1, <3>1
  <2> QED BY <2>1, <2>3, <2>4, <2>5, <2>6, <2>7 DEF Commits
<1>2. IInv /\ [Next]_vars =>
        [row.status \in CredentialProblem /\ row'.status \notin CredentialProblem
           => \/ relinks' = relinks + 1
              \/ \E s \in Sessions :
                    ses[s].pc = "import" /\ ses'[s].pc = "committed"]_vars
    BY <1>1
<1> QED BY <1>2, Invariance, PTL DEF Spec, CredentialProblemSticks

-----------------------------------------------------------------------------
(* The operations happen in one step                                       *)

(* What a sync has recorded and not committed it recorded in the past, and *)
(* at first it has recorded nothing: the abstract connection does it all   *)
(* at the commit and needs to know.                                        *)
Timely(st) ==
    /\ st.work.refresh \in (0 .. clock) \cup {row.refresh}
    /\ st.pc = "import" => st.work.observed \in 0 .. clock
    /\ st.pc = "begun" => st.work = row

WorkIsTimely == \A s \in Sessions : lock = s => Timely(ses[s])

(* A step that leaves the clock and the row alone keeps this if the        *)
(* session that moves does.                                                *)
LEMMA TimelyStep ==
  ASSUME IInv, WorkIsTimely, NEW s \in Sessions, NEW st, Put(s, st),
         UNCHANGED <<row, clock>>, lock' \in {lock, s, None},
         lock' = s => Timely(st)
  PROVE  WorkIsTimely'
<1> SUFFICES ASSUME NEW t \in Sessions, lock' = t
             PROVE  Timely(ses[t])'
    BY DEF WorkIsTimely
<1>1. CASE t = s
  <2>1. ses'[t] = st
      BY <1>1 DEF Put, IInv, TypeOK
  <2> QED BY <1>1, <2>1 DEF Timely
<1>2. CASE t # s
  <2>1. ses'[t] = ses[t] /\ lock = t
      BY <1>2, ConstantsAssumption DEF Put, IInv, TypeOK
  <2> QED BY <2>1 DEF WorkIsTimely, Timely
<1> QED BY <1>1, <1>2

LEMMA TimelyFinish ==
  ASSUME IInv, WorkIsTimely, NEW s \in Sessions, NEW st, Put(s, st),
         UNCHANGED <<row, clock>>, lock' \in {lock, None}, lock' # s
  PROVE  WorkIsTimely'
  BY TimelyStep

LEMMA TimelyRead ==
  ASSUME IInv, WorkIsTimely, NEW s \in Sessions, NEW from,
         NEW to \in {"begun"} \cup MutationLocked, ReadForUpdate(s, from, to)
  PROVE  WorkIsTimely'
<1> DEFINE st == [ses[s] EXCEPT !.pc = to, !.snap = row, !.work = row]
<1>1. CASE row.live
  <2>1. st.pc = to /\ st.work = row
      BY HolderFacts DEF Session
  <2>2. Timely(st)
      BY <2>1 DEF Timely, MutationLocked
  <2> QED BY <1>1, <2>2, TimelyStep DEF ReadForUpdate
<1>2. CASE ~row.live
    BY <1>2, TimelyFinish, ConstantsAssumption DEF ReadForUpdate, Finish
<1> QED BY <1>1, <1>2

LEMMA TimelyRefresh ==
  ASSUME IInv, WorkIsTimely, NEW s \in Sessions, SyncRefresh(s)
  PROVE  WorkIsTimely'
<1> DEFINE st == [ses[s] EXCEPT !.pc = "reading", !.work = RefreshedAt(s)]
<1>1. lock = s /\ ses[s] \in Session /\ clock \in Times
    BY HolderFacts DEF SyncRefresh, Locked, SyncLocked
<1>2. st.pc = "reading" /\ st.work = RefreshedAt(s)
    BY <1>1 DEF Session
<1>3. RefreshedAt(s).refresh \in {clock, ses[s].work.refresh}
    BY <1>1 DEF RefreshedAt, Session, Rows
<1>4. clock \in 0 .. clock
    BY <1>1, ConstantsAssumption DEF Times
<1>5. Timely(st)
    BY <1>1, <1>2, <1>3, <1>4 DEF Timely, WorkIsTimely
<1> QED BY <1>5, TimelyStep DEF SyncRefresh

LEMMA TimelyReadAccounts ==
  ASSUME IInv, WorkIsTimely, NEW s \in Sessions, SyncReadAccounts(s)
  PROVE  WorkIsTimely'
<1>1. PICK accts \in SUBSET Accounts :
        Put(s, [ses[s] EXCEPT !.pc = "import", !.work.observed = clock,
                              !.todo = accts])
    BY DEF SyncReadAccounts
<1> DEFINE st == [ses[s] EXCEPT !.pc = "import", !.work.observed = clock,
                                !.todo = accts]
<1>2. lock = s /\ ses[s] \in Session /\ clock \in Times
    BY HolderFacts DEF SyncReadAccounts, Locked, SyncLocked
<1>3. st.work.refresh = ses[s].work.refresh /\ st.work.observed = clock
      /\ st.pc = "import"
    BY <1>2 DEF Session, Rows
<1>4. clock \in 0 .. clock
    BY <1>2, ConstantsAssumption DEF Times
<1>5. Timely(st)
    BY <1>2, <1>3, <1>4 DEF Timely, WorkIsTimely
<1> QED BY <1>1, <1>5, TimelyStep DEF SyncReadAccounts

LEMMA TimelyImport ==
  ASSUME IInv, WorkIsTimely, NEW s \in Sessions, SyncImport(s)
  PROVE  WorkIsTimely'
<1>1. lock = s /\ ses[s] \in Session /\ ses[s].pc = "import"
    BY HolderFacts DEF SyncImport, Locked, SyncLocked
<1>2. PICK st : /\ Put(s, st)
                /\ st.work.refresh = ses[s].work.refresh
                /\ st.work.observed = ses[s].work.observed
                /\ st.pc = "import"
  <2>1. PICK a \in ses[s].todo :
          \/ Put(s, [ses[s] EXCEPT !.work.accts = @ \cup {a}, !.cur = a,
                                   !.todo = @ \ {a}])
          \/ Put(s, [ses[s] EXCEPT !.cur = None, !.todo = @ \ {a}])
      BY DEF SyncImport
  <2>2. CASE Put(s, [ses[s] EXCEPT !.work.accts = @ \cup {a}, !.cur = a,
                                   !.todo = @ \ {a}])
    <3> DEFINE st == [ses[s] EXCEPT !.work.accts = @ \cup {a}, !.cur = a,
                                    !.todo = @ \ {a}]
    <3>1. /\ st.work.refresh = ses[s].work.refresh
          /\ st.work.observed = ses[s].work.observed
          /\ st.pc = "import"
        BY <1>1 DEF Session, Rows
    <3> QED BY <2>2, <3>1
  <2>3. CASE Put(s, [ses[s] EXCEPT !.cur = None, !.todo = @ \ {a}])
    <3> DEFINE st == [ses[s] EXCEPT !.cur = None, !.todo = @ \ {a}]
    <3>1. st.work = ses[s].work /\ st.pc = "import"
        BY <1>1 DEF Session
    <3> QED BY <2>3, <3>1
  <2> QED BY <2>1, <2>2, <2>3
<1>3. Timely(st)
    BY <1>1, <1>2 DEF Timely, WorkIsTimely
<1> QED BY <1>2, <1>3, TimelyStep DEF SyncImport

LEMMA TimelyFail ==
  ASSUME IInv, WorkIsTimely, NEW s \in Sessions, SyncFail(s)
  PROVE  WorkIsTimely'
<1>1. lock = s /\ ses[s] \in Session /\ ses[s].snap = row
    BY HolderFacts DEF SyncFail, Locked, Holder
<1>2. PICK kind \in FailKind, acct \in {ses[s].cur, None} :
        Put(s, [ses[s] EXCEPT !.pc = "failed", !.work = ses[s].snap,
                              !.fail = kind, !.cur = acct])
    BY DEF SyncFail
<1> DEFINE st == [ses[s] EXCEPT !.pc = "failed", !.work = ses[s].snap,
                                !.fail = kind, !.cur = acct]
<1>3. st.work = row /\ st.pc = "failed"
    BY <1>1 DEF Session
<1>4. Timely(st)
    BY <1>3 DEF Timely
<1> QED BY <1>2, <1>4, TimelyStep DEF SyncFail

(* A session that waits, has committed or has lost the lock holds nothing. *)
LEMMA NotHolder ==
  ASSUME IInv, NEW s \in Sessions,
         ses[s].pc \in Waiting \cup {"idle", "committed"}
  PROVE  lock # s
  BY HolderFacts DEF Holder, Waiting, Locked, SyncLocked, MutationLocked

LEMMA TimelyInv == IInv /\ WorkIsTimely /\ [Next]_vars => WorkIsTimely'
<1> SUFFICES ASSUME IInv, WorkIsTimely, [Next]_vars
             PROVE  WorkIsTimely'
    OBVIOUS
<1>1. CASE row' # row
  <2>1. PICK s \in Sessions : Commits(s)
      BY <1>1, ChangesCommit
  <2>2. lock' = None
      BY <2>1 DEF Commits, SyncNeedsUser, SyncCommit, StampFailure,
                  ReconnectCommit, SaveCommit, DeleteCommit
  <2> QED BY <2>2, ConstantsAssumption DEF WorkIsTimely
<1>2. CASE UNCHANGED vars
    BY <1>2 DEF vars, WorkIsTimely, Timely
<1>3. CASE Tick
  <2>1. \A x : x \in 0 .. clock => x \in 0 .. clock'
      BY <1>3 DEF Tick, IInv, TypeOK, Times
  <2> QED BY <1>3, <2>1 DEF Tick, WorkIsTimely, Timely
<1>4. ASSUME NEW s \in Sessions, Commits(s)
      PROVE  WorkIsTimely'
  <2>1. lock' = None
      BY <1>4 DEF Commits, SyncNeedsUser, SyncCommit, StampFailure,
                  ReconnectCommit, SaveCommit, DeleteCommit
  <2> QED BY <2>1, ConstantsAssumption DEF WorkIsTimely
<1>5. ASSUME NEW s \in Sessions, Request(s)
      PROVE  WorkIsTimely'
  <2>1. PICK st : Put(s, st) /\ lock' = lock /\ UNCHANGED <<row, clock>>
                  /\ ses[s].pc = "idle"
      BY <1>5 DEF Request, RequestSync, SelectForSync, RequestReconnect,
                  RequestSave, RequestDelete, Start, Put
  <2> QED BY <2>1, NotHolder, TimelyFinish
<1>6. ASSUME NEW s \in Sessions,
             SyncDone(s) \/ LockTimeout(s) \/ SyncRefreshFails(s)
      PROVE  WorkIsTimely'
  <2>1. PICK st : Put(s, st) /\ lock' = lock /\ UNCHANGED <<row, clock>>
                  /\ ses[s].pc \in Waiting \cup {"committed"}
      BY <1>6 DEF SyncDone, LockTimeout, SyncRefreshFails, Finish, Waiting,
                  Bounded
  <2> QED BY <2>1, NotHolder, TimelyFinish
<1>7. ASSUME NEW s \in Sessions,
             \/ SyncUnconfigured(s) \/ SyncCommitFails(s)
             \/ ReconnectRefused(s) \/ DeleteRefused(s) \/ Crash(s)
      PROVE  WorkIsTimely'
  <2>1. PICK st : Put(s, st) /\ lock' \in {lock, None} /\ lock' # s
                  /\ UNCHANGED <<row, clock>>
      BY <1>7, ConstantsAssumption
      DEF SyncUnconfigured, SyncCommitFails, ReconnectRefused, DeleteRefused,
          Crash, RollBack, Finish
  <2> QED BY <2>1, TimelyFinish
<1>8. ASSUME NEW s \in Sessions,
             SyncLock(s) \/ ReconnectLock(s) \/ SaveLock(s) \/ DeleteLock(s)
      PROVE  WorkIsTimely'
    BY <1>8, TimelyRead
    DEF SyncLock, ReconnectLock, SaveLock, DeleteLock, MutationLocked
<1> QED BY <1>2, <1>3, <1>4, <1>5, <1>6, <1>7, <1>8, TimelyRefresh,
           TimelyReadAccounts, TimelyImport, TimelyFail
        DEF Next, SyncStep, MutationStep, Commits

LEMMA CommitFacts ==
  ASSUME IInv, NEW s \in Sessions, Commits(s)
  PROVE  /\ row \in Rows /\ ses[s] \in Session /\ ses[s].work \in Rows
         /\ clock \in Times /\ clock' = clock
         /\ clock \in 0 .. clock
         /\ ses[s].pc # "failed" => lock = s /\ Holder(ses[s])
<1>1. ses[s].pc # "failed" => ses[s].pc \in Locked
    BY DEF Commits, SyncNeedsUser, SyncCommit, StampFailure, ReconnectCommit,
           SaveCommit, DeleteCommit, Locked, SyncLocked, MutationLocked
<1>2. clock' = clock
    BY DEF Commits, SyncNeedsUser, SyncCommit, StampFailure, ReconnectCommit,
           SaveCommit, DeleteCommit
<1>3. clock \in Times
    BY HolderFacts
<1>4. clock \in 0 .. clock
    BY <1>3, ConstantsAssumption DEF Times
<1> QED BY <1>1, <1>2, <1>3, <1>4, HolderFacts DEF Session

(* What the holder writes differs from the row only where a sync may write. *)
LEMMA WorkDiffers ==
  ASSUME NEW r \in Rows, NEW w \in Rows, Health(w) = Health(r),
         w.live, r.live, w.edit = r.edit
  PROVE  w = [r EXCEPT !.refresh = w.refresh, !.observed = w.observed,
                       !.accts = w.accts]
<1>1. /\ w.live = r.live /\ w.status = r.status /\ w.err = r.err
      /\ w.version = r.version /\ w.lastSync = r.lastSync
      /\ w.creds = r.creds /\ w.edit = r.edit
    BY DEF Rows, Health
<1> QED BY <1>1 DEF Rows

LEMMA SyncedImplements ==
  ASSUME IInv, WorkIsTimely, NEW s \in Sessions, SyncCommit(s)
  PROVE  Abstract!Synced
<1> DEFINE w == ses[s].work
<1>1. /\ row \in Rows /\ w \in Rows /\ lock = s /\ ses[s].pc = "import"
      /\ Health(w) = Health(row) /\ w.live /\ row.live
      /\ w.edit = row.edit /\ row.accts \subseteq w.accts
    BY CommitFacts DEF Commits, SyncCommit, Holder
<1>2. /\ w.refresh \in (0 .. clock) \cup {row.refresh}
      /\ w.observed \in 0 .. clock
    BY <1>1 DEF WorkIsTimely, Timely
<1>3. PICK actionRequired \in BOOLEAN, incompleteBalances \in BOOLEAN,
           incompleteFetch \in BOOLEAN :
        row' = [w EXCEPT
                  !.lastSync = IF incompleteBalances \/ incompleteFetch
                               THEN @ ELSE clock,
                  !.status = Outcome(actionRequired, incompleteBalances),
                  !.err = None,
                  !.version = @ + 1]
    BY DEF SyncCommit
<1> DEFINE st == Outcome(actionRequired, incompleteBalances)
           last == IF incompleteBalances \/ incompleteFetch
                   THEN row.lastSync ELSE clock
<1>4. st \in {"active", "sync_error", "error"}
    BY DEF Outcome
<1>5. last \in {row.lastSync, clock} /\ (st = "sync_error" => last = row.lastSync)
    BY DEF Outcome
<1>6. w.lastSync = row.lastSync /\ w.version = row.version
    BY <1>1 DEF Health
<1>7. w = [row EXCEPT !.refresh = w.refresh, !.observed = w.observed,
                      !.accts = w.accts]
    BY <1>1, WorkDiffers
<1>8. w.accts \in SUBSET Accounts /\ w.accts = row.accts \cup w.accts
    BY <1>1 DEF Rows
<1>9. row' = [w EXCEPT !.lastSync = last, !.status = st, !.err = None,
                       !.version = row.version + 1]
    BY <1>3, <1>6
<1> HIDE DEF w, st, last
<1>10. row' = [row EXCEPT !.status = st, !.err = None,
                          !.version = row.version + 1, !.lastSync = last,
                          !.refresh = w.refresh, !.observed = w.observed,
                          !.accts = row.accts \cup w.accts]
  <2> DEFINE rf == w.refresh
             ob == w.observed
             ac == w.accts
             v == row.version + 1
  <2>1. w = [row EXCEPT !.refresh = rf, !.observed = ob, !.accts = ac]
      BY <1>7
  <2>2. row' = [w EXCEPT !.lastSync = last, !.status = st, !.err = None,
                         !.version = v]
      BY <1>9
  <2>3. row.accts \cup w.accts = ac
      BY <1>8
  <2> HIDE DEF rf, ob, ac, v
  <2>4. row' = [row EXCEPT !.status = st, !.err = None, !.version = v,
                           !.lastSync = last, !.refresh = rf, !.observed = ob,
                           !.accts = ac]
      BY <1>1, <2>1, <2>2 DEF Rows
  <2> QED BY <2>3, <2>4 DEF rf, ob, ac, v
<1> QED BY <1>2, <1>4, <1>5, <1>8, <1>10 DEF Abstract!Synced, Abstract!Now

LEMMA NeedsUserImplements ==
  ASSUME IInv, WorkIsTimely, NEW s \in Sessions, SyncNeedsUser(s)
  PROVE  Abstract!NeedsUser
<1> DEFINE w == ses[s].work
<1>1. /\ row \in Rows /\ w \in Rows /\ Health(w) = Health(row)
      /\ w.live /\ row.live /\ w.edit = row.edit /\ w = row
    BY CommitFacts DEF Commits, SyncNeedsUser, Holder, WorkIsTimely, Timely
<1>2. row' = [[row EXCEPT !.refresh = clock]
                EXCEPT !.status = "error", !.err = None, !.version = @ + 1]
    BY <1>1 DEF SyncNeedsUser, RefreshedAt
<1>3. ASSUME NEW v
      PROVE  [[row EXCEPT !.refresh = clock]
                EXCEPT !.status = "error", !.err = None, !.version = v]
             = [row EXCEPT !.status = "error", !.err = None, !.version = v,
                           !.refresh = clock]
    BY <1>1 DEF Rows
<1>4. [row EXCEPT !.refresh = clock].version = row.version
    BY <1>1 DEF Rows
<1> QED BY <1>2, <1>3, <1>4 DEF Abstract!NeedsUser

LEMMA FailureImplements ==
  ASSUME IInv, NEW s \in Sessions, StampFailure(s), row' # row
  PROVE  Abstract!Rejected \/ Abstract!Throttled \/ Abstract!Failed
<1>1. StillCurrent(s)
    BY DEF StampFailure
<1>2. Health(row) = Health(ses[s].snap)
    BY <1>1, CurrentIsSeen DEF StampFailure
<1>3. ses[s].snap.status = row.status /\ ses[s].snap.err = row.err
    BY <1>2 DEF Health
<1>4. row \in Rows /\ ses[s].fail \in FailKind
    BY HolderFacts DEF Session
<1>5. row' = [row EXCEPT !.status = FailStatus(ses[s]),
                         !.err = FailAccount(ses[s]),
                         !.version = @ + 1]
    BY <1>1 DEF StampFailure
<1>6. CASE ses[s].fail \in {"expired", "action"}
  <2>1. FailStatus(ses[s]) \in {"error", "expired"} /\ FailAccount(ses[s]) = None
      BY <1>6 DEF FailStatus, FailAccount
  <2> QED BY <1>5, <2>1 DEF Abstract!Rejected
<1>7. CASE \/ ses[s].fail = "limited"
           \/ ses[s].fail = "generic" /\ row.status \in CredentialProblem
  <2>1. FailStatus(ses[s]) = row.status /\ FailAccount(ses[s]) = row.err
      BY <1>3, <1>7 DEF FailStatus, FailAccount
  <2>2. [row EXCEPT !.status = row.status, !.err = row.err, !.version = @ + 1]
          = [row EXCEPT !.version = @ + 1]
      BY <1>4 DEF Rows
  <2>3. Abstract!Throttled
      BY <1>5, <2>1, <2>2 DEF Abstract!Throttled
  <2> QED BY <2>3
<1>8. CASE ses[s].fail = "generic" /\ row.status \notin CredentialProblem
  <2>1. /\ FailStatus(ses[s]) = "sync_error"
        /\ FailAccount(ses[s]) \in row.accts \cup {None}
      BY <1>3, <1>8 DEF FailStatus, FailAccount
  <2>2. Abstract!Failed
      BY <1>5, <1>8, <2>1 DEF Abstract!Failed, CredentialProblem
  <2> QED BY <2>2
<1> QED BY <1>4, <1>6, <1>7, <1>8 DEF FailKind

LEMMA MutationImplements ==
  ASSUME IInv, NEW s \in Sessions,
         ReconnectCommit(s) \/ SaveCommit(s) \/ DeleteCommit(s)
  PROVE  Abstract!Reconnected \/ Abstract!Saved \/ Abstract!Deleted
<1>1. row \in Rows /\ ses[s].work = row
    BY HolderFacts, WorkIsRow
    DEF ReconnectCommit, SaveCommit, DeleteCommit, Locked, MutationLocked,
        SyncLocked
<1>2. CASE ReconnectCommit(s)
    BY <1>1, <1>2 DEF ReconnectCommit, Abstract!Reconnected
<1>3. CASE SaveCommit(s)
  <2>1. row' = [row EXCEPT !.edit = row.edit + 1, !.refresh = row.refresh,
                           !.observed = row.observed]
      BY <1>1, <1>3 DEF SaveCommit
  <2>2. ASSUME NEW d
        PROVE  [row EXCEPT !.edit = d, !.refresh = row.refresh,
                           !.observed = row.observed] = [row EXCEPT !.edit = d]
      BY <1>1 DEF Rows
  <2> QED BY <2>1, <2>2 DEF Abstract!Saved
<1>4. CASE DeleteCommit(s)
    BY <1>4 DEF DeleteCommit, Abstract!Deleted
<1> QED BY <1>2, <1>3, <1>4

LEMMA StepImplements ==
  IInv /\ WorkIsTimely /\ [Next]_vars => [Abstract!Next]_<<row, clock>>
<1> SUFFICES ASSUME IInv, WorkIsTimely, [Next]_vars,
                    <<row, clock>>' # <<row, clock>>
             PROVE  Abstract!Next
    OBVIOUS
<1>1. CASE row' # row
  <2>1. PICK s \in Sessions : Commits(s)
      BY <1>1, ChangesCommit
  <2>2. row.live /\ clock' = clock
      BY <1>1, <2>1, CommitsLive, CommitFacts
  <2>3. \/ Abstract!Synced \/ Abstract!NeedsUser \/ Abstract!Rejected
        \/ Abstract!Throttled \/ Abstract!Failed \/ Abstract!Reconnected
        \/ Abstract!Saved \/ Abstract!Deleted
      BY <1>1, <2>1, SyncedImplements, NeedsUserImplements,
         FailureImplements, MutationImplements DEF Commits
  <2> QED BY <2>2, <2>3 DEF Abstract!Next, Abstract!Operation
<1>2. CASE row' = row
  <2>1. \A s \in Sessions : ~Commits(s) \/ clock' = clock
      BY CommitFacts
  <2>2. Tick
      BY <1>2 DEF vars, Next, Request, RequestSync, SelectForSync,
         RequestReconnect, RequestSave, RequestDelete, Start, Crash,
         SyncStep, SyncLock, ReadForUpdate, SyncUnconfigured, RollBack,
         SyncRefresh, SyncReadAccounts, SyncImport, SyncDone, SyncFail,
         SyncCommitFails, SyncRefreshFails, SyncNeedsUser, SyncCommit,
         StampFailure, MutationStep, ReconnectLock, SaveLock, DeleteLock,
         ReconnectRefused, DeleteRefused, LockTimeout, ReconnectCommit,
         SaveCommit, DeleteCommit
  <2> QED BY <1>2, <2>2 DEF Tick, Abstract!Next, Abstract!Tick
<1> QED BY <1>1, <1>2

LEMMA InitImplements == Init => Abstract!Init /\ WorkIsTimely
<1> SUFFICES ASSUME Init PROVE Abstract!Init /\ WorkIsTimely
    OBVIOUS
<1>1. PICK last \in Times \cup {None}, accts \in SUBSET Accounts :
        /\ last # None => last = 0
        /\ row = FreshRow(last, accts)
    BY DEF Init
<1>2. row.live /\ row.version = 0 /\ row.lastSync \in {0, None}
    BY <1>1 DEF FreshRow
<1>3. Abstract!Init
    BY <1>2 DEF Init, Abstract!Init
<1>4. WorkIsTimely
    BY ConstantsAssumption DEF Init, WorkIsTimely
<1> QED BY <1>3, <1>4

(* The sessions, the lock, the savepoint and the version test implement a  *)
(* connection on which every operation happens in a single step.           *)
THEOREM Implements == Spec => ActsAtomically
<1>1. Init => IInv /\ WorkIsTimely /\ Abstract!Init
    BY InitInv, InitImplements
<1>2. IInv /\ WorkIsTimely /\ [Next]_vars
        => IInv' /\ WorkIsTimely' /\ [Abstract!Next]_<<row, clock>>
    BY NextInv, TimelyInv, StepImplements
<1> QED BY <1>1, <1>2, PTL DEF Spec, ActsAtomically, Abstract!Spec

=============================================================================
