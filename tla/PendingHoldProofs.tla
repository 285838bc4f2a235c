-------------------------- MODULE PendingHoldProofs --------------------------
(***************************************************************************)
(* Proofs about PendingHold, for any grace, age, freshness and number of   *)
(* days and requests.                                                      *)
(***************************************************************************)
EXTENDS PendingHold, TLAPS

(* A row the sync has no say in any more.                                  *)
Taken(r) == r.manual \/ r.status = "posted"

(* An absence that started at day d is now long enough to retire the hold. *)
Earned(o, d) ==
    /\ o.hold = "absent" /\ o.complete
    /\ o.at >= MinAge
    /\ d + Grace <= o.at

(* A request that loaded a posted row meets a posted row: reopening is a   *)
(* request itself.                                                         *)
LoadedStaysPosted ==
    user.pc = "loaded" /\ user.loaded.status = "posted" => row.status = "posted"

(* The day a streak of absences started is one the syncs committed.        *)
StreakIsCounted ==
    ~Taken(row) /\ row.missing # None => row.missing \in missed

(* A sync holds the row's lock from its first statement to its end, and    *)
(* has changed nothing before it persists its verdict.                     *)
SyncHoldsRow ==
    /\ sync.pc # "idle" => sync.wrote
    /\ sync.pc \in {"fetched", "persist"} => sync.work = row

(* What it is about to persist it concluded from the row as it is.         *)
VerdictIsCurrent ==
    sync.pc = "persist" =>
        /\ ~Taken(row)
        /\ sync.base = row
        /\ sync.verdict = Verdict(row, sync.obs)

(* What the sync o may make of the row r, its writes being w.              *)
Justified(r, w, o) ==
    /\ r.status = "posted" => w.status = "posted"
    /\ w.status = "pending" /\ w.ignored => w.owned # w.manual
    /\ r.manual => w.manual /\ w.ignored = r.ignored /\ w.amount = r.amount
    /\ r.retired # None => w.retired # None
    /\ ~r.owned /\ w.owned => \E d \in missed : Earned(o, d)
    /\ ~Taken(w) /\ w.missing # None =>
          /\ o.hold = "absent"
          /\ w.missing \in missed \/ (o.complete /\ w.missing = o.at)

(* What it has written and not committed is justified on the row as it     *)
(* stands, and what it is about to promote is nobody's.                    *)
WorkIsJustified ==
    /\ sync.pc \in {"import", "apply", "commit"} => Justified(row, sync.work, sync.obs)
    /\ sync.pc = "apply" => ~sync.work.manual

(* A settled amount came with the posting, or with a reopening.            *)
SettledIsTaken ==
    /\ row.amount = "settled" => Taken(row)
    /\ sync.wrote /\ sync.work.amount = "settled" => Taken(sync.work)

(* A sync that saw the posting has lifted its ignore by the time it looks  *)
(* at the row, and has settled the row by the time it commits.             *)
PostingIsHandled ==
    sync.obs.hold = "posted" =>
        /\ sync.pc = "import" /\ ~Taken(sync.work) => ~sync.work.owned
        /\ sync.pc = "commit" => Taken(sync.work) \/ sync.work.amount = "typed"

(* The inductive invariant.  The owners of the next row are what the sync  *)
(* has concluded by now from the row that it has locked.                   *)
IInv ==
    /\ TypeOK
    /\ IgnoreHasOwner
    /\ LoadedStaysPosted
    /\ StreakIsCounted
    /\ SyncHoldsRow
    /\ VerdictIsCurrent
    /\ WorkIsJustified
    /\ SettledIsTaken
    /\ PostingIsHandled

-----------------------------------------------------------------------------
(* Facts about the operators                                               *)

(* A new row and a sync and a request that are not at work have types.     *)
LEMMA InitialTypes ==
    /\ \A a \in {"held", "settled", "typed"} : NewRow(a) \in Rows
    /\ NoSync \in Syncs /\ NoUser \in Users
    /\ NoSync.pc = "idle" /\ ~NoSync.wrote /\ NoUser.pc = "idle"
<1>1. 0 \in Times
  BY HoldAssumption DEF Times
<1>2. \A a \in {"held", "settled", "typed"} : NewRow(a) \in Rows
  BY DEF NewRow, Rows
<1>3. NoSync \in Syncs /\ NoSync.pc = "idle" /\ ~NoSync.wrote
  BY <1>1, <1>2 DEF NoSync, Syncs, Observations, Feed
<1>4. NoUser \in Users /\ NoUser.pc = "idle"
  BY <1>2 DEF NoUser, Users, Ops
<1> QED
  BY <1>2, <1>3, <1>4

(* What reconcile_pending concludes about a hold that was seen: the streak *)
(* is over, and an ignore is lifted only with its ownership.               *)
LEMMA PresentFacts ==
    ASSUME NEW r \in Rows, NEW o \in Observations
    PROVE  LET v == Present(r, o) IN
           /\ v \in Rows
           /\ v.status = r.status /\ v.manual = r.manual /\ v.retired = r.retired
           /\ v.missing = None
           /\ v.amount = r.amount
           /\ v.owned => r.owned /\ o.hold # "posted"
           /\ v.ignored => r.ignored /\ v.owned = r.owned
  BY DEF Present, Restores, Rows

(* About one that was missing and counts: an ignore is owned and earned.   *)
LEMMA AbsentFacts ==
    ASSUME NEW r \in Rows, NEW o \in Observations, Counts(r, o)
    PROVE  LET v == Absent(r, o) IN
           /\ v \in Rows
           /\ v.status = r.status /\ v.manual = r.manual /\ v.amount = r.amount
           /\ r.retired # None => v.retired # None
           /\ v.missing = r.missing \/ v.missing = o.at
           /\ v.ignored => v.owned
           /\ v.owned => r.owned \/ (r.missing # None /\ r.missing + Grace <= o.at)
<1>1. o.at \in Times /\ o.at # None /\ Grace \in Nat /\ o.at \in Nat
  BY HoldAssumption DEF Observations, Times
<1>2. r.missing # None => r.missing \in Nat
  BY DEF Rows, Times
<1>3. ~r.ignored
  BY DEF Counts
<1> DEFINE m == IF r.missing = None THEN o.at ELSE r.missing
           counted == [r EXCEPT !.last = o.at, !.missing = m]
           retired == [counted EXCEPT !.ignored = TRUE, !.owned = TRUE, !.retired = o.at]
<1>4. counted \in Rows /\ retired \in Rows
  BY <1>1 DEF Rows
<1>5. CASE r.missing # None /\ o.at - r.missing >= Grace
  <2>1. Absent(r, o) = retired
    BY <1>5 DEF Absent, Rows
  <2>2. r.missing + Grace <= o.at
    BY <1>1, <1>2, <1>5
  <2> QED
    BY <1>1, <1>4, <1>5, <2>1, <2>2 DEF Rows
<1>6. CASE ~(r.missing # None /\ o.at - r.missing >= Grace)
  <2>1. Absent(r, o) = counted
    BY <1>6 DEF Absent, Rows
  <2> QED
    BY <1>3, <1>4, <2>1 DEF Rows
<1> QED
  BY <1>5, <1>6

(* The verdict on a row nobody has taken is justified on that row.         *)
LEMMA VerdictIsJustified ==
    ASSUME NEW r \in Rows, NEW o \in Observations, ~Taken(r),
           r.ignored => r.owned,
           r.missing # None => r.missing \in missed
    PROVE  /\ Verdict(r, o) \in Rows /\ Justified(r, Verdict(r, o), o)
           /\ Verdict(r, o).amount = r.amount
           /\ o.hold = "posted" => ~Verdict(r, o).owned
<1> DEFINE v == Verdict(r, o)
<1>1. r.status = "pending" /\ ~r.manual
  BY DEF Taken, Rows
<1>2. CASE o.hold # "absent"
  <2>1. v = Present(r, o)
    BY <1>2 DEF Verdict
  <2> HIDE DEF v
  <2> QED
    BY <1>1, <2>1, PresentFacts DEF Justified, v
<1>3. CASE o.hold = "absent" /\ Counts(r, o)
  <2>1. v = Absent(r, o)
    BY <1>3 DEF Verdict
  <2>2. o.complete /\ o.at >= MinAge
    BY <1>3 DEF Counts
  <2> HIDE DEF v
  <2>3. /\ v \in Rows
        /\ v.status = r.status /\ v.manual = r.manual /\ v.amount = r.amount
        /\ r.retired # None => v.retired # None
        /\ v.missing = r.missing \/ v.missing = o.at
        /\ v.ignored => v.owned
        /\ v.owned => r.owned \/ (r.missing # None /\ r.missing + Grace <= o.at)
    BY <1>3, <2>1, AbsentFacts
  <2>4. ~r.owned /\ v.owned => \E d \in missed : Earned(o, d)
    BY <1>3, <2>2, <2>3 DEF Earned
  <2> QED
    BY <1>1, <1>3, <2>2, <2>3, <2>4 DEF Justified, v
<1>4. CASE o.hold = "absent" /\ ~Counts(r, o)
  <2>1. v = r
    BY <1>4 DEF Verdict
  <2> HIDE DEF v
  <2> QED
    BY <1>1, <1>4, <2>1 DEF Justified, v
<1> QED
  BY <1>2, <1>3, <1>4

(* What the UPDATE of a request makes of a row is a row.                   *)
LEMMA RequestedType ==
    ASSUME NEW op \in Ops, NEW r \in Rows, NEW l \in Rows
    PROVE  Claim(r, l) \in Rows /\ Requested(op, r, l) \in Rows
<1>1. Claim(r, l) \in Rows
  BY DEF Claim, Rows
<1>2. (~l.ignored) \in BOOLEAN
  OBVIOUS
<1>3. Requested(op, r, l) \in Rows
  BY <1>2 DEF Requested, Rows, Ops
<1> QED
  BY <1>1, <1>3

(* What the sync sees of the row is what it has written, which is a row.   *)
LEMMA SeesItsWork ==
    ASSUME IInv, sync.pc # "idle"
    PROVE  SyncSees = sync.work /\ SyncSees \in Rows
  BY DEF IInv, SyncHoldsRow, SyncSees, TypeOK, Syncs

(* A step that leaves the row, the sync, the request and the history.      *)
LEMMA OutsideStep ==
    ASSUME IInv, TypeOK', UNCHANGED <<row, sync, missed>>,
           user' = user \/ user'.loaded = row
    PROVE  IInv'
<1> USE DEF IInv
<1>1. LoadedStaysPosted'
  BY DEF LoadedStaysPosted
<1>2. (IgnoreHasOwner /\ StreakIsCounted /\ SettledIsTaken /\ SyncHoldsRow)'
  BY DEF IgnoreHasOwner, StreakIsCounted, SettledIsTaken, SyncHoldsRow
<1>3. VerdictIsCurrent'
  BY DEF VerdictIsCurrent
<1>4. WorkIsJustified'
  BY DEF WorkIsJustified, Justified
<1>5. PostingIsHandled'
  BY DEF PostingIsHandled
<1> QED
  BY <1>1, <1>2, <1>3, <1>4, <1>5

(* The bank, the bridge, the calendar and a request that loads.            *)
LEMMA WorldInvariant ==
    ASSUME IInv, BankMoves \/ BridgePulls \/ Tick \/ UserLoad
    PROVE  IInv'
<1> USE DEF IInv
<1>1. TypeOK'
  <2>1. CASE BankMoves
    BY <2>1 DEF BankMoves, TypeOK
  <2>2. CASE BridgePulls
    BY <2>2 DEF BridgePulls, TypeOK
  <2>3. CASE Tick
    BY <2>3, HoldAssumption DEF Tick, TypeOK, Times
  <2>4. CASE UserLoad
    BY <2>4, HoldAssumption DEF UserLoad, TypeOK, Users
  <2> QED
    BY <2>1, <2>2, <2>3, <2>4
<1>2. UNCHANGED <<row, sync, missed>> /\ (user' = user \/ user'.loaded = row)
  BY DEF BankMoves, BridgePulls, Tick, UserLoad
<1> QED
  BY <1>1, <1>2, OutsideStep

(* A sync begins or is given up.                                           *)
LEMMA SyncStartsInvariant ==
    ASSUME IInv, SyncFetch \/ SyncAborts
    PROVE  IInv'
<1> USE DEF IInv
<1>1. UNCHANGED <<feed, shot, row, user, ops, clock, missed>>
  BY DEF SyncFetch, SyncAborts
<1>2. /\ sync' \in Syncs
      /\ \/ sync'.pc = "idle" /\ ~sync'.wrote
         \/ sync'.pc = "fetched" /\ sync'.wrote /\ sync'.work = row
  <2>1. CASE SyncAborts
    BY <2>1, InitialTypes DEF SyncAborts
  <2>2. CASE SyncFetch
    <3>1. PICK o \in Observations :
            sync' = [NoSync EXCEPT !.pc = "fetched", !.obs = o, !.work = row, !.wrote = TRUE]
      BY <2>2 DEF SyncFetch
    <3>2. row \in Rows
      BY DEF TypeOK
    <3> QED
      BY <3>1, <3>2, InitialTypes DEF Syncs
  <2> QED
    BY <2>1, <2>2
<1>3. TypeOK'
  BY <1>1, <1>2 DEF TypeOK
<1>4. (IgnoreHasOwner /\ LoadedStaysPosted /\ StreakIsCounted)'
  BY <1>1 DEF IgnoreHasOwner, LoadedStaysPosted, StreakIsCounted
<1>5. (SyncHoldsRow /\ VerdictIsCurrent /\ WorkIsJustified /\ SettledIsTaken /\ PostingIsHandled)'
  BY <1>1, <1>2 DEF SyncHoldsRow, VerdictIsCurrent, WorkIsJustified, SettledIsTaken, PostingIsHandled
<1> QED
  BY <1>3, <1>4, <1>5

(* reconcile_pending.                                                      *)
LEMMA ReconcileInvariant ==
    ASSUME IInv, SyncReconcile
    PROVE  IInv'
<1> USE DEF IInv
<1> DEFINE v == Verdict(row, sync.obs)
           concerned == row.status = "pending" /\ ~row.manual /\ v # row
<1>1. /\ UNCHANGED <<feed, shot, row, user, ops, clock, missed>>
      /\ sync' = [sync EXCEPT !.pc = IF concerned THEN "persist" ELSE "import",
                              !.base = row, !.verdict = v]
      /\ sync.pc = "fetched" /\ sync.wrote /\ sync.work = row
      /\ row \in Rows /\ sync \in Syncs /\ sync.obs \in Observations
  <2>1. sync.pc = "fetched" /\ sync.wrote /\ sync.work = row /\ SyncSees = row
    BY DEF SyncReconcile, SyncHoldsRow, SyncSees
  <2> QED
    BY <2>1 DEF SyncReconcile, TypeOK, Syncs
<1>2. v \in Rows
  <2>1. sync.obs.hold # "absent" => Present(row, sync.obs) \in Rows
    BY <1>1, PresentFacts
  <2>2. Counts(row, sync.obs) => Absent(row, sync.obs) \in Rows
    BY <1>1, AbsentFacts
  <2> QED
    BY <1>1, <2>1, <2>2 DEF Verdict
<1>3. ~concerned => Taken(row) \/ v = row
  BY <1>1 DEF Taken, Rows
<1>4. concerned => ~Taken(row)
  BY DEF Taken
<1>5. v = row /\ sync.obs.hold # "absent" =>
         row.missing = None /\ (sync.obs.hold = "posted" => ~row.owned)
  BY <1>1, PresentFacts DEF Verdict
<1> HIDE DEF v
<1>6. /\ sync'.pc = IF concerned THEN "persist" ELSE "import"
      /\ sync'.base = row /\ sync'.verdict = v /\ sync'.obs = sync.obs
      /\ sync'.wrote = sync.wrote /\ sync'.work = row
      /\ sync' \in Syncs
  BY <1>1, <1>2 DEF Syncs
<1>7. TypeOK'
  BY <1>1, <1>6 DEF TypeOK
<1>8. (IgnoreHasOwner /\ LoadedStaysPosted /\ StreakIsCounted /\ SettledIsTaken /\ SyncHoldsRow)'
  BY <1>1, <1>6 DEF IgnoreHasOwner, LoadedStaysPosted, StreakIsCounted, SettledIsTaken, SyncHoldsRow
<1>9. VerdictIsCurrent'
  BY <1>1, <1>4, <1>6 DEF VerdictIsCurrent, v
<1>10. WorkIsJustified'
  <2>1. ~concerned => Justified(row, row, sync.obs)
    BY <1>1, <1>3, <1>5 DEF Justified, IgnoreHasOwner, StreakIsCounted
  <2> QED
    BY <1>1, <1>6, <2>1 DEF WorkIsJustified, Justified
<1>11. PostingIsHandled'
  BY <1>1, <1>3, <1>5, <1>6 DEF PostingIsHandled
<1> QED
  BY <1>7, <1>8, <1>9, <1>10, <1>11

(* _persist_state: the verdict on the row that was read is stored on it.   *)
LEMMA PersistInvariant ==
    ASSUME IInv, SyncPersist
    PROVE  IInv'
<1> USE DEF IInv
<1>1. /\ UNCHANGED <<feed, shot, row, user, ops, clock, missed>>
      /\ sync.pc = "persist" /\ sync.wrote /\ sync.base = row
      /\ row \in Rows /\ sync \in Syncs /\ sync.obs \in Observations
      /\ ~Taken(row) /\ sync.verdict = Verdict(row, sync.obs)
      /\ SyncSees = sync.base
  BY DEF SyncPersist, SyncHoldsRow, SyncSees, TypeOK, Syncs, VerdictIsCurrent
<1>2. /\ sync'.pc = "import" /\ sync'.wrote /\ sync'.work = sync.verdict
      /\ sync'.obs = sync.obs /\ sync' \in Syncs
  BY <1>1 DEF SyncPersist, Syncs
<1>3. row.ignored => row.owned
  BY <1>1 DEF IgnoreHasOwner, Taken, Rows
<1>4. row.missing # None => row.missing \in missed
  BY <1>1 DEF StreakIsCounted
<1>5. /\ Justified(row, sync.verdict, sync.obs)
      /\ sync.verdict.amount = row.amount
      /\ sync.obs.hold = "posted" => ~sync.verdict.owned
  BY <1>1, <1>3, <1>4, VerdictIsJustified
<1>6. TypeOK'
  BY <1>1, <1>2 DEF TypeOK
<1>7. (IgnoreHasOwner /\ LoadedStaysPosted /\ StreakIsCounted /\ SyncHoldsRow /\ VerdictIsCurrent)'
  BY <1>1, <1>2 DEF IgnoreHasOwner, LoadedStaysPosted, StreakIsCounted, SyncHoldsRow, VerdictIsCurrent
<1>8. WorkIsJustified'
  BY <1>1, <1>2, <1>5 DEF WorkIsJustified, Justified
<1>9. SettledIsTaken'
  BY <1>1, <1>2, <1>5 DEF SettledIsTaken
<1>10. PostingIsHandled'
  BY <1>2, <1>5 DEF PostingIsHandled
<1> QED
  BY <1>6, <1>7, <1>8, <1>9, <1>10

(* The import reads the row again: what it leaves alone has been settled,  *)
(* taken, or edited in the days before edits were marked.                  *)
LEMMA LookInvariant ==
    ASSUME IInv, SyncLook
    PROVE  IInv'
<1> USE DEF IInv
<1> DEFINE w == sync.work
           p == IF Promotes(w) THEN "apply" ELSE "commit"
<1>1. /\ UNCHANGED <<feed, shot, row, user, ops, clock, missed>>
      /\ sync.pc = "import" /\ sync.wrote /\ sync \in Syncs
      /\ w \in Rows /\ Justified(row, w, sync.obs)
      /\ sync' = [sync EXCEPT !.pc = p, !.seen = w]
  BY SeesItsWork DEF SyncLook, TypeOK, SyncHoldsRow, WorkIsJustified
<1>2. p \in {"apply", "commit"} /\ (p = "apply" => Promotes(w)) /\ (p = "commit" => ~Promotes(w))
  OBVIOUS
<1> HIDE DEF p
<1>3. /\ sync'.pc = p /\ sync'.wrote /\ sync'.work = w
      /\ sync'.obs = sync.obs /\ sync' \in Syncs
  BY <1>1, <1>2 DEF Syncs
<1> HIDE DEF w
<1>4. TypeOK'
  BY <1>1, <1>3 DEF TypeOK
<1>5. (IgnoreHasOwner /\ LoadedStaysPosted /\ StreakIsCounted /\ SyncHoldsRow /\ VerdictIsCurrent)'
  BY <1>1, <1>2, <1>3 DEF IgnoreHasOwner, LoadedStaysPosted, StreakIsCounted, SyncHoldsRow, VerdictIsCurrent
<1>6. SettledIsTaken'
  BY <1>1, <1>2, <1>3 DEF SettledIsTaken, w
<1>7. WorkIsJustified'
  BY <1>1, <1>2, <1>3 DEF WorkIsJustified, Justified, Promotes
<1>8. PostingIsHandled'
  <2> SUFFICES ASSUME sync.obs.hold = "posted", ~Promotes(w), ~Taken(w)
               PROVE  w.amount = "typed"
    BY <1>1, <1>2, <1>3 DEF PostingIsHandled
  <2>1. w.status = "pending" /\ ~w.manual
    BY <1>1 DEF Taken, Rows
  <2>2. ~w.owned
    BY <1>1 DEF PostingIsHandled, w
  <2>3. ~w.ignored
    <3>1. w.owned = FALSE /\ w.manual = FALSE
      BY <1>1, <2>1, <2>2 DEF Rows
    <3> QED
      BY <1>1, <2>1, <3>1 DEF Justified
  <2>4. w.amount # "settled"
    BY <1>1 DEF SettledIsTaken, w
  <2> QED
    BY <1>1, <2>1, <2>3, <2>4 DEF Promotes, Rows
<1> QED
  BY <1>4, <1>5, <1>6, <1>7, <1>8

(* The promotion.                                                          *)
LEMMA ApplyInvariant ==
    ASSUME IInv, SyncApply
    PROVE  IInv'
<1> USE DEF IInv
<1> DEFINE r == sync.work
           w == [r EXCEPT !.status = "posted", !.amount = "settled"]
<1>1. /\ UNCHANGED <<feed, shot, row, user, ops, clock, missed>>
      /\ sync.pc = "apply" /\ sync \in Syncs
      /\ r \in Rows /\ ~r.manual /\ Justified(row, r, sync.obs)
      /\ sync' = [sync EXCEPT !.pc = "commit", !.wrote = TRUE, !.work = w]
  BY SeesItsWork DEF SyncApply, TypeOK, WorkIsJustified
<1> HIDE DEF r
<1>2. /\ w \in Rows /\ w.status = "posted" /\ w.manual = r.manual /\ w.ignored = r.ignored
      /\ w.owned = r.owned /\ w.retired = r.retired
  BY <1>1 DEF Rows
<1> HIDE DEF w
<1>3. /\ sync'.pc = "commit" /\ sync'.wrote /\ sync'.work = w
      /\ sync'.obs = sync.obs /\ sync' \in Syncs
  BY <1>1, <1>2 DEF Syncs
<1>4. Taken(w)
  BY <1>2 DEF Taken
<1>5. Justified(row, w, sync.obs)
  BY <1>1, <1>2, <1>4 DEF Justified
<1>6. TypeOK'
  BY <1>1, <1>3 DEF TypeOK
<1>7. (IgnoreHasOwner /\ LoadedStaysPosted /\ StreakIsCounted /\ SyncHoldsRow /\ VerdictIsCurrent)'
  BY <1>1, <1>3 DEF IgnoreHasOwner, LoadedStaysPosted, StreakIsCounted, SyncHoldsRow, VerdictIsCurrent
<1>8. WorkIsJustified'
  BY <1>1, <1>3, <1>5 DEF WorkIsJustified, Justified
<1>9. SettledIsTaken' /\ PostingIsHandled'
  BY <1>1, <1>3, <1>4 DEF SettledIsTaken, PostingIsHandled
<1> QED
  BY <1>6, <1>7, <1>8, <1>9

(* The commit of a sync.                                                   *)
LEMMA CommitInvariant ==
    ASSUME IInv, SyncCommit
    PROVE  IInv'
<1> USE DEF IInv
<1>1. /\ UNCHANGED <<feed, shot, user, ops, clock>>
      /\ sync.pc = "commit" /\ sync \in Syncs /\ sync.obs \in Observations
      /\ row' = SyncSees /\ row' \in Rows /\ Justified(row, row', sync.obs)
      /\ sync' = NoSync
  BY SeesItsWork DEF SyncCommit, TypeOK, Syncs, WorkIsJustified
<1>2. /\ missed' \subseteq Times
      /\ sync.obs.hold = "absent" => missed \subseteq missed'
      /\ sync.obs.hold = "absent" /\ sync.obs.complete => sync.obs.at \in missed'
  <2>1. sync.obs.at \in Times /\ missed \subseteq Times
    BY <1>1 DEF Observations, TypeOK
  <2>2. CASE sync.obs.hold # "absent"
    BY <2>2 DEF SyncCommit
  <2>3. CASE sync.obs.hold = "absent" /\ sync.obs.complete
    <3>1. missed' = missed \cup {sync.obs.at}
      BY <2>3 DEF SyncCommit
    <3> QED
      BY <2>1, <3>1
  <2>4. CASE sync.obs.hold = "absent" /\ ~sync.obs.complete
    <3>1. missed' = missed
      BY <2>4 DEF SyncCommit
    <3> QED
      BY <2>1, <2>4, <3>1
  <2> QED
    BY <2>2, <2>3, <2>4
<1>3. TypeOK'
  BY <1>1, <1>2, InitialTypes DEF TypeOK
<1>4. IgnoreHasOwner' /\ LoadedStaysPosted'
  BY <1>1 DEF IgnoreHasOwner, LoadedStaysPosted, Justified
<1>5. StreakIsCounted'
  BY <1>1, <1>2 DEF StreakIsCounted, Justified, Taken
<1>6. row'.amount = "settled" => Taken(row')
  BY <1>1, SeesItsWork DEF SettledIsTaken, SyncHoldsRow
<1>7. (SyncHoldsRow /\ VerdictIsCurrent /\ WorkIsJustified /\ SettledIsTaken /\ PostingIsHandled)'
  BY <1>1, <1>6, InitialTypes DEF SyncHoldsRow, VerdictIsCurrent, WorkIsJustified, SettledIsTaken,
     PostingIsHandled, Taken
<1> QED
  BY <1>3, <1>4, <1>5, <1>7

(* The commit of a request: the row it leaves is a person's or posted.     *)
LEMMA RequestFacts ==
    ASSUME IInv, UserCommit
    PROVE  /\ UNCHANGED <<feed, shot, sync, ops, clock, missed>>
           /\ user.pc = "loaded" /\ user' = NoUser /\ ~sync.wrote
           /\ row' \in Rows /\ Taken(row')
           /\ row'.status = "pending" /\ row'.ignored => row'.owned # row'.manual
           /\ row'.owned => row.owned
           /\ row'.retired = row.retired
<1> USE DEF IInv
<1> DEFINE op == user.op
           l == user.loaded
           claims == op = "reopen" \/ (op # "post" /\ l.status = "pending")
           r == IF claims THEN Claim(row, l) ELSE row
<1>1. /\ UNCHANGED <<feed, shot, sync, ops, clock, missed>>
      /\ user.pc = "loaded" /\ user' = NoUser /\ ~sync.wrote
      /\ row' = Requested(op, r, l)
      /\ op \in Ops /\ l \in Rows /\ row \in Rows
  BY DEF UserCommit, TypeOK, Users
<1>2. r \in Rows /\ r.status = row.status /\ r.retired = row.retired /\ (r.owned => row.owned)
      /\ (claims => r.manual /\ ~r.owned) /\ (~claims => r = row)
  <2>1. CASE claims
    <3>1. r = Claim(row, l)
      BY <2>1
    <3> HIDE DEF r, claims
    <3> QED
      BY <1>1, <2>1, <3>1 DEF Claim, Rows
  <2>2. CASE ~claims
    <3>1. r = row
      BY <2>2
    <3> HIDE DEF r, claims
    <3> QED
      BY <1>1, <2>2, <3>1
  <2> QED
    BY <2>1, <2>2
<1>3. row' \in Rows
  BY <1>1, <1>2, RequestedType
<1>4. ~claims /\ op # "post" => row.status = "posted"
  <2> SUFFICES ASSUME ~claims, op # "post"
               PROVE  l.status = "posted"
    BY <1>1 DEF LoadedStaysPosted
  <2> QED
    BY <1>1 DEF Rows
<1> HIDE DEF r
<1>5. /\ row'.manual = r.manual /\ row'.owned = r.owned /\ row'.retired = r.retired
      /\ op = "post" => row'.status = "posted"
      /\ op \notin {"post", "reopen"} => row'.status = r.status
  BY <1>1, <1>2 DEF Requested, Rows, Ops
<1>6. claims \/ row'.status = "posted"
  BY <1>2, <1>4, <1>5
<1> QED
  BY <1>1, <1>2, <1>3, <1>5, <1>6 DEF Taken

(* The commit of a request keeps the invariant.                            *)
LEMMA UserInvariant ==
    ASSUME IInv, UserCommit
    PROVE  IInv'
<1> USE DEF IInv
<1>1. /\ UNCHANGED <<feed, shot, sync, ops, clock, missed>>
      /\ user' = NoUser /\ ~sync.wrote /\ row' \in Rows /\ Taken(row')
      /\ row'.status = "pending" /\ row'.ignored => row'.owned # row'.manual
  BY RequestFacts
<1>2. TypeOK'
  BY <1>1, InitialTypes DEF TypeOK
<1>3. IgnoreHasOwner' /\ LoadedStaysPosted'
  BY <1>1, InitialTypes DEF IgnoreHasOwner, LoadedStaysPosted
<1>4. sync.pc = "idle"
  BY <1>1 DEF SyncHoldsRow, TypeOK, Syncs
<1>5. (StreakIsCounted /\ SyncHoldsRow /\ VerdictIsCurrent /\ WorkIsJustified
       /\ SettledIsTaken /\ PostingIsHandled)'
  BY <1>1, <1>4 DEF StreakIsCounted, SyncHoldsRow, VerdictIsCurrent, WorkIsJustified,
     SettledIsTaken, PostingIsHandled, Taken
<1> QED
  BY <1>2, <1>3, <1>5

-----------------------------------------------------------------------------
(* The theorems                                                            *)

(* The invariant holds throughout.                                         *)
THEOREM HoldInvariant == Spec => []IInv
<1>1. Init => IInv
  <2> SUFFICES ASSUME Init
               PROVE  IInv
    OBVIOUS
  <2>1. row \in Rows /\ ~row.ignored /\ row.missing = None /\ row.amount # "settled"
    <3>1. PICK a \in {"held", "typed"} : row = NewRow(a)
      BY DEF Init
    <3> QED
      BY <3>1, InitialTypes DEF NewRow
  <2>2. TypeOK
    BY <2>1, InitialTypes, HoldAssumption DEF Init, TypeOK, Times, Feed
  <2> QED
    BY <2>1, <2>2, InitialTypes DEF Init, IInv, IgnoreHasOwner, LoadedStaysPosted, StreakIsCounted,
       SyncHoldsRow, VerdictIsCurrent, WorkIsJustified, SettledIsTaken, PostingIsHandled
<1>2. IInv /\ [Next]_vars => IInv'
  <2> SUFFICES ASSUME IInv, [Next]_vars
               PROVE  IInv'
    OBVIOUS
  <2>1. CASE BankMoves \/ BridgePulls \/ Tick \/ UserLoad
    BY <2>1, WorldInvariant
  <2>2. CASE SyncFetch \/ SyncAborts
    BY <2>2, SyncStartsInvariant
  <2>3. CASE SyncReconcile
    BY <2>3, ReconcileInvariant
  <2>4. CASE SyncPersist
    BY <2>4, PersistInvariant
  <2>5. CASE SyncLook
    BY <2>5, LookInvariant
  <2>6. CASE SyncApply
    BY <2>6, ApplyInvariant
  <2>7. CASE SyncCommit
    BY <2>7, CommitInvariant
  <2>8. CASE UserCommit
    BY <2>8, UserInvariant
  <2>9. CASE UNCHANGED vars
    <3>1. TypeOK' /\ UNCHANGED <<row, sync, missed>> /\ user' = user
      BY <2>9 DEF IInv, TypeOK, vars
    <3> QED
      BY <3>1, OutsideStep
  <2> QED
    BY <2>1, <2>2, <2>3, <2>4, <2>5, <2>6, <2>7, <2>8, <2>9 DEF Next, SyncStep
<1> QED
  BY <1>1, <1>2, PTL DEF Spec

(* Every variable has its type.                                            *)
THEOREM HoldTypes == Spec => []TypeOK
<1>1. IInv => TypeOK
  BY DEF IInv
<1> QED
  BY <1>1, HoldInvariant, PTL

(* An ignored pending row belongs to the sync or to a person.              *)
THEOREM IgnoreIsOwned == Spec => []IgnoreHasOwner
<1>1. IInv => IgnoreHasOwner
  BY DEF IInv
<1> QED
  BY <1>1, HoldInvariant, PTL

(* Who changes the row, and how far: a committing sync within what it has  *)
(* justified, or a request.                                                *)
LEMMA RowChanges ==
    ASSUME IInv, [Next]_vars
    PROVE  \/ row' = row
           \/ /\ SyncCommit
              /\ Justified(row, row', sync.obs)
           \/ UserCommit
<1>1. SyncCommit => Justified(row, row', sync.obs)
  <2> SUFFICES ASSUME SyncCommit
               PROVE  Justified(row, row', sync.obs)
    OBVIOUS
  <2>1. sync.pc = "commit" /\ row' = SyncSees
    BY DEF SyncCommit
  <2> QED
    BY <2>1, SeesItsWork DEF IInv, WorkIsJustified
<1>2. row' = row \/ SyncCommit \/ UserCommit
  BY DEF Next, SyncStep, vars, BankMoves, BridgePulls, Tick, SyncFetch, SyncReconcile, SyncPersist,
     SyncLook, SyncApply, SyncAborts, UserLoad
<1> QED
  BY <1>1, <1>2

(* A retirement rests on two complete absences a grace apart, with nothing *)
(* seen in between.                                                        *)
THEOREM RetirementsAreEarned == Spec => RetirementIsEarned
<1>1. IInv /\ [Next]_vars =>
        [~row.owned /\ row'.owned =>
          /\ sync.obs.hold = "absent" /\ sync.obs.complete
          /\ sync.obs.at >= MinAge
          /\ \E first \in missed : first + Grace <= sync.obs.at]_vars
  <2> SUFFICES ASSUME IInv, [Next]_vars, ~row.owned, row'.owned
               PROVE  /\ sync.obs.hold = "absent" /\ sync.obs.complete
                      /\ sync.obs.at >= MinAge
                      /\ \E first \in missed : first + Grace <= sync.obs.at
    OBVIOUS
  <2>1. CASE UserCommit
    BY <2>1, RequestFacts
  <2>2. CASE SyncCommit /\ Justified(row, row', sync.obs)
    BY <2>2 DEF Justified, Earned
  <2> QED
    BY <2>1, <2>2, RowChanges
<1> QED
  BY <1>1, HoldInvariant, PTL DEF Spec, RetirementIsEarned

(* No sync hides, reveals or reprices a row that a person owns.            *)
THEOREM OwnersKeepTheirRows == Spec => OwnershipSticks
<1>1. IInv /\ [Next]_vars =>
        [row.manual /\ (row'.ignored # row.ignored \/ row'.amount # row.amount)
            => user' # user]_vars
  <2> SUFFICES ASSUME IInv, [Next]_vars, row.manual,
                      row'.ignored # row.ignored \/ row'.amount # row.amount
               PROVE  user' # user
    OBVIOUS
  <2>1. CASE UserCommit
    BY <2>1, RequestFacts, InitialTypes
  <2>2. CASE SyncCommit /\ Justified(row, row', sync.obs)
    BY <2>2 DEF Justified
  <2> QED
    BY <2>1, <2>2, RowChanges
<1> QED
  BY <1>1, HoldInvariant, PTL DEF Spec, OwnershipSticks

(* The time of a retirement is never erased.                               *)
THEOREM AuditsSurvive == Spec => AuditSurvives
<1>1. IInv /\ [Next]_vars => [row.retired # None => row'.retired # None]_vars
  <2> SUFFICES ASSUME IInv, [Next]_vars, row.retired # None
               PROVE  row'.retired # None
    OBVIOUS
  <2>1. CASE UserCommit
    BY <2>1, RequestFacts
  <2>2. CASE SyncCommit /\ Justified(row, row', sync.obs)
    BY <2>2 DEF Justified
  <2> QED
    BY <2>1, <2>2, RowChanges
<1> QED
  BY <1>1, HoldInvariant, PTL DEF Spec, AuditSurvives

(* A sync that saw the posting leaves no untouched pending row.            *)
THEOREM PostingsAreSeen == Spec => PostingIsSeen
<1>1. IInv /\ [Next]_vars =>
        [SyncCommit /\ sync.obs.hold = "posted" =>
            row'.status = "posted" \/ row'.manual \/ row'.amount = "typed"]_vars
  BY SeesItsWork DEF IInv, PostingIsHandled, SyncCommit, Taken
<1> QED
  BY <1>1, HoldInvariant, PTL DEF Spec, PostingIsSeen
=============================================================================
