------------------------ MODULE InvoiceScheduleProofs ------------------------
(***************************************************************************)
(* Proofs about InvoiceSchedule, for any number of persons, of days,       *)
(* periods, requests and dying runs, and any limits of a run.              *)
(***************************************************************************)
EXTENDS InvoiceSchedule, Integers, TLAPS

(* The row lock is with the run that emits or commits.                     *)
LockIsRun ==
    \A s \in Sessions : lock = s <=> session[s].pc \in {"emit", "commit"}

(* Everything of the row but the failures, which a run does not refresh.   *)
Alike(r, q) ==
    /\ r.live = q.live /\ r.status = q.status /\ r.pause = q.pause
    /\ r.ended = q.ended /\ r.next = q.next /\ r.start = q.start /\ r.count = q.count

(* The periods between what the run read and where it stands.              *)
Passed(st) == st.read.next .. st.cur.next - 1

(* What a run that has the lock knows, st being its session: the row as it *)
(* is, active, each period behind its cursor answered or made by it, and   *)
(* what it made within the agreement.                                      *)
RunKnows(st) ==
    /\ Alike(row, st.read)
    /\ st.read.live /\ st.read.status = "active"
    /\ st.read.next <= st.cur.next
    /\ st.made \subseteq Passed(st)
    /\ Passed(st) \subseteq history.ever \cup st.made
    /\ \A n \in st.made : /\ WithinEnd(st.read, n)
                          /\ st.force \/ Start(st.read, n) <= today
    /\ st.cur.start = st.read.start /\ st.cur.count = st.read.count
    /\ st.cur.live = st.read.live
    /\ Consistent(st.cur)

RunsKnow ==
    \A s \in Sessions, st \in Session :
        session[s] = st /\ st.pc \in {"emit", "commit"} => RunKnows(st)

(* How far a run of the session s can be: a person's is forced and stands  *)
(* where it began until it closes, one that waits has made nothing, and    *)
(* what the job records after its rollback is not an end.                  *)
Underway(s, st) ==
    /\ st.pc = "wait" => st.made = {}
    /\ st.pc \in {"wait", "emit"} /\ s # Job => st.force
    /\ st.pc = "emit" => st.cur.status = "active"
    /\ st.pc = "emit" /\ st.force => st.cur.next = st.read.next
    /\ st.pc = "record" => st.cur.status # "ended"

RunsUnderway == \A s \in Sessions : Underway(s, session[s])

(* What a person's request is about to store takes no end back, moves the  *)
(* cursor back only with the calendar, and if it does not wait for the     *)
(* lock changes nothing.                                                   *)
Decision(st) ==
    /\ st.cur.ended = st.read.ended \/ st.cur.ended # None
    /\ st.op # "calendar" => st.read.next <= st.cur.next
    /\ st.op = "unlink" => st.cur = st.read
    /\ st.op = "link" => st.arg \in Periods

DecisionsSound ==
    \A s \in Sessions : session[s].pc = "decided" => Decision(session[s])

(* An agreement is ended exactly if it says why.                           *)
RowIsConsistent == Consistent(row)

(* Whatever is linked has been linked, and what runs emitted is behind the *)
(* cursor, as long as no request was overtaken.                            *)
AnsweredIsKnown == answered \subseteq history.ever

EmittedIsPast == ~history.overtaken => \A n \in history.emitted : n < row.next

(* The inductive invariant: a run bills on what it read under the lock,    *)
(* which nobody can change until it commits.                               *)
IInv ==
    /\ TypeOK
    /\ LockIsRun
    /\ RunsKnow
    /\ RunsUnderway
    /\ DecisionsSound
    /\ RowIsConsistent
    /\ AnsweredIsKnown
    /\ EmittedIsPast

-----------------------------------------------------------------------------
(* Facts about the operators                                               *)

(* The bounds are numbers, and NULL is neither a number nor a session.     *)
LEMMA Bounds ==
    /\ MaxPeriods \in Nat /\ MaxFailures \in Nat /\ LastPeriod \in Nat /\ LastDay \in Nat
    /\ 2 <= LastDay /\ LastDay < LastPeriod
    /\ \A s \in Sessions : s # None
    /\ \A n \in Nat : n # None
    /\ "completed" # None /\ "other" # None
    /\ Job \in Sessions
  BY ScheduleAssumption DEF Sessions

(* The first period not before a day is a period.                          *)
LEMMA FirstIsPeriod ==
    ASSUME NEW start \in Days, NEW day \in Days
    PROVE  FirstOnOrAfter(start, day) \in Cursors
  BY Bounds DEF FirstOnOrAfter, Days, Cursors

(* A new agreement is active and not ended.                                *)
LEMMA NewRowFacts ==
    ASSUME NEW start \in Days, NEW count \in Periods \cup {None}, NEW day \in Days
    PROVE  LET r == NewRow(start, count, day) IN
           r \in Rows /\ Consistent(r) /\ r.status = "active"
<1>1. FirstOnOrAfter(start, day) \in Cursors
  BY FirstIsPeriod
<1> QED
  BY <1>1 DEF NewRow, Rows, Consistent

(* A session that is idle has a type.                                      *)
LEMMA IdleType == Idle \in Session /\ Idle.pc = "idle"
<1>1. 0 \in Days
  BY Bounds DEF Days
<1>2. NewRow(0, None, 0) \in Rows
  BY <1>1, NewRowFacts
<1> HIDE DEF NewRow
<1> QED
  BY <1>2 DEF Idle, Session, Ops

(* Closing an agreement that is over ends it and says why.                 *)
LEMMA CompletedFacts ==
    ASSUME NEW r \in Rows
    PROVE  LET c == Completed(r) IN
           /\ c \in Rows
           /\ c.live = r.live /\ c.next = r.next /\ c.start = r.start /\ c.count = r.count
           /\ c.ended = r.ended \/ c.ended = "completed"
           /\ c = r \/ (c.status = "ended" /\ c.ended = "completed")
  BY DEF Completed, Rows

(* A failure is counted and ends nothing.                                  *)
LEMMA FailedFacts ==
    ASSUME NEW r \in Rows
    PROVE  LET c == Failed(r) IN
           /\ c \in Rows
           /\ c.live = r.live /\ c.next = r.next /\ c.start = r.start /\ c.count = r.count
           /\ c.ended = r.ended
           /\ c.status \in {r.status, "paused"}
<1>1. r.failures + 1 \in Nat
  BY DEF Rows
<1>2. CASE r.failures + 1 >= MaxFailures
  <2>1. Failed(r) = [r EXCEPT !.failures = r.failures + 1, !.status = "paused", !.pause = "failures"]
    BY <1>2 DEF Failed
  <2> QED
    BY <1>1, <2>1 DEF Rows
<1>3. CASE ~(r.failures + 1 >= MaxFailures)
  <2>1. Failed(r) = [r EXCEPT !.failures = r.failures + 1]
    BY <1>3 DEF Failed
  <2> QED
    BY <1>1, <2>1 DEF Rows
<1> QED
  BY <1>2, <1>3

(* An UPDATE writes the columns that were changed.                         *)
LEMMA MergedFacts ==
    ASSUME NEW r \in Rows, NEW p \in Rows, NEW c \in Rows
    PROVE  LET m == Merged(r, p, c) IN
           /\ m \in Rows
           /\ m.live = IF c.live = p.live THEN r.live ELSE c.live
           /\ m.status = IF c.status = p.status THEN r.status ELSE c.status
           /\ m.pause = IF c.pause = p.pause THEN r.pause ELSE c.pause
           /\ m.ended = IF c.ended = p.ended THEN r.ended ELSE c.ended
           /\ m.next = IF c.next = p.next THEN r.next ELSE c.next
           /\ m.failures = IF c.failures = p.failures THEN r.failures ELSE c.failures
           /\ m.start = IF c.start = p.start THEN r.start ELSE c.start
           /\ m.count = IF c.count = p.count THEN r.count ELSE c.count
  BY DEF Merged, Rows

(* One that changed no column leaves the row.                              *)
LEMMA MergedSame ==
    ASSUME NEW r \in Rows, NEW p \in Rows
    PROVE  Merged(r, p, p) = r
  BY DEF Merged, Rows

(* What a request makes of the row it read.                                *)
LEMMA WantedFacts ==
    ASSUME NEW op \in Ops, NEW r \in Rows, NEW arg \in Nat, NEW links,
           today \in Days, Allowed(op, r, links, arg)
    PROVE  LET w == Wanted(op, r, arg) IN
           /\ w \in Rows
           /\ w.ended = r.ended \/ w.ended # None
           /\ op # "calendar" => r.next <= w.next
           /\ op = "unlink" => w = r
           /\ op = "link" => arg \in Periods
<1> DEFINE w == Wanted(op, r, arg)
<1>1. r.next \in Nat /\ r.next <= r.next
  BY DEF Rows, Cursors
<1>2. CASE op = "pause"
  <2>1. w = [r EXCEPT !.status = "paused", !.pause = "manual"]
    BY <1>2 DEF Wanted
  <2> QED
    BY <1>1, <1>2, <2>1 DEF Rows
<1>3. CASE op = "resume"
  <2> DEFINE f == FirstOnOrAfter(r.start, today)
             n == IF r.pause = "failures" THEN r.next ELSE Later(r.next, f)
             q == [r EXCEPT !.status = "active", !.pause = None, !.failures = 0, !.next = n]
  <2>1. f \in Cursors /\ r.next \in Cursors
    BY FirstIsPeriod DEF Rows
  <2> HIDE DEF f
  <2>2. n \in Cursors /\ r.next <= n
    BY <2>1, Bounds DEF Later, Cursors
  <2>3. w = Completed(q)
    BY <1>3 DEF Wanted, f
  <2> HIDE DEF n
  <2>4. q \in Rows /\ q.next = n /\ q.ended = r.ended
    BY <2>2 DEF Rows
  <2> HIDE DEF q
  <2> HIDE DEF w
  <2>5. w \in Rows /\ w.next = n /\ (w.ended = r.ended \/ w.ended = "completed")
    BY <2>3, <2>4, CompletedFacts
  <2> QED
    BY <1>3, <2>2, <2>5, Bounds DEF w
<1>4. CASE op = "end"
  <2>1. w = [r EXCEPT !.status = "ended", !.pause = None, !.ended = "other"]
    BY <1>4 DEF Wanted
  <2> QED
    BY <1>1, <1>4, <2>1, Bounds DEF Rows
<1>5. CASE op = "calendar"
  <2>1. arg \in Days
    BY <1>5, Bounds DEF Allowed, Days
  <2>2. FirstOnOrAfter(arg, today) \in Cursors
    BY <2>1, FirstIsPeriod
  <2>3. w = [r EXCEPT !.start = arg, !.next = FirstOnOrAfter(arg, today)]
    BY <1>5 DEF Wanted
  <2> QED
    BY <1>5, <2>1, <2>2, <2>3 DEF Rows
<1>6. CASE op = "count"
  <2> DEFINE q == [r EXCEPT !.count = arg]
  <2>1. arg \in Periods
    BY <1>6, Bounds DEF Allowed, Periods
  <2>2. q \in Rows /\ q.next = r.next /\ q.ended = r.ended
    BY <2>1 DEF Rows
  <2>3. w = q \/ w = Completed(q)
    BY <1>6 DEF Wanted
  <2> HIDE DEF q
  <2> HIDE DEF w
  <2>4. w \in Rows /\ w.next = r.next /\ (w.ended = r.ended \/ w.ended = "completed")
    BY <2>2, <2>3, CompletedFacts
  <2> QED
    BY <1>1, <1>6, <2>4, Bounds DEF w
<1>7. CASE op = "link"
  <2>1. arg \in Periods
    BY <1>7 DEF Allowed
  <2> DEFINE n == IF arg >= r.next THEN arg + 1 ELSE r.next
  <2>2. n \in Cursors /\ r.next <= n
    BY <2>1, Bounds DEF Rows, Cursors, Periods
  <2>3. w = [r EXCEPT !.next = n]
    BY <1>7 DEF Wanted
  <2> HIDE DEF n
  <2> QED
    BY <1>7, <2>1, <2>2, <2>3 DEF Rows
<1>8. CASE op = "unlink"
  <2>1. w = r
    BY <1>8 DEF Wanted
  <2> QED
    BY <1>1, <1>8, <2>1
<1>9. CASE op = "delete"
  <2>1. w = [r EXCEPT !.live = FALSE]
    BY <1>9 DEF Wanted
  <2> QED
    BY <1>1, <1>9, <2>1 DEF Rows
<1> QED
  BY <1>2, <1>3, <1>4, <1>5, <1>6, <1>7, <1>8, <1>9 DEF Ops

-----------------------------------------------------------------------------
(* The steps                                                               *)

(* What a run knows stays so while nobody writes its row or forgets what   *)
(* was linked.                                                             *)
LEMMA KnowsStill ==
    ASSUME NEW st \in Session, RunKnows(st), row' = row, today' = today,
           history.ever \subseteq history'.ever
    PROVE  RunKnows(st)'
<1>1. Alike(row, st.read)'
  BY DEF RunKnows, Alike
<1>2. Passed(st) \subseteq history'.ever \cup st.made
  BY DEF RunKnows
<1> QED
  BY <1>1, <1>2 DEF RunKnows

(* A step of the session s to the state st keeps the invariant if st       *)
(* knows what it has to, and the run that has the lock, if it is another   *)
(* one, still finds its row and what was linked.                           *)
LEMMA SessionStep ==
    ASSUME IInv, TypeOK', NEW s \in Sessions, NEW st \in Session,
           session' = [session EXCEPT ![s] = st],
           \A t \in Sessions : t # s => (lock' = t <=> lock = t),
           lock' = s <=> st.pc \in {"emit", "commit"},
           today' = today,
           \/ \A t \in Sessions : t # s => lock # t
           \/ row' = row /\ history.ever \subseteq history'.ever,
           st.pc \in {"emit", "commit"} => RunKnows(st)',
           Underway(s, st),
           st.pc = "decided" => Decision(st),
           RowIsConsistent', AnsweredIsKnown', EmittedIsPast'
    PROVE  IInv'
<1> USE DEF IInv
<1>1. session'[s] = st /\ \A t \in Sessions : t # s => session'[t] = session[t]
  BY DEF TypeOK
<1>2. LockIsRun'
  <2> SUFFICES ASSUME NEW t \in Sessions
               PROVE  lock' = t <=> session'[t].pc \in {"emit", "commit"}
    BY DEF LockIsRun
  <2> QED
    BY <1>1 DEF LockIsRun
<1>3. RunsKnow'
  <2> SUFFICES ASSUME NEW t \in Sessions, NEW q \in Session,
                      session'[t] = q, q.pc \in {"emit", "commit"}
               PROVE  RunKnows(q)'
    BY DEF RunsKnow
  <2>1. CASE t = s
    BY <1>1, <2>1
  <2>2. CASE t # s
    <3>1. session[t] = q /\ RunKnows(q) /\ lock = t
      BY <1>1, <2>2 DEF RunsKnow, LockIsRun
    <3>2. row' = row /\ history.ever \subseteq history'.ever
      BY <2>2, <3>1
    <3> QED
      BY <3>1, <3>2, KnowsStill
  <2> QED
    BY <2>1, <2>2
<1>4. RunsUnderway' /\ DecisionsSound'
  BY <1>1 DEF RunsUnderway, DecisionsSound, Underway
<1> QED
  BY <1>2, <1>3, <1>4

(* One that reads, decides or gives up, and commits nothing.               *)
LEMMA QuietStep ==
    ASSUME IInv, NEW s \in Sessions, NEW st \in Session, Put(s, st),
           UNCHANGED <<row, answered, today, history>>,
           ops' \in 0 .. MaxOps, crashes' \in 0 .. MaxCrashes,
           lock' \in {lock, s, None},
           \A t \in Sessions : t # s => (lock' = t <=> lock = t),
           lock' = s <=> st.pc \in {"emit", "commit"},
           st.pc \in {"emit", "commit"} => RunKnows(st),
           Underway(s, st),
           st.pc = "decided" => Decision(st)
    PROVE  IInv'
<1> USE DEF IInv
<1>1. session' = [session EXCEPT ![s] = st]
  BY DEF Put
<1>2. TypeOK'
  BY <1>1 DEF TypeOK
<1>3. RowIsConsistent' /\ AnsweredIsKnown' /\ EmittedIsPast'
  BY DEF RowIsConsistent, AnsweredIsKnown, EmittedIsPast
<1>4. st.pc \in {"emit", "commit"} => RunKnows(st)'
  BY DEF RunKnows
<1>5. row' = row /\ history.ever \subseteq history'.ever
  OBVIOUS
<1> QED
  BY <1>1, <1>2, <1>3, <1>4, <1>5, SessionStep

(* generate_due begins.                                                    *)
LEMMA RunStartInvariant ==
    ASSUME IInv, NEW s \in Sessions, RunStart(s)
    PROVE  IInv'
<1> USE DEF IInv
<1> DEFINE st == [Idle EXCEPT !.pc = "wait", !.force = (s # Job), !.read = row, !.cur = row]
<1>1. /\ session[s].pc = "idle" /\ Put(s, st)
      /\ UNCHANGED <<row, answered, lock, today, crashes, history>>
      /\ ops' \in 0 .. MaxOps
  BY ScheduleAssumption DEF RunStart, TypeOK
<1>2. (s # Job) \in BOOLEAN /\ row \in Rows
  BY DEF TypeOK
<1>3. st \in Session /\ st.pc = "wait" /\ (s # Job => st.force) /\ st.made = {}
  <2>1. Idle.made = {}
    BY DEF Idle
  <2>2. st \in Session /\ st.pc = "wait" /\ st.made = {} /\ st.force = (s # Job)
    BY <1>2, <2>1, IdleType DEF Session
  <2> QED
    BY <2>2
<1> HIDE DEF st
<1>4. lock # s
  BY <1>1 DEF LockIsRun
<1> QED
  BY <1>1, <1>3, <1>4, QuietStep DEF TypeOK, Underway

(* A run that has just got the lock knows the row.                         *)
LEMMA FreshRunKnows ==
    ASSUME RowIsConsistent, row \in Rows, row.live, row.status = "active",
           NEW st \in Session, Alike(row, st.read), st.cur = st.read, st.made = {}
    PROVE  RunKnows(st)
<1>1. st.read.next \in Nat
  BY DEF Session, Rows, Cursors
<1>2. Passed(st) = {}
  BY <1>1 DEF Passed
<1>3. Consistent(st.cur)
  BY DEF Alike, RowIsConsistent, Consistent
<1>4. st.read.live /\ st.read.status = "active" /\ st.read.next <= st.cur.next
  BY <1>1 DEF Alike
<1> QED
  BY <1>2, <1>3, <1>4 DEF RunKnows

(* It waits for the lock and reads the agreement again.                    *)
LEMMA RunLockInvariant ==
    ASSUME IInv, NEW s \in Sessions, RunLock(s)
    PROVE  IInv'
<1> USE DEF IInv
<1> DEFINE fresh == [row EXCEPT !.failures = session[s].read.failures]
           st == [session[s] EXCEPT !.pc = "emit", !.read = fresh, !.cur = fresh]
<1>1. /\ session[s].pc = "wait" /\ lock = None /\ session[s].made = {}
      /\ UNCHANGED <<row, answered, today, ops, crashes, history>>
      /\ session[s] \in Session /\ row \in Rows /\ s # None
      /\ ops \in 0 .. MaxOps /\ crashes \in 0 .. MaxCrashes
      /\ \A t \in Sessions : t # None
      /\ s # Job => session[s].force
  BY Bounds DEF RunLock, TypeOK, RunsUnderway, Underway
<1>2. CASE ~(row.live /\ row.status = "active")
  <2>1. lock' = None /\ Put(s, Idle)
    BY <1>2 DEF RunLock
  <2> QED
    BY <1>1, <2>1, IdleType, QuietStep DEF Underway
<1>3. CASE row.live /\ row.status = "active"
  <2>1. lock' = s /\ Put(s, st)
    BY <1>3 DEF RunLock
  <2>2. fresh \in Rows /\ Alike(row, fresh)
    BY <1>1 DEF Session, Rows, Alike
  <2> HIDE DEF fresh
  <2>3. /\ st \in Session /\ st.pc = "emit" /\ st.read = fresh /\ st.cur = fresh
        /\ st.force = session[s].force /\ st.made = {}
    BY <1>1, <2>2 DEF Session
  <2> HIDE DEF st
  <2>4. RunKnows(st)
    BY <1>1, <1>3, <2>2, <2>3, FreshRunKnows
  <2> QED
    <3>1. Underway(s, st)
      BY <1>1, <1>3, <2>2, <2>3 DEF Underway, Alike
    <3> QED
      BY <1>1, <2>1, <2>3, <2>4, <3>1, QuietStep
<1> QED
  BY <1>2, <1>3

(* The run ends its loop: what it knows is still so.                       *)
LEMMA ClosingKnows ==
    ASSUME NEW st \in Session, RunKnows(st), st.cur.status = "active"
    PROVE  Closed(st) \in Session /\ Closed(st).pc = "commit" /\ RunKnows(Closed(st))
<1> DEFINE c == [Completed(st.cur) EXCEPT !.failures = 0]
<1>1. st.cur \in Rows /\ st.read \in Rows
  BY DEF Session
<1>2. /\ c \in Rows
      /\ c.live = st.cur.live /\ c.next = st.cur.next /\ c.start = st.cur.start
      /\ c.count = st.cur.count
      /\ Consistent(c)
  <2> DEFINE q == Completed(st.cur)
  <2>1. /\ q \in Rows
        /\ q.live = st.cur.live /\ q.next = st.cur.next /\ q.start = st.cur.start
        /\ q.count = st.cur.count
        /\ q = st.cur \/ (q.status = "ended" /\ q.ended = "completed")
    BY <1>1, CompletedFacts
  <2> HIDE DEF q
  <2>2. Consistent(q)
    BY <2>1, Bounds DEF RunKnows, Consistent
  <2>3. /\ c \in Rows
        /\ c.live = q.live /\ c.next = q.next /\ c.start = q.start /\ c.count = q.count
        /\ c.status = q.status /\ c.ended = q.ended
    BY <2>1 DEF Rows, q
  <2> QED
    BY <2>1, <2>2, <2>3 DEF Consistent
<1>3. Closed(st) = [st EXCEPT !.pc = "commit", !.cur = c]
  BY DEF Closed
<1> HIDE DEF c
<1> DEFINE d == Closed(st)
<1>4. /\ d \in Session /\ d.pc = "commit" /\ d.cur = c /\ d.read = st.read
      /\ d.made = st.made /\ d.force = st.force
  BY <1>2, <1>3 DEF Session
<1> HIDE DEF d
<1>5. Passed(d) = Passed(st)
  BY <1>2, <1>4 DEF Passed
<1>6. RunKnows(d)
  BY <1>2, <1>4, <1>5 DEF RunKnows
<1> QED
  BY <1>4, <1>6 DEF d

(* The run goes past a period, which it made or which was answered.        *)
LEMMA PassingKnows ==
    ASSUME TypeOK, AnsweredIsKnown, NEW st \in Session, RunKnows(st), st.pc = "emit", ~Done(st)
    PROVE  LET n == st.cur.next
               past == [st EXCEPT !.cur.next = n + 1,
                          !.made = IF n \in answered THEN @ ELSE @ \cup {n}]
           IN  /\ past \in Session /\ RunKnows(past) /\ past.pc = "emit"
               /\ past.force = st.force /\ past.cur.status = st.cur.status
<1> DEFINE n == st.cur.next
           made == IF n \in answered THEN st.made ELSE st.made \cup {n}
           past == [st EXCEPT !.cur.next = n + 1,
                      !.made = IF n \in answered THEN @ ELSE @ \cup {n}]
           cur == [st.cur EXCEPT !.next = n + 1]
<1>1. /\ st.cur \in Rows /\ st.read \in Rows /\ n \in Nat /\ 1 <= n /\ st.read.next \in Nat
      /\ st.made \subseteq Periods
  BY DEF Session, Rows, Cursors
<1>2. /\ WithinEnd(st.cur, n) /\ n \in Periods /\ n + 1 \in Cursors
      /\ st.force \/ Start(st.cur, n) <= today
  BY <1>1, Bounds DEF Done, Periods, Cursors, TypeOK, Days, Start, Rows
<1>3. cur \in Rows /\ cur.next = n + 1 /\ cur.live = st.cur.live /\ cur.start = st.cur.start
      /\ cur.count = st.cur.count /\ cur.status = st.cur.status /\ cur.ended = st.cur.ended
  BY <1>1, <1>2 DEF Rows
<1>4. made \subseteq Periods
  BY <1>1, <1>2
<1>5. past = [[st EXCEPT !.cur = cur] EXCEPT !.made = made]
  BY DEF Session
<1> HIDE DEF cur
<1> HIDE DEF made
<1> HIDE DEF past
<1>6. /\ past \in Session /\ past.pc = "emit" /\ past.cur = cur /\ past.made = made
      /\ past.read = st.read /\ past.force = st.force
  BY <1>3, <1>4, <1>5 DEF Session
<1>7. Passed(past) = Passed(st) \cup {n}
  <2>1. st.read.next <= n
    BY DEF RunKnows
  <2> QED
    BY <1>1, <1>3, <1>6, <2>1 DEF Passed
<1>8. made \subseteq Passed(past)
  BY <1>7 DEF RunKnows, made
<1>9. Passed(past) \subseteq history.ever \cup made
  BY <1>7 DEF RunKnows, made, AnsweredIsKnown
<1>10. \A k \in made : WithinEnd(st.read, k) /\ (st.force \/ Start(st.read, k) <= today)
  <2>1. WithinEnd(st.read, n) /\ (st.force \/ Start(st.read, n) <= today)
    BY <1>2 DEF RunKnows, WithinEnd, Start
  <2> QED
    BY <2>1 DEF RunKnows, made
<1>11. st.read.next <= cur.next /\ Consistent(cur)
  BY <1>1, <1>3 DEF RunKnows, Consistent
<1>12. RunKnows(past)
  BY <1>3, <1>6, <1>8, <1>9, <1>10, <1>11 DEF RunKnows
<1> QED
  BY <1>3, <1>6, <1>12 DEF past

(* It emits a period, passes one that is answered, or ends its loop.       *)
LEMMA RunPeriodInvariant ==
    ASSUME IInv, NEW s \in Sessions, RunPeriod(s)
    PROVE  IInv'
<1> USE DEF IInv
<1> DEFINE st == session[s]
           n == st.cur.next
           past == [st EXCEPT !.cur.next = n + 1,
                      !.made = IF n \in answered THEN @ ELSE @ \cup {n}]
<1>1. /\ st \in Session /\ st.pc = "emit" /\ lock = s
      /\ UNCHANGED <<row, answered, lock, today, ops, crashes, history>>
      /\ ops \in 0 .. MaxOps /\ crashes \in 0 .. MaxCrashes
      /\ st.cur.status = "active" /\ (s # Job => st.force)
  BY DEF RunPeriod, TypeOK, LockIsRun, RunsUnderway, Underway
<1>2. RunKnows(st)
  BY <1>1 DEF RunsKnow
<1>3. \/ Done(st) /\ Put(s, Closed(st))
      \/ ~Done(st) /\ st.force /\ Put(s, Closed(past))
      \/ ~Done(st) /\ ~st.force /\ Put(s, past)
  <2>1. st.force \in BOOLEAN
    BY <1>1 DEF Session
  <2>2. Put(s, CASE Done(st)              -> Closed(st)
                 [] ~Done(st) /\ st.force  -> Closed(past)
                 [] ~Done(st) /\ ~st.force -> past)
    BY DEF RunPeriod
  <2> HIDE DEF past
  <2> HIDE DEF st
  <2>3. CASE Done(st)
    BY <2>2, <2>3
  <2>4. CASE ~Done(st) /\ st.force
    BY <2>2, <2>4
  <2>5. CASE ~Done(st) /\ ~st.force
    BY <2>2, <2>5
  <2> QED
    BY <2>3, <2>4, <2>5
<1>4. ASSUME ~Done(st)
      PROVE  /\ past \in Session /\ RunKnows(past) /\ past.pc = "emit"
             /\ past.force = st.force /\ past.cur.status = "active"
  BY <1>1, <1>2, <1>4, PassingKnows
<1> HIDE DEF past
<1> HIDE DEF st
<1>5. ASSUME NEW q \in Session, Put(s, q), RunKnows(q), q.pc \in {"emit", "commit"},
             q.pc = "emit" => q.cur.status = "active" /\ ~q.force /\ s = Job
      PROVE  IInv'
  <2>1. Underway(s, q)
    BY <1>5 DEF Underway
  <2> QED
    BY <1>1, <1>5, <2>1, QuietStep
<1>6. CASE Done(st) /\ Put(s, Closed(st))
  <2>1. Closed(st) \in Session /\ Closed(st).pc = "commit" /\ RunKnows(Closed(st))
    BY <1>1, <1>2, ClosingKnows
  <2> QED
    BY <1>5, <1>6, <2>1
<1>7. CASE ~Done(st) /\ st.force /\ Put(s, Closed(past))
  <2>1. Closed(past) \in Session /\ Closed(past).pc = "commit" /\ RunKnows(Closed(past))
    BY <1>4, <1>7, ClosingKnows
  <2> QED
    BY <1>5, <1>7, <2>1
<1>8. CASE ~Done(st) /\ ~st.force /\ Put(s, past)
  BY <1>1, <1>4, <1>5, <1>8
<1> QED
  BY <1>3, <1>6, <1>7, <1>8

(* Its invoice fails: nothing made, and one failure more.                  *)
LEMMA RunFailsInvariant ==
    ASSUME IInv, NEW s \in Sessions, RunFails(s)
    PROVE  IInv'
<1> USE DEF IInv
<1> DEFINE st == session[s]
           q == [st EXCEPT !.pc = IF s = Job THEN "record" ELSE "commit",
                   !.made = {}, !.cur = Failed(@)]
<1>1. /\ st \in Session /\ st.pc = "emit" /\ lock = s /\ Put(s, q) /\ s # None
      /\ UNCHANGED <<row, answered, today, ops, crashes, history>>
      /\ lock' = IF s = Job THEN None ELSE lock
      /\ ops \in 0 .. MaxOps /\ crashes \in 0 .. MaxCrashes
      /\ st.cur.status = "active" /\ (s # Job => st.force)
      /\ st.force => st.cur.next = st.read.next
      /\ \A t \in Sessions : t # None
  BY Bounds DEF RunFails, TypeOK, LockIsRun, RunsUnderway, Underway
<1>2. RunKnows(st)
  BY <1>1 DEF RunsKnow
<1>3. st.cur \in Rows /\ st.read \in Rows
  BY <1>1 DEF Session
<1> DEFINE c == Failed(st.cur)
<1>4. /\ c \in Rows
      /\ c.live = st.cur.live /\ c.next = st.cur.next /\ c.start = st.cur.start
      /\ c.count = st.cur.count /\ c.ended = st.cur.ended
      /\ c.status \in {"active", "paused"}
  BY <1>1, <1>3, FailedFacts
<1>5. q = [[[st EXCEPT !.pc = IF s = Job THEN "record" ELSE "commit"]
             EXCEPT !.made = {}] EXCEPT !.cur = c]
  BY <1>1 DEF Session
<1> HIDE DEF c
<1> HIDE DEF q
<1>6. /\ q \in Session /\ q.pc = (IF s = Job THEN "record" ELSE "commit")
      /\ q.made = {} /\ q.cur = c /\ q.read = st.read /\ q.force = st.force
  BY <1>1, <1>4, <1>5 DEF Session
<1> HIDE DEF st
<1>7. q.pc = "commit" => RunKnows(q)
  <2> SUFFICES ASSUME s # Job PROVE RunKnows(q)
    BY <1>6
  <2>1. c.next = st.read.next /\ st.read.next \in Nat
    BY <1>1, <1>3, <1>4 DEF Rows, Cursors
  <2>2. Passed(q) = {}
    BY <1>6, <2>1 DEF Passed
  <2>3. Consistent(c)
    BY <1>1, <1>2, <1>4 DEF RunKnows, Consistent
  <2> QED
    BY <1>2, <1>4, <1>6, <2>1, <2>2, <2>3 DEF RunKnows
<1>8. Underway(s, q)
  BY <1>4, <1>6 DEF Underway
<1> QED
  BY <1>1, <1>6, <1>7, <1>8, QuietStep

(* It dies.                                                                *)
LEMMA RunDiesInvariant ==
    ASSUME IInv, NEW s \in Sessions, RunDies(s)
    PROVE  IInv'
<1> USE DEF IInv
<1>1. /\ Put(s, Idle) /\ UNCHANGED <<row, answered, today, ops, history>>
      /\ lock' = IF lock = s THEN None ELSE lock
      /\ ops \in 0 .. MaxOps /\ crashes' \in 0 .. MaxCrashes
      /\ \A t \in Sessions : t # None
  BY ScheduleAssumption, Bounds DEF RunDies, TypeOK
<1> QED
  BY <1>1, IdleType, QuietStep DEF Underway

(* A person's request loads the agreement and decides.                     *)
LEMMA RequestInvariant ==
    ASSUME IInv, NEW s \in Sessions, Request(s)
    PROVE  IInv'
<1> USE DEF IInv
<1>1. /\ session[s].pc = "idle" /\ row \in Rows /\ answered \subseteq Periods
      /\ UNCHANGED <<row, answered, lock, today, crashes, history>>
      /\ ops' \in 0 .. MaxOps /\ crashes \in 0 .. MaxCrashes /\ today \in Days
      /\ lock # s
  BY ScheduleAssumption DEF Request, TypeOK, LockIsRun
<1>2. PICK op \in Ops, arg \in 0 .. LastPeriod :
        /\ Allowed(op, row, answered, arg)
        /\ Put(s, [Idle EXCEPT !.pc = "decided", !.op = op, !.arg = arg,
                     !.read = row, !.links = answered,
                     !.cur = Wanted(op, row, arg)])
  BY DEF Request
<1> DEFINE w == Wanted(op, row, arg)
           q == [Idle EXCEPT !.pc = "decided", !.op = op, !.arg = arg,
                     !.read = row, !.links = answered, !.cur = w]
<1>3. arg \in Nat
  BY Bounds
<1>4. /\ w \in Rows
      /\ w.ended = row.ended \/ w.ended # None
      /\ op # "calendar" => row.next <= w.next
      /\ op = "unlink" => w = row
      /\ op = "link" => arg \in Periods
  BY <1>1, <1>2, <1>3, WantedFacts
<1> HIDE DEF w
<1>5. /\ q \in Session /\ q.pc = "decided" /\ q.op = op /\ q.arg = arg
      /\ q.read = row /\ q.cur = w
  BY <1>1, <1>3, <1>4, IdleType DEF Session
<1>6. Put(s, q)
  BY <1>2 DEF w
<1> HIDE DEF q
<1>7. Decision(q) /\ Underway(s, q)
  BY <1>4, <1>5 DEF Decision, Underway
<1> QED
  BY <1>1, <1>5, <1>6, <1>7, QuietStep

(* What the commit of a run makes of the row: what the run has in memory,  *)
(* but for the failures.                                                   *)
LEMMA CommittedRow ==
    ASSUME NEW st \in Session, row \in Rows, RunKnows(st)
    PROVE  LET m == Merged(row, st.read, st.cur) IN
           m \in Rows /\ Consistent(m) /\ m.next = st.cur.next
<1> DEFINE m == Merged(row, st.read, st.cur)
<1>1. st.read \in Rows /\ st.cur \in Rows
  BY DEF Session
<1>2. /\ m \in Rows
      /\ m.status = IF st.cur.status = st.read.status THEN row.status ELSE st.cur.status
      /\ m.ended = IF st.cur.ended = st.read.ended THEN row.ended ELSE st.cur.ended
      /\ m.next = IF st.cur.next = st.read.next THEN row.next ELSE st.cur.next
  BY <1>1, MergedFacts
<1> HIDE DEF m
<1>3. Alike(row, st.read) /\ Consistent(st.cur)
  BY DEF RunKnows
<1> QED
  BY <1>2, <1>3 DEF Alike, Consistent, m

(* A run commits.                                                          *)
LEMMA RunCommitInvariant ==
    ASSUME IInv, NEW s \in Sessions, RunCommit(s)
    PROVE  IInv'
<1> USE DEF IInv
<1> DEFINE st == session[s]
           m == Merged(row, st.read, st.cur)
<1>1. /\ st \in Session /\ st.pc = "commit" /\ lock = s /\ row \in Rows
      /\ answered \subseteq Periods /\ history \in Histories /\ s # None
      /\ row' = m /\ answered' = answered \cup st.made
      /\ history' = [history EXCEPT !.emitted = @ \cup st.made, !.ever = @ \cup st.made]
      /\ lock' = None /\ Put(s, Idle) /\ UNCHANGED <<today, ops, crashes>>
      /\ \A t \in Sessions : t # None
  BY Bounds DEF RunCommit, TypeOK, LockIsRun
<1>2. RunKnows(st)
  BY <1>1 DEF RunsKnow
<1>3. m \in Rows /\ Consistent(m) /\ m.next = st.cur.next
  BY <1>1, <1>2, CommittedRow
<1> HIDE DEF m
<1>4. st.made \subseteq Periods /\ st.read.next \in Nat /\ st.cur.next \in Nat /\ row.next \in Nat
  BY <1>1 DEF Session, Rows, Cursors
<1>5. /\ history' \in Histories
      /\ history'.emitted = history.emitted \cup st.made
      /\ history'.ever = history.ever \cup st.made
      /\ history'.overtaken = history.overtaken
  BY <1>1, <1>4 DEF Histories
<1> HIDE DEF st
<1>6. TypeOK'
  BY <1>1, <1>3, <1>4, <1>5, IdleType DEF TypeOK, Put
<1>7. RowIsConsistent' /\ AnsweredIsKnown'
  BY <1>1, <1>3, <1>5 DEF RowIsConsistent, AnsweredIsKnown, Consistent
<1>8. EmittedIsPast'
  <2>1. row.next = st.read.next /\ st.read.next <= st.cur.next /\ st.made \subseteq Passed(st)
    BY <1>2 DEF RunKnows, Alike
  <2>2. \A n \in st.made : n < row'.next
    BY <1>1, <1>3, <1>4, <2>1 DEF Passed
  <2>3. row.next <= row'.next /\ row'.next \in Nat
    BY <1>1, <1>3, <1>4, <2>1
  <2>4. ~history'.overtaken => \A n \in history.emitted : n < row'.next
    <3> SUFFICES ASSUME ~history'.overtaken, NEW n \in history.emitted PROVE n < row'.next
      OBVIOUS
    <3>1. n < row.next /\ n \in Nat
      BY <1>1, <1>5 DEF EmittedIsPast, Histories, Periods
    <3> QED
      BY <1>4, <2>3, <3>1
  <2> QED
    BY <1>5, <2>2, <2>4 DEF EmittedIsPast
<1>9. session' = [session EXCEPT ![s] = Idle]
  BY <1>1 DEF Put
<1> QED
  BY <1>1, <1>6, <1>7, <1>8, <1>9, IdleType, SessionStep DEF Underway

(* The job records a failure after its rollback.                           *)
LEMMA RunRecordInvariant ==
    ASSUME IInv, NEW s \in Sessions, RunRecord(s)
    PROVE  IInv'
<1> USE DEF IInv
<1> DEFINE c == session[s].cur
           new == [row EXCEPT !.failures = c.failures, !.status = c.status, !.pause = c.pause]
<1>1. /\ session[s] \in Session /\ session[s].pc = "record" /\ lock = None /\ row \in Rows
      /\ row' = (IF row.live /\ Consistent(new) THEN new ELSE row)
      /\ Put(s, Idle) /\ UNCHANGED <<answered, lock, today, ops, crashes, history>>
      /\ \A t \in Sessions : t # None
  BY Bounds DEF RunRecord, TypeOK
<1>2. c \in Rows
  BY <1>1 DEF Session
<1> HIDE DEF c
<1>3. new \in Rows /\ new.next = row.next
  BY <1>1, <1>2 DEF Rows
<1> HIDE DEF new
<1>4. row' \in Rows /\ row'.next = row.next /\ Consistent(row')
  BY <1>1, <1>3 DEF RowIsConsistent
<1>5. TypeOK'
  BY <1>1, <1>4, IdleType DEF TypeOK, Put
<1>6. RowIsConsistent' /\ AnsweredIsKnown' /\ EmittedIsPast'
  BY <1>1, <1>4 DEF RowIsConsistent, AnsweredIsKnown, EmittedIsPast, Consistent
<1>7. session' = [session EXCEPT ![s] = Idle]
  BY <1>1 DEF Put
<1> QED
  BY <1>1, <1>5, <1>6, <1>7, IdleType, SessionStep DEF Underway

(* What a request stores.                                                  *)
LEMMA StoredFacts ==
    ASSUME IInv, NEW s \in Sessions, Commit(s),
           Stored(session[s], Merged(row, session[s].read, session[s].cur))
    PROVE  /\ row' \in Rows /\ Consistent(row')
           /\ answered' \subseteq Periods
           /\ history' \in Histories /\ answered' \subseteq history'.ever
           /\ session[s].op = "unlink" => row' = row /\ history.ever \subseteq history'.ever
           /\ ~history'.overtaken =>
                /\ ~history.overtaken
                /\ history'.emitted = {} \/ (history'.emitted = history.emitted
                                             /\ row.next <= row'.next)
<1> USE DEF IInv
<1> DEFINE st == session[s]
           new == Merged(row, st.read, st.cur)
<1>1. /\ st \in Session /\ st.pc = "decided" /\ row \in Rows /\ Decision(st)
      /\ answered \subseteq Periods /\ history \in Histories
  BY DEF Commit, TypeOK, DecisionsSound
<1>2. /\ Stored(st, new)
      /\ row' = new
      /\ answered' = Links(st)
      /\ history' =
           [emitted |-> IF st.op = "calendar" THEN {} ELSE history.emitted,
            ever    |-> IF st.op = "calendar" THEN answered
                        ELSE history.ever \cup answered',
            overtaken |-> \/ history.overtaken
                          \/ row # st.read
                          \/ answered # st.links]
  BY DEF Commit
<1>3. st.read \in Rows /\ st.cur \in Rows
  BY <1>1 DEF Session
<1>4. /\ new \in Rows
      /\ new.next = IF st.cur.next = st.read.next THEN row.next ELSE st.cur.next
  BY <1>1, <1>3, MergedFacts
<1>5. st.op = "unlink" => new = row
  BY <1>1, <1>3, MergedSame DEF Decision
<1>6. Consistent(new)
  BY <1>2 DEF Stored
<1> HIDE DEF new
<1> HIDE DEF st
<1>7. answered' \subseteq Periods /\ (st.op = "calendar" => answered' = answered)
  <2>1. CASE st.op = "link"
    BY <1>1, <1>2, <2>1 DEF Links, Decision
  <2>2. CASE st.op = "unlink"
    BY <1>1, <1>2, <2>2 DEF Links
  <2>3. CASE st.op \notin {"link", "unlink"}
    BY <1>1, <1>2, <2>3 DEF Links
  <2> QED
    BY <2>1, <2>2, <2>3
<1>8. /\ history' \in Histories
      /\ history'.emitted = IF st.op = "calendar" THEN {} ELSE history.emitted
      /\ history'.ever = IF st.op = "calendar" THEN answered ELSE history.ever \cup answered'
      /\ history'.overtaken <=> \/ history.overtaken \/ row # st.read \/ answered # st.links
  <2> DEFINE o == \/ history.overtaken \/ row # st.read \/ answered # st.links
  <2>1. o \in BOOLEAN
    BY <1>1 DEF Histories
  <2>2. history' = [emitted |-> IF st.op = "calendar" THEN {} ELSE history.emitted,
                    ever    |-> IF st.op = "calendar" THEN answered
                                ELSE history.ever \cup answered',
                    overtaken |-> o]
    BY <1>2
  <2> HIDE DEF o
  <2>3. /\ history' \in Histories
        /\ history'.emitted = IF st.op = "calendar" THEN {} ELSE history.emitted
        /\ history'.ever = IF st.op = "calendar" THEN answered ELSE history.ever \cup answered'
        /\ history'.overtaken = o
    BY <1>1, <1>7, <2>1, <2>2 DEF Histories
  <2> QED
    BY <2>3 DEF o
<1>9. ASSUME ~history'.overtaken
      PROVE  /\ ~history.overtaken
             /\ history'.emitted = {} \/ (history'.emitted = history.emitted
                                             /\ row.next <= row'.next)
  <2>1. ~history.overtaken /\ row = st.read
    BY <1>8, <1>9
  <2>2. CASE st.op = "calendar"
    BY <1>8, <2>1, <2>2
  <2>3. CASE st.op # "calendar"
    <3>1. st.read.next <= st.cur.next /\ row.next \in Nat
      BY <1>1, <2>3 DEF Decision, Rows, Cursors
    <3> QED
      BY <1>2, <1>4, <1>8, <2>1, <2>3, <3>1
  <2> QED
    BY <2>2, <2>3
<1>10. st.op = "unlink" => row' = row /\ history.ever \subseteq history'.ever
  BY <1>2, <1>5, <1>8
<1> QED
  BY <1>2, <1>4, <1>6, <1>7, <1>8, <1>9, <1>10 DEF st

(* A person's request commits, or fails.                                   *)
LEMMA CommitInvariant ==
    ASSUME IInv, NEW s \in Sessions, Commit(s)
    PROVE  IInv'
<1> USE DEF IInv
<1> DEFINE st == session[s]
<1>1. /\ st.pc = "decided" /\ row \in Rows /\ history \in Histories
      /\ st.op = "unlink" \/ lock = None
      /\ Put(s, Idle) /\ UNCHANGED <<lock, today, ops, crashes>>
      /\ lock # s
      /\ ops \in 0 .. MaxOps /\ crashes \in 0 .. MaxCrashes
      /\ \A t \in Sessions : t # None
  BY Bounds DEF Commit, TypeOK, LockIsRun
<1>2. CASE ~Stored(st, Merged(row, st.read, st.cur))
  <2>1. UNCHANGED <<row, answered, history>>
    BY <1>2 DEF Commit
  <2> QED
    BY <1>1, <2>1, IdleType, QuietStep DEF Underway
<1>3. CASE Stored(st, Merged(row, st.read, st.cur))
  <2>1. /\ row' \in Rows /\ Consistent(row')
        /\ answered' \subseteq Periods
        /\ history' \in Histories /\ answered' \subseteq history'.ever
        /\ st.op = "unlink" => row' = row /\ history.ever \subseteq history'.ever
        /\ ~history'.overtaken =>
                /\ ~history.overtaken
                /\ history'.emitted = {} \/ (history'.emitted = history.emitted
                                             /\ row.next <= row'.next)
    BY <1>3, StoredFacts
  <2>2. TypeOK'
    BY <1>1, <2>1, IdleType DEF TypeOK, Put
  <2>3. RowIsConsistent' /\ AnsweredIsKnown'
    BY <2>1 DEF RowIsConsistent, AnsweredIsKnown, Consistent
  <2>4. EmittedIsPast'
    <3> SUFFICES ASSUME ~history'.overtaken, NEW n \in history'.emitted
                 PROVE  n < row'.next
      BY DEF EmittedIsPast
    <3>1. n \in history.emitted /\ ~history.overtaken /\ row.next <= row'.next
      BY <2>1
    <3>2. n < row.next /\ n \in Nat
      BY <1>1, <3>1 DEF EmittedIsPast, Histories, Periods
    <3>3. row.next \in Nat /\ row'.next \in Nat
      BY <1>1, <2>1 DEF Rows, Cursors
    <3> QED
      BY <3>1, <3>2, <3>3
  <2>5. session' = [session EXCEPT ![s] = Idle]
    BY <1>1 DEF Put
  <2>6. \/ \A t \in Sessions : t # s => lock # t
        \/ row' = row /\ history.ever \subseteq history'.ever
    BY <1>1, <2>1
  <2> HIDE DEF st
  <2> QED
    BY <1>1, <2>2, <2>3, <2>4, <2>5, <2>6, IdleType, SessionStep DEF Underway
<1> QED
  BY <1>2, <1>3

(* A day passes: what was due still is.                                    *)
LEMMA TickInvariant ==
    ASSUME IInv, Tick
    PROVE  IInv'
<1> USE DEF IInv
<1>1. /\ today \in Nat /\ today' = today + 1 /\ today' \in Days
      /\ UNCHANGED <<row, answered, lock, session, ops, crashes, history>>
  BY ScheduleAssumption DEF Tick, TypeOK, Days
<1>2. TypeOK'
  BY <1>1 DEF TypeOK
<1>3. RunsKnow'
  <2> SUFFICES ASSUME NEW s \in Sessions, NEW st \in Session,
                      session[s] = st, st.pc \in {"emit", "commit"}
               PROVE  RunKnows(st)'
    BY <1>1 DEF RunsKnow
  <2>1. RunKnows(st)
    BY DEF RunsKnow
  <2>2. \A n \in st.made : st.force \/ Start(st.read, n) <= today'
    <3> SUFFICES ASSUME NEW n \in st.made, ~st.force PROVE Start(st.read, n) <= today'
      OBVIOUS
    <3>1. Start(st.read, n) <= today
      BY <2>1 DEF RunKnows
    <3>2. Start(st.read, n) \in Int
      <4>1. n \in Nat /\ st.read.start \in Nat
        BY Bounds DEF Session, Periods, Rows, Days
      <4> QED
        BY <4>1 DEF Start
    <3> QED
      BY <1>1, <3>1, <3>2
  <2> QED
    BY <1>1, <2>1, <2>2 DEF RunKnows, Alike
<1>4. LockIsRun' /\ RunsUnderway' /\ DecisionsSound' /\ RowIsConsistent'
      /\ AnsweredIsKnown' /\ EmittedIsPast'
  BY <1>1 DEF LockIsRun, RunsUnderway, Underway, DecisionsSound, Decision,
              RowIsConsistent, Consistent, AnsweredIsKnown, EmittedIsPast
<1> QED
  BY <1>2, <1>3, <1>4

(* Nothing happens.                                                        *)
LEMMA StutterInvariant ==
    ASSUME IInv, UNCHANGED vars
    PROVE  IInv'
  BY DEF IInv, vars, TypeOK, LockIsRun, RunsKnow, RunKnows, Alike, RunsUnderway, Underway,
         DecisionsSound, Decision, RowIsConsistent, Consistent, AnsweredIsKnown, EmittedIsPast

(* A new agreement.                                                        *)
LEMMA InitInvariant ==
    ASSUME Init
    PROVE  IInv
<1>1. PICK start \in 0 .. 2, count \in {None, 3} : row = NewRow(start, count, 1)
  BY DEF Init
<1>2. start \in Days /\ 1 \in Days /\ count \in Periods \cup {None}
  BY Bounds DEF Days, Periods
<1>3. row \in Rows /\ Consistent(row)
  BY <1>1, <1>2, NewRowFacts
<1>4. /\ today = 1 /\ answered = {} /\ lock = None /\ ops = 0 /\ crashes = 0
      /\ session = [s \in Sessions |-> Idle]
      /\ history = [emitted |-> {}, ever |-> {}, overtaken |-> FALSE]
  BY DEF Init
<1>5. history \in Histories /\ history.emitted = {}
  BY <1>4 DEF Histories
<1>6. TypeOK
  BY <1>2, <1>3, <1>4, <1>5, IdleType, ScheduleAssumption DEF TypeOK
<1>7. \A s \in Sessions : session[s].pc = "idle" /\ s # None
  BY <1>4, IdleType, Bounds
<1> QED
  BY <1>3, <1>4, <1>5, <1>6, <1>7
     DEF IInv, LockIsRun, RunsKnow, RunsUnderway, Underway, DecisionsSound,
         RowIsConsistent, AnsweredIsKnown, EmittedIsPast

(* Every step keeps the invariant.                                         *)
LEMMA StepInvariant ==
    ASSUME IInv, [Next]_vars
    PROVE  IInv'
<1>1. CASE UNCHANGED vars
  BY <1>1, StutterInvariant
<1>2. CASE Tick
  BY <1>2, TickInvariant
<1>3. ASSUME NEW s \in Sessions,
             RunStart(s) \/ RunLock(s) \/ Run(s) \/ RunDies(s) \/ Request(s) \/ Commit(s)
      PROVE  IInv'
  BY <1>3, RunStartInvariant, RunLockInvariant, RunPeriodInvariant, RunFailsInvariant,
     RunCommitInvariant, RunRecordInvariant, RunDiesInvariant, RequestInvariant,
     CommitInvariant DEF Run
<1> QED
  BY <1>1, <1>2, <1>3 DEF Next

-----------------------------------------------------------------------------
(* The theorems                                                            *)

(* A run bills on the agreement as it stands, whose row it holds locked.   *)
THEOREM ScheduleInvariant == Spec => []IInv
<1>1. Init => IInv
  BY InitInvariant
<1>2. IInv /\ [Next]_vars => IInv'
  BY StepInvariant
<1> QED
  BY <1>1, <1>2, PTL DEF Spec

(* Every variable keeps its type.                                          *)
THEOREM ScheduleTypes == Spec => []TypeOK
<1>1. IInv => TypeOK
  BY DEF IInv
<1> QED
  BY <1>1, ScheduleInvariant, PTL

(* What a step makes of the row of an agreement that has ended: no run     *)
(* holds it, and what the job or a request stores leaves it a reason.      *)
LEMMA EndedStep ==
    ASSUME IInv, IInv', [Next]_vars, row.status = "ended"
    PROVE  row'.status = "ended"
<1>1. row.ended # None /\ Consistent(row)' /\ row \in Rows
  BY DEF IInv, TypeOK, RowIsConsistent, Consistent
<1>2. ASSUME row'.ended # None
      PROVE  row'.status = "ended"
  BY <1>1, <1>2 DEF Consistent
<1>3. CASE row' = row
  BY <1>3
<1>4. ASSUME NEW s \in Sessions, RunCommit(s) PROVE FALSE
  <2>1. session[s] \in Session /\ session[s].pc = "commit"
    BY <1>4 DEF RunCommit, IInv, TypeOK
  <2>2. RunKnows(session[s])
    BY <2>1 DEF IInv, RunsKnow
  <2> QED
    BY <2>2 DEF RunKnows, Alike
<1>5. ASSUME NEW s \in Sessions, RunRecord(s) PROVE row'.status = "ended"
  <2> DEFINE c == session[s].cur
             new == [row EXCEPT !.failures = c.failures, !.status = c.status, !.pause = c.pause]
  <2>1. row' = new \/ row' = row
    BY <1>5 DEF RunRecord
  <2>2. new.ended = row.ended
    BY <1>1 DEF Rows
  <2> QED
    BY <1>1, <1>2, <2>1, <2>2
<1>6. ASSUME NEW s \in Sessions, Commit(s) PROVE row'.status = "ended"
  <2> DEFINE st == session[s]
             new == Merged(row, st.read, st.cur)
  <2>1. row' = new \/ row' = row
    BY <1>6 DEF Commit
  <2>2. st \in Session /\ Decision(st)
    BY <1>6 DEF IInv, TypeOK, DecisionsSound, Commit
  <2>3. st.read \in Rows /\ st.cur \in Rows
    BY <2>2 DEF Session
  <2>4. new.ended = IF st.cur.ended = st.read.ended THEN row.ended ELSE st.cur.ended
    BY <1>1, <2>3, MergedFacts
  <2> HIDE DEF new
  <2>5. new.ended # None
    BY <1>1, <2>2, <2>4 DEF Decision
  <2> QED
    BY <1>1, <1>2, <2>1, <2>5
<1>7. CASE UNCHANGED vars
  BY <1>7 DEF vars
<1>8. CASE Tick
  BY <1>8 DEF Tick
<1>9. ASSUME NEW s \in Sessions,
             \/ RunStart(s) \/ RunLock(s) \/ RunPeriod(s) \/ RunFails(s)
             \/ RunDies(s) \/ Request(s)
      PROVE  row' = row
  BY <1>9 DEF RunStart, RunLock, RunPeriod, RunFails, RunDies, Request
<1> QED
  BY <1>3, <1>4, <1>5, <1>6, <1>7, <1>8, <1>9 DEF Next, Run

(* An agreement that has ended stays so, though a job that failed on it    *)
(* before or a request that read it before stores what it had in memory.   *)
THEOREM EndedStaysEnded == Spec => EndedIsTerminal
<1>1. IInv /\ IInv' /\ [Next]_vars => [row.status = "ended" => row'.status = "ended"]_vars
  BY EndedStep
<1> QED
  BY <1>1, ScheduleInvariant, PTL DEF EndedIsTerminal, Spec

(* What a run knows when it commits, and what its commit does.             *)
LEMMA CommitFacts ==
    ASSUME IInv, NEW s \in Sessions, RunCommit(s)
    PROVE  /\ session[s] \in Session /\ RunKnows(session[s])
           /\ row.next = session[s].read.next /\ row'.next = session[s].cur.next
           /\ history'.ever = history.ever \cup session[s].made
           /\ row \in Rows /\ session[s].read.next \in Nat /\ session[s].cur.next \in Nat
<1> DEFINE st == session[s]
<1>1. /\ st \in Session /\ st.pc = "commit" /\ row \in Rows /\ history \in Histories
      /\ row' = Merged(row, st.read, st.cur)
      /\ history' = [history EXCEPT !.emitted = @ \cup st.made, !.ever = @ \cup st.made]
  BY DEF RunCommit, IInv, TypeOK
<1>2. RunKnows(st)
  BY <1>1 DEF IInv, RunsKnow
<1>3. row'.next = st.cur.next
  BY <1>1, <1>2, CommittedRow
<1>4. st.read.next \in Nat /\ st.cur.next \in Nat
  BY <1>1 DEF Session, Rows, Cursors
<1>5. history'.ever = history.ever \cup st.made
  BY <1>1 DEF Histories
<1> HIDE DEF st
<1>6. row.next = st.read.next
  BY <1>2 DEF RunKnows, Alike
<1> QED
  BY <1>1, <1>2, <1>3, <1>4, <1>5, <1>6 DEF st

(* A run drops no period: whatever its cursor leaves behind is answered.   *)
THEOREM RunsSkipNothing == Spec => RunSkipsNothing
<1>1. ASSUME IInv, NEW s \in Sessions, RunCommit(s)
      PROVE  row.next .. row'.next - 1 \subseteq history'.ever
  BY <1>1, CommitFacts DEF RunKnows, Passed
<1>2. IInv /\ [Next]_vars =>
        [\A s \in Sessions :
            RunCommit(s) => row.next .. row'.next - 1 \subseteq history'.ever]_vars
  BY <1>1
<1> QED
  BY <1>2, ScheduleInvariant, PTL DEF RunSkipsNothing, Spec

(* What a run bills it bills under the agreement as it stands at the       *)
(* commit, whatever persons did since it began.                            *)
THEOREM RunsBillUnderAgreement == Spec => BillsUnderAgreement
<1>1. ASSUME IInv, NEW s \in Sessions, RunCommit(s), session[s].made # {}
      PROVE  /\ row.live /\ row.status = "active"
             /\ \A n \in session[s].made :
                 /\ WithinEnd(row, n)
                 /\ session[s].force \/ Start(row, n) <= today
  <2>1. RunKnows(session[s])
    BY <1>1, CommitFacts
  <2> QED
    BY <2>1 DEF RunKnows, Alike, WithinEnd, Start
<1>2. IInv /\ [Next]_vars =>
        [\A s \in Sessions :
            RunCommit(s) /\ session[s].made # {} =>
                /\ row.live /\ row.status = "active"
                /\ \A n \in session[s].made :
                    /\ WithinEnd(row, n)
                    /\ session[s].force \/ Start(row, n) <= today]_vars
  BY <1>1
<1> QED
  BY <1>2, ScheduleInvariant, PTL DEF BillsUnderAgreement, Spec

(* While no request was overtaken, no run bills a period that one billed   *)
(* before under the same calendar.                                         *)
THEOREM NothingBilledAgain == Spec => NeverBilledAgain
<1>1. ASSUME IInv, NEW s \in Sessions, RunCommit(s), ~history.overtaken
      PROVE  session[s].made \cap history.emitted = {}
  <2>1. \A n \in session[s].made : row.next <= n
    BY <1>1, CommitFacts DEF RunKnows, Passed
  <2>2. \A n \in history.emitted : n < row.next /\ n \in Nat
    BY <1>1 DEF IInv, EmittedIsPast, TypeOK, Histories, Periods
  <2>3. row.next \in Nat
    BY <1>1, CommitFacts
  <2> QED
    BY <2>1, <2>2, <2>3
<1>2. IInv /\ [Next]_vars =>
        [\A s \in Sessions :
            RunCommit(s) /\ ~history.overtaken =>
                session[s].made \cap history.emitted = {}]_vars
  BY <1>1
<1> QED
  BY <1>2, ScheduleInvariant, PTL DEF NeverBilledAgain, Spec

=============================================================================
