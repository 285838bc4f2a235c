--------------------------- MODULE InvoiceSchedule ---------------------------
(***************************************************************************)
(* One recurring agreement and the invoices it emits.                      *)
(*                                                                         *)
(* The hourly job and the "issue next now" button run generate_due under   *)
(* the agreement's row lock and read it again there; a person's requests   *)
(* load the agreement first, decide, and at their commit write the columns *)
(* they changed, waiting for the lock if a run has it.                     *)
(*                                                                         *)
(* A day is a period: period n starts on day start + n - 1.  The other     *)
(* frequencies, the on_date end (which, like after_count, is a last        *)
(* period), the terms and the invoices' contents are left out.             *)
(***************************************************************************)
EXTENDS Naturals, FiniteSets

CONSTANTS
    Job,         \* the Celery worker, which runs one task at a time
    Users,       \* sessions of persons' requests
    None,        \* SQL NULL, and nobody
    MaxPeriods,  \* MAX_PERIODS_PER_RUN
    MaxFailures, \* MAX_CONSECUTIVE_FAILURES
    LastDay,     \* bound: the last day there is
    LastPeriod,  \* bound: the last period there is
    MaxOps,      \* bound: the requests of persons
    MaxCrashes   \* bound: runs that die

ASSUME ScheduleAssumption ==
    /\ {MaxPeriods, MaxFailures, LastPeriod} \subseteq Nat \ {0}
    /\ {LastDay, MaxOps, MaxCrashes} \subseteq Nat
    /\ 2 <= LastDay /\ LastDay < LastPeriod
    /\ Job \notin Users
    /\ None \notin Nat \cup Users \cup {Job} \cup {"completed", "other"}

Sessions == Users \cup {Job}
Days == 0 .. LastDay
Periods == 1 .. LastPeriod
Cursors == 1 .. LastPeriod + 1

VARIABLES
    row,        \* the agreement, as committed
    answered,   \* the periods an invoice is linked to, as committed
    lock,       \* the run that holds the row
    session,    \* what each session is at
    today,
    ops,        \* requests so far
    crashes,    \* runs that died so far
    history     \* see Histories

vars == <<row, answered, lock, session, today, ops, crashes, history>>

(* ended is the end_reason; live is FALSE once the row is deleted.  *)
Rows == [live: BOOLEAN, status: {"active", "paused", "ended"},
         pause: {"manual", "failures", None}, ended: {"completed", "other", None},
         next: Cursors, failures: Nat, start: Days,
         count: Periods \cup {None}]

Ops == {"pause", "resume", "end", "calendar", "count", "link", "unlink", "delete"}

(* read is the row as the session last loaded it and links the invoices it *)
(* saw; cur is the row as it has it in memory, made the periods whose      *)
(* invoice a run has inserted and not committed; arg is the argument of a  *)
(* request.                                                                *)
Session == [pc: {"idle", "wait", "emit", "commit", "record", "decided"},
            force: BOOLEAN, op: Ops, arg: Nat, read: Rows,
            links: SUBSET Periods, cur: Rows, made: SUBSET Periods]

(* Of the calendar in force: the periods a run emitted and those that any  *)
(* invoice ever answered.  overtaken says that a person's request was      *)
(* committed though the agreement had changed since it was read.           *)
Histories == [emitted: SUBSET Periods, ever: SUBSET Periods, overtaken: BOOLEAN]

-----------------------------------------------------------------------------
(* The calendar                                                            *)

Start(r, n) == r.start + n - 1

(* Mutant of FirstOnOrAfter: periods counted from zero.  *)
FirstFromZero(start, day) == IF day <= start THEN 0 ELSE day - start

(* first_sequence_on_or_after *)
FirstOnOrAfter(start, day) == IF day <= start THEN 1 ELSE day - start + 1

(* period_within_end *)
WithinEnd(r, n) == r.count # None => n <= r.count

(* _complete_if_over *)
Completed(r) ==
    IF WithinEnd(r, r.next) THEN r
    ELSE [r EXCEPT !.status = "ended", !.ended = "completed", !.pause = None]

NewRow(start, count, day) ==
    [live |-> TRUE, status |-> "active", pause |-> None, ended |-> None,
     next |-> FirstOnOrAfter(start, day), failures |-> 0, start |-> start,
     count |-> count]

Idle == [pc |-> "idle", force |-> FALSE, op |-> "pause", arg |-> 0,
         read |-> NewRow(0, None, 0), links |-> {}, cur |-> NewRow(0, None, 0),
         made |-> {}]

(* create_schedule, on day 1 *)
Init ==
    /\ today = 1
    /\ \E start \in 0 .. 2, count \in {None, 3} : row = NewRow(start, count, 1)
    /\ history = [emitted |-> {}, ever |-> {}, overtaken |-> FALSE]
    /\ answered = {}
    /\ lock = None
    /\ session = [s \in Sessions |-> Idle]
    /\ ops = 0
    /\ crashes = 0

-----------------------------------------------------------------------------
(* generate_due                                                            *)

Put(s, st) == session' = [session EXCEPT ![s] = st]

(* The job finds the agreement active; the button asks for one period now. *)
RunStart(s) ==
    /\ session[s].pc = "idle"
    /\ row.live /\ row.status = "active"
    /\ s = Job \/ ops < MaxOps
    /\ ops' = IF s = Job THEN ops ELSE ops + 1
    /\ Put(s, [Idle EXCEPT !.pc = "wait", !.force = (s # Job),
                           !.read = row, !.cur = row])
    /\ UNCHANGED <<row, answered, lock, today, crashes, history>>

(* Mutant of RunLock: the instance is not refreshed under the lock.  *)
RunLockStale(s) ==
    /\ session[s].pc = "wait"
    /\ lock = None
    /\ IF row.live /\ row.status = "active"
       THEN lock' = s /\ Put(s, [session[s] EXCEPT !.pc = "emit"])
       ELSE lock' = None /\ Put(s, Idle)
    /\ UNCHANGED <<row, answered, today, ops, crashes, history>>

(* Mutant of RunLock: the status is not looked at again.  *)
RunLockTrusting(s) ==
    /\ session[s].pc = "wait"
    /\ lock = None
    /\ LET fresh == [row EXCEPT !.failures = session[s].read.failures]
       IN  IF row.live
           THEN /\ lock' = s
                /\ Put(s, [session[s] EXCEPT !.pc = "emit", !.read = fresh,
                                             !.cur = fresh])
           ELSE lock' = None /\ Put(s, Idle)
    /\ UNCHANGED <<row, answered, today, ops, crashes, history>>

(* SELECT ... FOR UPDATE, and the refresh of all but the failure count.  *)
RunLock(s) ==
    /\ session[s].pc = "wait"
    /\ lock = None
    /\ LET fresh == [row EXCEPT !.failures = session[s].read.failures]
       IN  IF row.live /\ row.status = "active"
           THEN /\ lock' = s
                /\ Put(s, [session[s] EXCEPT !.pc = "emit", !.read = fresh,
                                             !.cur = fresh])
           ELSE lock' = None /\ Put(s, Idle)
    /\ UNCHANGED <<row, answered, today, ops, crashes, history>>

(* There is nothing left for this run to emit.  *)
Done(st) ==
    \/ ~WithinEnd(st.cur, st.cur.next)
    \/ ~st.force /\ Start(st.cur, st.cur.next) > today
    \/ Cardinality(st.made) = MaxPeriods
    \/ st.cur.next > LastPeriod

Closed(st) ==
    [st EXCEPT !.pc = "commit", !.cur = [Completed(@) EXCEPT !.failures = 0]]

(* One turn of the loop: the period at the cursor is emitted unless an     *)
(* invoice answers for it already.  A link waits for the lock, because its *)
(* foreign key does, so nothing comes between the look and the insert.     *)
RunPeriod(s) ==
    /\ session[s].pc = "emit"
    /\ LET st   == session[s]
           n    == st.cur.next
           past == [st EXCEPT !.cur.next = n + 1,
                      !.made = IF n \in answered THEN @ ELSE @ \cup {n}]
       IN  Put(s, CASE Done(st)              -> Closed(st)
                    [] ~Done(st) /\ st.force  -> Closed(past)
                    [] ~Done(st) /\ ~st.force -> past)
    /\ UNCHANGED <<row, answered, lock, today, ops, crashes, history>>

(* Mutant of Failed: the failure is not counted.  *)
FailedUncounted(r) == r

(* One more failure in a row; the last one pauses the agreement.  *)
Failed(r) ==
    LET n == r.failures + 1
    IN  IF n >= MaxFailures
        THEN [r EXCEPT !.failures = n, !.status = "paused", !.pause = "failures"]
        ELSE [r EXCEPT !.failures = n]

(* _emit raises.  The button commits the count at once; the job rolls back *)
(* and then stores the count, the status and the pause as it had them.     *)
RunFails(s) ==
    /\ session[s].pc = "emit"
    /\ LET st == session[s]
       IN  /\ ~Done(st)
           /\ st.cur.next \notin answered
           /\ Put(s, [st EXCEPT !.pc = IF s = Job THEN "record" ELSE "commit",
                                !.made = {}, !.cur = Failed(@)])
    /\ lock' = IF s = Job THEN None ELSE lock
    /\ UNCHANGED <<row, answered, today, ops, crashes, history>>

(* What an UPDATE of the changed columns makes of a row.  *)
Merged(r, read, cur) ==
    [f \in DOMAIN r |-> IF cur[f] = read[f] THEN r[f] ELSE cur[f]]

(* Mutant of Consistent: the table has no such constraint.  *)
ConsistentAlways(r) == TRUE

(* ck_invoice_schedules_ended_fields: ended says why, and nothing else.    *)
Consistent(r) == r.status = "ended" <=> r.ended # None

RunCommit(s) ==
    /\ session[s].pc = "commit"
    /\ LET st == session[s]
       IN  /\ row' = Merged(row, st.read, st.cur)
           /\ answered' = answered \cup st.made
           /\ history' = [history EXCEPT !.emitted = @ \cup st.made,
                                         !.ever = @ \cup st.made]
    /\ lock' = None
    /\ Put(s, Idle)
    /\ UNCHANGED <<today, ops, crashes>>

(* _generate_one after its rollback: the row is read again, and a status   *)
(* that it may not have any more breaks the constraint and the task.       *)
RunRecord(s) ==
    /\ session[s].pc = "record"
    /\ lock = None
    /\ LET cur == session[s].cur
           new == [row EXCEPT !.failures = cur.failures, !.status = cur.status,
                              !.pause = cur.pause]
       IN  row' = IF row.live /\ Consistent(new) THEN new ELSE row
    /\ Put(s, Idle)
    /\ UNCHANGED <<answered, lock, today, ops, crashes, history>>

(* The run dies, or ends in an error that is not counted, as when its      *)
(* invoice loses a number: its transaction is rolled back.                 *)
RunDies(s) ==
    /\ session[s].pc \in {"wait", "emit", "commit", "record"}
    /\ crashes < MaxCrashes
    /\ crashes' = crashes + 1
    /\ lock' = IF lock = s THEN None ELSE lock
    /\ Put(s, Idle)
    /\ UNCHANGED <<row, answered, today, ops, history>>

-----------------------------------------------------------------------------
(* The requests of persons                                                 *)

Later(m, n) == IF m > n THEN m ELSE n

(* What each operation refuses on what it read.  *)
Allowed(op, r, links, arg) ==
    CASE op \in {"pause", "resume", "end"} -> r.status # "ended" /\ arg = 0
      [] op = "calendar" -> /\ r.status # "ended" /\ links = {}
                            /\ arg \in 0 .. 2 /\ arg # r.start
      [] op = "count"    -> r.status # "ended" /\ arg \in 2 .. 3
      [] op = "link"     -> arg \in Periods \ links /\ WithinEnd(r, arg)
      [] op = "unlink"   -> arg \in links
      [] op = "delete"   -> links = {} /\ arg = 0

(* What it makes of the row that it read.  *)
Wanted(op, r, arg) ==
    CASE op = "pause"    -> [r EXCEPT !.status = "paused", !.pause = "manual"]
      [] op = "resume"   ->
            Completed([r EXCEPT !.status = "active", !.pause = None, !.failures = 0,
                         !.next = IF r.pause = "failures" THEN @
                                  ELSE Later(@, FirstOnOrAfter(r.start, today))])
      [] op = "end"      -> [r EXCEPT !.status = "ended", !.pause = None,
                                      !.ended = "other"]
      [] op = "calendar" -> [r EXCEPT !.start = arg,
                                      !.next = FirstOnOrAfter(arg, today)]
      [] op = "count"    -> IF r.status = "active"
                            THEN Completed([r EXCEPT !.count = arg])
                            ELSE [r EXCEPT !.count = arg]
      [] op = "link"     -> [r EXCEPT !.next = IF arg >= @ THEN arg + 1 ELSE @]
      [] op = "unlink"   -> r
      [] op = "delete"   -> [r EXCEPT !.live = FALSE]

Request(s) ==
    /\ session[s].pc = "idle"
    /\ s # Job
    /\ ops < MaxOps
    /\ ops' = ops + 1
    /\ row.live
    /\ \E op \in Ops, arg \in 0 .. LastPeriod :
        /\ Allowed(op, row, answered, arg)
        /\ Put(s, [Idle EXCEPT !.pc = "decided", !.op = op, !.arg = arg,
                     !.read = row, !.links = answered,
                     !.cur = Wanted(op, row, arg)])
    /\ UNCHANGED <<row, answered, lock, today, crashes, history>>

(* The invoices that are linked after a request.  *)
Links(st) ==
    CASE st.op = "link"   -> answered \cup {st.arg}
      [] st.op = "unlink" -> answered \ {st.arg}
      [] OTHER            -> answered

(* The constraints: one invoice per period, an invoice of a deleted        *)
(* agreement cannot keep its period, and Consistent.                       *)
Stored(st, new) ==
    /\ row.live
    /\ st.op = "link" => st.arg \notin answered
    /\ st.op = "delete" => answered = {}
    /\ Consistent(new)

(* The request commits, or a constraint or a row that is gone fails it.    *)
(* Only an unlink writes nothing that waits for the lock.                  *)
Commit(s) ==
    /\ session[s].pc = "decided"
    /\ session[s].op = "unlink" \/ lock = None
    /\ LET st  == session[s]
           new == Merged(row, st.read, st.cur)
       IN  IF Stored(st, new)
           THEN /\ row' = new
                /\ answered' = Links(st)
                /\ history' =
                     [emitted |-> IF st.op = "calendar" THEN {} ELSE history.emitted,
                      ever    |-> IF st.op = "calendar" THEN answered
                                  ELSE history.ever \cup answered',
                      overtaken |-> \/ history.overtaken
                                    \/ row # st.read
                                    \/ answered # st.links]
           ELSE UNCHANGED <<row, answered, history>>
    /\ Put(s, Idle)
    /\ UNCHANGED <<lock, today, ops, crashes>>

Tick ==
    /\ today < LastDay
    /\ today' = today + 1
    /\ UNCHANGED <<row, answered, lock, session, ops, crashes, history>>

-----------------------------------------------------------------------------
Run(s) == RunPeriod(s) \/ RunFails(s) \/ RunCommit(s) \/ RunRecord(s)

Next ==
    \/ \E s \in Sessions :
        RunStart(s) \/ RunLock(s) \/ Run(s) \/ RunDies(s) \/ Request(s) \/ Commit(s)
    \/ Tick

Spec == Init /\ [][Next]_vars

(* The beat starts the job every hour; a run that waits gets the lock in   *)
(* its turn, and once it has it, goes on to its end.                       *)
Fairness ==
    /\ SF_vars(RunStart(Job))
    /\ \A s \in Sessions : SF_vars(RunLock(s)) /\ SF_vars(Run(s))

FairSpec == Spec /\ Fairness

-----------------------------------------------------------------------------
(* The type of every variable.  *)
TypeOK ==
    /\ row \in Rows
    /\ answered \subseteq Periods
    /\ lock \in Sessions \cup {None}
    /\ session \in [Sessions -> Session]
    /\ today \in Days
    /\ ops \in 0 .. MaxOps
    /\ crashes \in 0 .. MaxCrashes
    /\ history \in Histories

(* While no person's request was overtaken, a period that a run has billed *)
(* is not billed again, though its invoice may have been unlinked, the     *)
(* agreement paused and resumed, and the job and the button may race.      *)
NeverBilledAgain ==
    [][\A s \in Sessions :
        RunCommit(s) /\ ~history.overtaken =>
            session[s].made \cap history.emitted = {}]_vars

(* A run moves the cursor only past periods that an invoice has answered:  *)
(* whatever changed while it waited for the lock, it drops no period.      *)
RunSkipsNothing ==
    [][\A s \in Sessions :
        RunCommit(s) => row.next .. row'.next - 1 \subseteq history'.ever]_vars

(* What a run bills it bills under the agreement as it stands at the       *)
(* commit: active, the period within its end, and due unless the person    *)
(* asked for it now.                                                       *)
BillsUnderAgreement ==
    [][\A s \in Sessions :
        RunCommit(s) /\ session[s].made # {} =>
            /\ row.live /\ row.status = "active"
            /\ \A n \in session[s].made :
                /\ WithinEnd(row, n)
                /\ session[s].force \/ Start(row, n) <= today]_vars

(* An agreement that has ended stays so, whatever requests and failing     *)
(* runs had read it before.                                                *)
EndedIsTerminal == [][row.status = "ended" => row'.status = "ended"]_vars

(* The period at the cursor is due: nothing but the job is waited for.  *)
Due(n) ==
    /\ row.live /\ row.status = "active"
    /\ row.next = n /\ WithinEnd(row, n) /\ Start(row, n) <= today

(* No period stays due for ever: it is billed, or the failures in a row    *)
(* pause the agreement, however many runs die and persons come in between. *)
DueIsBilledOrStopped == \A n \in Periods : Due(n) ~> ~Due(n)

-----------------------------------------------------------------------------
(* resume_schedule: "Periods that fell during a manual pause are not       *)
(* emitted: a pause is 'stop billing'"; SCHEDULE_STATUSES: "A person       *)
(* paused it".                                                             *)

(* The job never makes a paused agreement active.  *)
PauseSticks ==
    [][row.status = "paused" /\ row'.status = "active" =>
        session'[Job] = session[Job]]_vars

=============================================================================
