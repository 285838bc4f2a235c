------------------------ MODULE RecurringGeneration ------------------------
(***************************************************************************)
(* One recurring bill and the rows of its occurrences: the placeholders    *)
(* that the hourly task and the Generate Pending button write, the charges *)
(* that a sync or a file import brings, and the cursor next_occurrence     *)
(* that all of them move.                                                  *)
(*                                                                         *)
(* Nobody locks the bill when it loads it.  A session loads it once, works *)
(* on what it loaded, sees of the rows what is committed and what it has   *)
(* written itself, and at its commit writes the cursor it has reached.     *)
(* The lock that a flushed write takes on the bill until the commit is     *)
(* left out: it only forbids some of the interleavings.  A session that    *)
(* fails leaves nothing and is not modelled.                               *)
(*                                                                         *)
(* Left out: amounts and descriptions (every charge fits the bill in       *)
(* both), weekends, several bills, edits of the schedule, a bill that is   *)
(* switched off by hand, deleting or unlinking a placeholder.              *)
(***************************************************************************)
EXTENDS Integers, FiniteSetsExt

CONSTANTS
    Last,       \* the last occurrence before end_date
    Period,     \* days from one occurrence to the next
    Before,     \* days a charge may be early under the recurring rule
    After,      \* days it may be late
    Reach,      \* days a charge may be from a placeholder, either way
    LastDay,    \* bound: the days that are looked at
    Runs,       \* the sessions of generate_pending
    Task,       \* the one of them that is the hourly task
    People      \* the sessions in which a person accepts a suggestion

ASSUME RecurringAssumption ==
    /\ {Last, Period, Before, After, Reach, LastDay} \subseteq Nat
    /\ Last >= 1 /\ LastDay >= 1
    /\ Before + After < Period
    /\ Task \in Runs
    /\ Runs \cap People = {}
    /\ "import" \notin Runs \cup People

Occurrences == 1 .. Last
Days == 1 .. LastDay

(* The nominal date of an occurrence.                                      *)
Day(o) == o * Period

(* The charge of an occurrence bears its number; a row that belongs to no  *)
(* occurrence of the bill fulfils 0.                                       *)
Charges == Occurrences
Import == "import"
Sessions == Runs \cup People \cup {Import}

VARIABLES
    today,     \* the workspace's day
    rule,      \* what the recurring rule does with a match
    cursor,    \* next_occurrence; Last + 1 is any date after end_date
    active,    \* is_active
    ph,        \* the number of placeholders of each occurrence
    posted,    \* the day the bank posted a charge; 0 is not yet
    rows,      \* the charges that are transactions here
    fulfils,   \* the occurrence whose row the charge is; 0 is not the bill's
    asked,     \* the charges with a pending suggestion
    open,      \* the sessions at work
    loc,       \* what a session has loaded and not yet committed
    late,      \* history: the sessions another commit has overtaken
    overtaken, \* history: one of them has committed
    freed,     \* history: the occurrences a person has settled by hand
    astray     \* history: the charges that took another one's placeholder

book == <<cursor, active, ph, rows, fulfils, asked>>
history == <<late, overtaken, freed, astray>>
vars == <<today, rule, posted, book, open, loc, history>>

(* What a session holds: the cursor it has loaded (0 is not loaded), the   *)
(* cursor it has reached, its cutoff, and its writes: the occurrences it   *)
(* writes a placeholder for, the charges it binds to an occurrence (0 is   *)
(* to none) and the occurrences whose placeholder it makes the charge.     *)
Untouched == -1
Empty == [read |-> 0, at |-> 0, cutoff |-> 0, placed |-> {}, merged |-> {},
          bound |-> [c \in Charges |-> Untouched]]

Init ==
    /\ today = 1
    /\ rule \in {"link", "suggest"}
    /\ cursor = 1 /\ active = TRUE
    /\ ph = [o \in Occurrences |-> 0]
    /\ posted = [c \in Charges |-> 0]
    /\ rows = {} /\ asked = {}
    /\ fulfils = [c \in Charges |-> 0]
    /\ open = {} /\ loc = [s \in Sessions |-> Empty]
    /\ late = {} /\ overtaken = FALSE /\ freed = {} /\ astray = {}

-----------------------------------------------------------------------------
(* The world: days pass, and the bank posts a charge within the window.    *)

Tick ==
    /\ today < LastDay
    /\ today' = today + 1
    /\ UNCHANGED <<rule, posted, book, open, loc, history>>

Post(c) ==
    /\ posted[c] = 0
    /\ today \in Day(c) - Before .. Day(c) + After
    /\ posted' = [posted EXCEPT ![c] = today]
    /\ UNCHANGED <<today, rule, book, open, loc, history>>

-----------------------------------------------------------------------------
(* The rules that match charges and occurrences.                           *)

Larger(a, b) == IF a < b THEN b ELSE a
Smaller(a, b) == IF a < b THEN a ELSE b

Distance(o, d) == IF Day(o) > d THEN Day(o) - d ELSE d - Day(o)

(* Does the recurring rule link a charge of day d to the occurrence o?     *)
InWindow(o, d) == d \in Day(o) - Before .. Day(o) + After

(* Mutant of AdvancePast: only the day of the charge counts.               *)
AdvancePastDayOnly(at, d) ==
    IF d \div Period < at THEN at ELSE Smaller(d \div Period + 1, Last + 1)

(* Mutant of AdvancePast: the end of the bill does not count.              *)
AdvancePastEnd(at, d) == Larger(at, d \div Period) + 1

(* The first occurrence after both the day of the charge and the one the   *)
(* bill stood at: an early charge moves the bill too.                      *)
AdvancePast(at, d) == Smaller(Larger(at, d \div Period) + 1, Last + 1)

(* A commit of s: those at work are overtaken by it.                       *)
Leave(s) ==
    /\ open' = open \ {s}
    /\ loc' = [loc EXCEPT ![s] = Empty]
    /\ late' = (late \cup open) \ {s}
    /\ overtaken' = (overtaken \/ s \in late)

-----------------------------------------------------------------------------
(* generate_pending.                                                       *)

BeginRun(s) ==
    /\ s \notin open
    /\ active /\ Day(cursor) <= today
    /\ open' = open \cup {s}
    /\ loc' = [loc EXCEPT ![s] = [Empty EXCEPT !.read = cursor, !.at = cursor,
                                               !.cutoff = today]]
    /\ UNCHANGED <<today, rule, posted, book, history>>

(* Mutant of Due: an occurrence is due as soon as its charge may come.     *)
DueEarly(s) == loc[s].at <= Last /\ Day(loc[s].at) - Before <= loc[s].cutoff

Due(s) == loc[s].at <= Last /\ Day(loc[s].at) <= loc[s].cutoff

(* The real charges that could be the row of the occurrence s is at.       *)
Unlinked(s) ==
    {c \in rows : /\ fulfils[c] = 0
                  /\ loc[s].bound[c] = Untouched
                  /\ InWindow(loc[s].at, posted[c])}

(* find_real_tx_for_occurrence: the nearest one, the earlier of two.       *)
Nearest(s) ==
    {c \in Unlinked(s) : \A e \in Unlinked(s) :
        \/ Distance(loc[s].at, posted[c]) < Distance(loc[s].at, posted[e])
        \/ /\ Distance(loc[s].at, posted[c]) = Distance(loc[s].at, posted[e])
           /\ posted[c] <= posted[e]}

(* Mutant of RealRow: the placeholder is written without looking.          *)
RealRowUnseen(s) == {}

RealRow(s) == IF rule = "link" THEN Nearest(s) ELSE {}

(* Mutant of Materialize: with an unlinked charge in reach nothing is      *)
(* written and the bill advances all the same.                             *)
MaterializeNothing(s) ==
    /\ s \in open \cap Runs
    /\ Due(s)
    /\ loc' = [loc EXCEPT
         ![s].placed = IF RealRow(s) = {} THEN @ \cup {loc[s].at} ELSE @,
         ![s].at = @ + 1]
    /\ UNCHANGED <<today, rule, posted, book, open, history>>

(* One round of the loop: the row of the occurrence, a charge that is      *)
(* there or a placeholder, and the next occurrence.                        *)
Materialize(s) ==
    /\ s \in open \cap Runs
    /\ Due(s)
    /\ \/ \E c \in RealRow(s) :
            loc' = [loc EXCEPT ![s].bound[c] = loc[s].at, ![s].at = @ + 1]
       \/ /\ RealRow(s) = {}
          /\ loc' = [loc EXCEPT ![s].placed = @ \cup {loc[s].at}, ![s].at = @ + 1]
    /\ UNCHANGED <<today, rule, posted, book, open, history>>

(* What the charges fulfil once s has committed.                           *)
Fulfilled(s) ==
    [c \in Charges |-> IF loc[s].bound[c] = Untouched THEN fulfils[c] ELSE loc[s].bound[c]]

(* Mutant of CommitRun: the bill is closed one occurrence early.           *)
CommitRunEndsEarly(s) ==
    /\ s \in open \cap Runs
    /\ ~Due(s)
    /\ ph' = [o \in Occurrences |-> IF o \in loc[s].placed THEN ph[o] + 1 ELSE ph[o]]
    /\ fulfils' = Fulfilled(s)
    /\ cursor' = loc[s].at
    /\ active' = (active /\ loc[s].at < Last)
    /\ Leave(s)
    /\ UNCHANGED <<today, rule, posted, rows, asked, freed, astray>>

CommitRun(s) ==
    /\ s \in open \cap Runs
    /\ ~Due(s)
    /\ ph' = [o \in Occurrences |-> IF o \in loc[s].placed THEN ph[o] + 1 ELSE ph[o]]
    /\ fulfils' = Fulfilled(s)
    /\ cursor' = loc[s].at
    /\ active' = (active /\ loc[s].at <= Last)
    /\ Leave(s)
    /\ UNCHANGED <<today, rule, posted, rows, asked, freed, astray>>

-----------------------------------------------------------------------------
(* A sync or a file import.                                                *)

BeginImport ==
    /\ Import \notin open
    /\ open' = open \cup {Import}
    /\ UNCHANGED <<today, rule, posted, book, loc, history>>

(* The placeholders that are still one.                                    *)
Placeholders == {o \in Occurrences : ph[o] > 0 /\ o \notin loc[Import].merged}

(* find_placeholder_for_incoming: those in reach, whatever the period, and *)
(* if there is none those the recurring rule links; then the nearest, the  *)
(* earlier of two.                                                         *)
Standing(d) ==
    LET near == {o \in Placeholders : Distance(o, d) <= Reach}
    IN  IF near # {} THEN near ELSE {o \in Placeholders : rule = "link" /\ InWindow(o, d)}

Placeholder(d) ==
    {o \in Standing(d) : \A e \in Standing(d) :
        Distance(o, d) < Distance(e, d) \/ (Distance(o, d) = Distance(e, d) /\ o <= e)}

(* find_bill_for_incoming: an active bill, at the cursor this session has  *)
(* loaded or loads now.                                                    *)
ImportAt == IF loc[Import].read = 0 THEN cursor ELSE loc[Import].at
Expected(d) == active /\ ImportAt <= Last /\ InWindow(ImportAt, d)

(* The row of the placeholder becomes the charge.                          *)
Merge(c) ==
    \E o \in Placeholder(posted[c]) :
        loc' = [loc EXCEPT ![Import].bound[c] = o, ![Import].merged = @ \cup {o}]

Link(c) ==
    /\ Placeholder(posted[c]) = {}
    /\ rule = "link" /\ Expected(posted[c])
    /\ loc' = [loc EXCEPT ![Import].bound[c] = ImportAt,
                          ![Import].read = IF @ = 0 THEN cursor ELSE @,
                          ![Import].at = AdvancePast(ImportAt, posted[c])]

(* The bill is loaded even so, if the query for active bills returns it.   *)
WriteUnlinked(c) ==
    /\ Placeholder(posted[c]) = {}
    /\ ~(rule = "link" /\ Expected(posted[c]))
    /\ loc' = [loc EXCEPT ![Import].bound[c] = 0,
                          ![Import].read = IF @ = 0 /\ active THEN cursor ELSE @,
                          ![Import].at = IF active THEN ImportAt ELSE @]

Bring(c) ==
    /\ Import \in open
    /\ posted[c] # 0 /\ c \notin rows /\ loc[Import].bound[c] = Untouched
    /\ Merge(c) \/ Link(c) \/ WriteUnlinked(c)
    /\ UNCHANGED <<today, rule, posted, book, open, history>>

(* _suggest_recurring: what only the demoted rule would link is asked.     *)
Doubtful ==
    {c \in Charges : rule = "suggest" /\ loc[Import].bound[c] = 0 /\ Expected(posted[c])}

(* The charges that become the row of another occurrence's placeholder.    *)
Stray == {c \in Charges : loc[Import].bound[c] \in (loc[Import].merged \ {c})}

(* The commit.  The cursor is written if this session has moved it.        *)
CommitImport ==
    /\ Import \in open
    /\ ph' = [o \in Occurrences |-> IF o \in loc[Import].merged THEN ph[o] - 1 ELSE ph[o]]
    /\ rows' = rows \cup {c \in Charges : loc[Import].bound[c] # Untouched}
    /\ fulfils' = Fulfilled(Import)
    /\ asked' = asked \cup Doubtful
    /\ cursor' = IF loc[Import].at # loc[Import].read THEN loc[Import].at ELSE cursor
    /\ active' = (active /\ loc[Import].at <= Last)
    /\ Leave(Import)
    /\ astray' = astray \cup Stray
    /\ UNCHANGED <<today, rule, posted, freed>>

-----------------------------------------------------------------------------
(* A person.                                                               *)

(* The row of a suggestion is locked while it is answered.                 *)
Answering(c) == \E p \in People : loc[p].bound[c] # Untouched

(* accept_suggestion: the charge is bound to the bill as it is loaded, and *)
(* moves it on from there.                                                 *)
BeginAccept(s, c) ==
    /\ s \notin open
    /\ c \in asked /\ ~Answering(c)
    /\ open' = open \cup {s}
    /\ loc' = [loc EXCEPT ![s] = [Empty EXCEPT !.read = cursor,
                                               !.at = AdvancePast(cursor, posted[c]),
                                               !.bound[c] = cursor]]
    /\ UNCHANGED <<today, rule, posted, book, history>>

(* Its commit writes the cursor over what stands there by now.             *)
CommitAccept(s) ==
    /\ s \in open \cap People
    /\ asked' = {c \in asked : loc[s].bound[c] = Untouched}
    /\ fulfils' = Fulfilled(s)
    /\ cursor' = loc[s].at
    /\ active' = (active /\ loc[s].at <= Last)
    /\ Leave(s)
    /\ freed' = freed \cup (loc[s].read .. loc[s].at - 1)
    /\ UNCHANGED <<today, rule, posted, ph, rows, astray>>

Decline(c) ==
    /\ c \in asked /\ ~Answering(c)
    /\ asked' = asked \ {c}
    /\ UNCHANGED <<today, rule, posted, cursor, active, ph, rows, fulfils, open, loc, history>>

Unlink(c) ==
    /\ c \in rows /\ fulfils[c] # 0
    /\ fulfils' = [fulfils EXCEPT ![c] = 0]
    /\ freed' = freed \cup {fulfils[c]}
    /\ late' = late \cup open
    /\ UNCHANGED <<today, rule, posted, cursor, active, ph, rows, asked, open, loc, overtaken, astray>>

Next ==
    \/ Tick
    \/ \E c \in Charges : Post(c) \/ Bring(c) \/ Decline(c) \/ Unlink(c)
    \/ \E s \in Runs : BeginRun(s) \/ Materialize(s) \/ CommitRun(s)
    \/ \E s \in People : CommitAccept(s) \/ \E c \in Charges : BeginAccept(s, c)
    \/ BeginImport \/ CommitImport

(* The task runs every hour and its run comes to its end; nobody has to    *)
(* press the button, sync or import.                                       *)
Fairness ==
    /\ WF_vars(BeginRun(Task))
    /\ WF_vars(Materialize(Task))
    /\ WF_vars(CommitRun(Task))

Spec == Init /\ [][Next]_vars /\ Fairness

-----------------------------------------------------------------------------
Local ==
    [read : 0 .. Last + 1, at : 0 .. Last + 1, cutoff : {0} \cup Days,
     placed : SUBSET Occurrences, merged : SUBSET Occurrences,
     bound : [Charges -> {Untouched} \cup 0 .. Last + 1]]

(* The variables have their types.                                         *)
TypeOK ==
    /\ today \in Days
    /\ rule \in {"link", "suggest"}
    /\ cursor \in 1 .. Last + 1
    /\ active \in BOOLEAN
    /\ ph \in [Occurrences -> Nat]
    /\ posted \in [Charges -> {0} \cup Days]
    /\ rows \subseteq Charges
    /\ fulfils \in [Charges -> 0 .. Last + 1]
    /\ asked \subseteq rows
    /\ open \subseteq Sessions
    /\ loc \in [Sessions -> Local]
    /\ late \subseteq open
    /\ overtaken \in BOOLEAN
    /\ freed \subseteq 1 .. Last + 1
    /\ astray \subseteq rows

(* The rows of an occurrence in the bill's own book.                       *)
RowsOf(o) == ph[o] + Cardinality({c \in rows : fulfils[c] = o})

HasRow(o) == ph[o] > 0 \/ \E c \in rows : fulfils[c] = o

(* An occurrence that the cursor leaves behind has a row, a placeholder or *)
(* a charge of the bill, unless a person took its charge off the bill or   *)
(* accepted a suggestion for it.  Whatever overlaps, the cursor that a     *)
(* session writes back drops no occurrence.                                *)
NothingIsSkipped ==
    [][\A o \in Occurrences : cursor <= o /\ o < cursor' =>
          HasRow(o)' \/ o \in freed']_vars

(* While every session commits before another one does, the bill counts    *)
(* each occurrence once: an early charge, a late one, a catch-up of        *)
(* several occurrences and an accepted suggestion all take one row.        *)
OneRowEach ==
    ~overtaken => \A o \in Occurrences : RowsOf(o) <= 1

(* What the placeholder rule and the code that runs it say: a placeholder  *)
(* was written for one occurrence and is not confused with a neighbour's,  *)
(* however often the bill repeats.  Then no purchase is counted twice: its *)
(* placeholder is gone once its charge is a row.                           *)
NeverDoubled ==
    ~overtaken /\ rule = "link" =>
        \A o \in Occurrences : ph[o] = 0 \/ o \notin rows

(* What the code keeps, for every bill: while every session commits before *)
(* another one does, and with the rule as shipped, a charge stands beside  *)
(* its own placeholder only if it has taken a neighbour's before.          *)
OnlyStraysDouble ==
    ~overtaken /\ rule = "link" =>
        \A o \in Occurrences : ph[o] = 0 \/ o \notin rows \/ o \in astray

(* An accept of a charge outside the window of where it found the bill.    *)
AcceptsOutside(s) ==
    /\ CommitAccept(s)
    /\ \E c \in Charges : loc[s].bound[c] # Untouched /\ ~InWindow(loc[s].read, posted[c])

(* The cursor passes no occurrence that is neither due nor paid.  Where    *)
(* suggestions are asked, an accepted one that lies outside the window of  *)
(* where it found the bill also passes what is between, and a session with *)
(* an older or a newer cursor may pass that once more.                     *)
PassesWhatHappened ==
    [][\A o \in Occurrences : cursor <= o /\ o < cursor' =>
          \/ Day(o) <= today
          \/ posted[o] # 0
          \/ rule = "suggest" /\ (o \in freed \/ \E s \in People : AcceptsOutside(s))]_vars

(* A due occurrence becomes a row, or the bill has passed it: no overlap   *)
(* leaves the hourly task with nothing to do.  The one bill that stops on  *)
(* the way is one an overtaken session has moved back after its end.       *)
DueIsWritten ==
    \A o \in Occurrences :
        Day(o) <= today ~> HasRow(o) \/ cursor > o \/ (overtaken /\ ~active)
=============================================================================
