-------------------------- MODULE RecurringOnceProofs --------------------------
(***************************************************************************)
(* Proofs that RecurringGeneration counts each occurrence once while no    *)
(* session commits what another has overtaken, and that its cursor passes  *)
(* only what has happened.  They rest on the inductive invariant of        *)
(* RecurringGenerationProofs.                                              *)
(***************************************************************************)
EXTENDS RecurringGenerationProofs, FiniteSetTheorems, WellFoundedInduction

-----------------------------------------------------------------------------
(* What the steps that work on loc do to it, field by field.               *)

LEMMA MaterializeEffect ==
    ASSUME IInv, NEW s \in Runs, Materialize(s)
    PROVE  /\ UNCHANGED <<today, rule, posted, book, open, history>>
           /\ s \in Sessions /\ s # Import /\ s \in open
           /\ loc[s] \in Local /\ loc[s].read \in 1 .. Last + 1 /\ loc[s].at \in Occurrences
           /\ \A t \in Sessions \ {s} : loc'[t] = loc[t]
           /\ loc'[s].read = loc[s].read /\ loc'[s].at = loc[s].at + 1
           /\ loc'[s].cutoff = loc[s].cutoff /\ loc'[s].merged = loc[s].merged
           /\ \/ /\ loc'[s].placed = loc[s].placed
                 /\ \E c \in RealRow(s) :
                       loc'[s].bound = [loc[s].bound EXCEPT ![c] = loc[s].at]
              \/ /\ RealRow(s) = {}
                 /\ loc'[s].placed = loc[s].placed \cup {loc[s].at}
                 /\ loc'[s].bound = loc[s].bound
<1> USE DEF IInv
<1>1. UNCHANGED <<today, rule, posted, book, open, history>>
  BY DEF Materialize
<1>2. s \in Sessions /\ s # Import /\ s \in open
  BY RecurringAssumption DEF Sessions, Import, Materialize
<1>3. loc[s] \in Local /\ loc[s].read # 0 /\ loc[s].at # 0
  BY <1>2 DEF TypeOK, LoadedTogether
<1>4. loc[s].at \in Occurrences /\ loc[s].read \in 1 .. Last + 1
  BY <1>3, RecurringAssumption DEF Materialize, Due, Local, Occurrences
<1>5. loc \in [Sessions -> Local]
  BY DEF TypeOK
<1>6. ASSUME NEW c \in RealRow(s),
             loc' = [loc EXCEPT ![s].bound[c] = loc[s].at, ![s].at = @ + 1]
      PROVE  /\ \A t \in Sessions \ {s} : loc'[t] = loc[t]
             /\ loc'[s].read = loc[s].read /\ loc'[s].at = loc[s].at + 1
             /\ loc'[s].cutoff = loc[s].cutoff /\ loc'[s].merged = loc[s].merged
             /\ loc'[s].placed = loc[s].placed
             /\ loc'[s].bound = [loc[s].bound EXCEPT ![c] = loc[s].at]
  BY <1>2, <1>3, <1>5, <1>6 DEF Local
<1>7. ASSUME loc' = [loc EXCEPT ![s].placed = @ \cup {loc[s].at}, ![s].at = @ + 1]
      PROVE  /\ \A t \in Sessions \ {s} : loc'[t] = loc[t]
             /\ loc'[s].read = loc[s].read /\ loc'[s].at = loc[s].at + 1
             /\ loc'[s].cutoff = loc[s].cutoff /\ loc'[s].merged = loc[s].merged
             /\ loc'[s].placed = loc[s].placed \cup {loc[s].at}
             /\ loc'[s].bound = loc[s].bound
  BY <1>2, <1>3, <1>5, <1>7 DEF Local
<1>8. \/ \E c \in RealRow(s) :
            loc' = [loc EXCEPT ![s].bound[c] = loc[s].at, ![s].at = @ + 1]
      \/ /\ RealRow(s) = {}
         /\ loc' = [loc EXCEPT ![s].placed = @ \cup {loc[s].at}, ![s].at = @ + 1]
  BY DEF Materialize
<1> HIDE DEF IInv
<1> QED
  BY <1>1, <1>2, <1>3, <1>4, <1>6, <1>7, <1>8

LEMMA BringEffect ==
    ASSUME IInv, NEW c \in Charges, Bring(c)
    PROVE  /\ UNCHANGED <<today, rule, posted, book, open, history>>
           /\ Import \in Sessions /\ Import \notin Runs /\ Import \in open
           /\ c \notin rows /\ posted[c] # 0 /\ loc[Import].bound[c] = Untouched
           /\ loc[Import] \in Local /\ loc'[Import].placed = loc[Import].placed
           /\ \A t \in Sessions \ {Import} : loc'[t] = loc[t]
           /\ \A e \in Charges : e # c => loc'[Import].bound[e] = loc[Import].bound[e]
           /\ \/ \E o \in Placeholder(posted[c]) :
                    /\ loc'[Import].bound[c] = o
                    /\ loc'[Import].merged = loc[Import].merged \cup {o}
                    /\ loc'[Import].read = loc[Import].read
                    /\ loc'[Import].at = loc[Import].at
              \/ /\ Placeholder(posted[c]) = {}
                 /\ loc'[Import].merged = loc[Import].merged
                 /\ \/ /\ rule = "link"
                       /\ ImportAt \in Occurrences /\ InWindow(ImportAt, posted[c])
                       /\ loc'[Import].bound[c] = ImportAt
                       /\ loc'[Import].read =
                            IF loc[Import].read = 0 THEN cursor ELSE loc[Import].read
                       /\ loc'[Import].at = ImportAt + 1
                    \/ /\ loc'[Import].bound[c] = 0
                       /\ \/ /\ loc'[Import].read = loc[Import].read
                             /\ loc'[Import].at = loc[Import].at
                          \/ /\ loc[Import].read = 0
                             /\ loc'[Import].read = cursor /\ loc'[Import].at = cursor
<1> USE DEF IInv
<1>1. UNCHANGED <<today, rule, posted, book, open, history>>
  BY DEF Bring
<1>2. Import \in Sessions /\ Import \notin Runs /\ Import \in open
      /\ c \notin rows /\ posted[c] # 0 /\ loc[Import].bound[c] = Untouched
  BY RecurringAssumption DEF Sessions, Import, Bring
<1>3. loc[Import] \in Local /\ loc \in [Sessions -> Local]
  BY <1>2 DEF TypeOK
<1>4. cursor \in 1 .. Last + 1 /\ posted[c] \in Nat
      /\ (loc[Import].read = 0 <=> loc[Import].at = 0)
      /\ loc[Import].read \in 0 .. Last + 1 /\ loc[Import].at \in 0 .. Last + 1
  BY <1>2, <1>3, PostedIsNat DEF TypeOK, LoadedTogether, Local
<1> HIDE DEF IInv
<1>5. CASE Merge(c)
  <2>1. PICK o \in Placeholder(posted[c]) :
          loc' = [loc EXCEPT ![Import].bound[c] = o, ![Import].merged = @ \cup {o}]
    BY <1>5 DEF Merge
  <2>2. /\ loc'[Import].placed = loc[Import].placed
        /\ \A t \in Sessions \ {Import} : loc'[t] = loc[t]
        /\ \A e \in Charges : e # c => loc'[Import].bound[e] = loc[Import].bound[e]
        /\ loc'[Import].bound[c] = o
        /\ loc'[Import].merged = loc[Import].merged \cup {o}
        /\ loc'[Import].read = loc[Import].read
        /\ loc'[Import].at = loc[Import].at
    BY <1>2, <1>3, <2>1 DEF Local
  <2> QED
    BY <1>1, <1>2, <1>3, <2>2
<1>6. CASE Link(c)
  <2>1. ImportAt \in Occurrences /\ InWindow(ImportAt, posted[c]) /\ rule = "link"
        /\ Placeholder(posted[c]) = {}
    BY <1>4, <1>6, RecurringAssumption DEF Link, Expected, ImportAt, Occurrences
  <2>2. AdvancePast(ImportAt, posted[c]) = ImportAt + 1
    BY <1>4, <2>1, AdvanceByOne
  <2>3. /\ loc'[Import].placed = loc[Import].placed
        /\ \A t \in Sessions \ {Import} : loc'[t] = loc[t]
        /\ \A e \in Charges : e # c => loc'[Import].bound[e] = loc[Import].bound[e]
        /\ loc'[Import].bound[c] = ImportAt
        /\ loc'[Import].merged = loc[Import].merged
        /\ loc'[Import].read = IF loc[Import].read = 0 THEN cursor ELSE loc[Import].read
        /\ loc'[Import].at = ImportAt + 1
    BY <1>2, <1>3, <1>6, <2>2 DEF Link, Local
  <2> QED
    BY <1>1, <1>2, <1>3, <2>1, <2>3
<1>7. CASE WriteUnlinked(c)
  <2>1. /\ loc'[Import].placed = loc[Import].placed
        /\ \A t \in Sessions \ {Import} : loc'[t] = loc[t]
        /\ \A e \in Charges : e # c => loc'[Import].bound[e] = loc[Import].bound[e]
        /\ loc'[Import].bound[c] = 0
        /\ loc'[Import].merged = loc[Import].merged
        /\ loc'[Import].read =
             IF loc[Import].read = 0 /\ active THEN cursor ELSE loc[Import].read
        /\ loc'[Import].at = IF active THEN ImportAt ELSE loc[Import].at
    BY <1>2, <1>3, <1>7 DEF WriteUnlinked, Local
  <2>2. \/ loc'[Import].read = loc[Import].read /\ loc'[Import].at = loc[Import].at
        \/ loc[Import].read = 0 /\ loc'[Import].read = cursor /\ loc'[Import].at = cursor
    BY <2>1 DEF ImportAt
  <2>3. Placeholder(posted[c]) = {}
    BY <1>7 DEF WriteUnlinked
  <2> QED
    BY <1>1, <1>2, <1>3, <2>1, <2>2, <2>3
<1> QED
  BY <1>5, <1>6, <1>7 DEF Bring

-----------------------------------------------------------------------------
(* What has happened: an occurrence is due, or its charge is posted.       *)
Happened(o) == Day(o) <= today \/ posted[o] # 0

(* The bank posts a charge within the window of its occurrence.            *)
PostedInWindow == \A c \in Charges : posted[c] # 0 => InWindow(c, posted[c])

(* A run goes over occurrences that are due.                               *)
RunsGoOverDue ==
    \A s \in Runs :
        /\ loc[s].cutoff <= today
        /\ \A o \in Occurrences : o < loc[s].at => Day(o) <= today

(* The shipped rule moves the bill past what has happened; the demoted one *)
(* leaves it to the runs and to a person.                                  *)
ImportsGoOverHappened ==
    /\ rule = "link" => \A o \in Occurrences :
          o < cursor \/ o < loc[Import].at => Happened(o)
    /\ rule = "suggest" => loc[Import].at = loc[Import].read

(* Under the demoted rule a cursor, the bill's or the one a person's       *)
(* session has loaded, has passed what has happened or was settled by hand.*)
PeopleGoOverSettled ==
    rule = "suggest" => \A o \in Occurrences :
        o < cursor \/ (\E s \in People : o < loc[s].read) => Happened(o) \/ o \in freed

HappenedInv ==
    IInv /\ PostedInWindow /\ RunsGoOverDue /\ ImportsGoOverHappened /\ PeopleGoOverSettled

(* A charge in the window of an occurrence is the charge of it.            *)
LEMMA WindowIsOwn ==
    ASSUME IInv, PostedInWindow, NEW c \in Charges, NEW o \in Nat,
           posted[c] # 0, InWindow(o, posted[c])
    PROVE  o = c
<1>1. posted[c] \in Int /\ c \in Nat
  BY PostedIsNat, RecurringAssumption DEF IInv, Charges, Occurrences
<1> QED
  BY <1>1, OneWindow DEF PostedInWindow

(* Earlier occurrences have earlier days.                                  *)
LEMMA DaysAscend ==
    ASSUME NEW o \in Nat, NEW e \in Nat, o <= e
    PROVE  Day(o) \in Nat /\ Day(e) \in Nat /\ Day(o) <= Day(e)
<1>1. Period \in Nat
  BY RecurringAssumption
<1> QED
  BY <1>1, Z3 DEF Day

(* What the steps of the world, the beginnings and the commits keep.       *)
LEMMA HappenedStays ==
    ASSUME IInv, IInv', today' >= today,
           \A c \in Charges : posted[c] # 0 => posted'[c] # 0
    PROVE  /\ \A o \in Occurrences : Happened(o) => Happened(o)'
           /\ \A o \in Occurrences : Day(o) <= today => Day(o) <= today'
<1>1. today \in Nat /\ today' \in Nat
  BY DEF IInv, TypeOK, Days
<1>2. \A o \in Occurrences : Day(o) \in Nat
  BY DaysAscend, RecurringAssumption DEF Occurrences
<1> QED
  BY <1>1, <1>2 DEF Happened, Charges, Day

LEMMA InitHappened == Init => HappenedInv
<1> SUFFICES ASSUME Init PROVE HappenedInv
  OBVIOUS
<1>1. IInv
  BY InitInvariant
<1>2. PostedInWindow
  BY DEF Init, PostedInWindow
<1>3. \A s \in Sessions : loc[s] = Empty
  BY DEF Init
<1>4. RunsGoOverDue
  BY <1>3 DEF Init, RunsGoOverDue, Empty, Sessions, Occurrences
<1>5. ImportsGoOverHappened
  BY <1>3 DEF Init, ImportsGoOverHappened, Empty, Sessions, Import, Occurrences
<1>6. PeopleGoOverSettled
  BY <1>3 DEF Init, PeopleGoOverSettled, Empty, Sessions, Occurrences
<1> QED
  BY <1>1, <1>2, <1>4, <1>5, <1>6 DEF HappenedInv

LEMMA WorldHappened ==
    ASSUME HappenedInv, IInv', Tick \/ \E c \in Charges : Post(c)
    PROVE  HappenedInv'
<1> USE DEF HappenedInv
<1>1. UNCHANGED <<rule, book, open, loc, history>>
  BY DEF Tick, Post
<1>2. today \in Nat /\ today' \in Nat /\ today' >= today
  BY DEF Tick, Post, IInv, TypeOK, Days
<1>3. \A c \in Charges : posted[c] # 0 => posted'[c] = posted[c]
  BY DEF Tick, Post, IInv, TypeOK
<1>4. PostedInWindow'
  <2>1. CASE Tick
    BY <2>1 DEF Tick, PostedInWindow, InWindow, Day
  <2>2. ASSUME NEW c \in Charges, Post(c)
        PROVE  PostedInWindow'
    <3>1. posted' = [posted EXCEPT ![c] = today] /\ InWindow(c, today)
      BY <2>2 DEF Post, InWindow
    <3>2. posted \in [Charges -> {0} \cup Days]
      BY DEF IInv, TypeOK
    <3> QED
      BY <3>1, <3>2 DEF PostedInWindow, InWindow, Day
  <2> QED
    BY <2>1, <2>2
<1>5. /\ \A o \in Occurrences : Happened(o) => Happened(o)'
      /\ \A o \in Occurrences : Day(o) <= today => Day(o) <= today'
  BY <1>2, <1>3, HappenedStays
<1>6. RunsGoOverDue'
  <2>1. \A s \in Runs : loc[s].cutoff \in Int
    BY DEF IInv, TypeOK, Local, Days, Sessions
  <2>2. \A s \in Runs : loc[s].cutoff <= today'
    BY <1>2, <2>1 DEF RunsGoOverDue
  <2> QED
    BY <1>1, <1>5, <2>2 DEF RunsGoOverDue, Day
<1>7. ImportsGoOverHappened'
  BY <1>1, <1>5 DEF ImportsGoOverHappened, book
<1>8. PeopleGoOverSettled'
  BY <1>1, <1>5 DEF PeopleGoOverSettled, book, history
<1> QED
  BY <1>4, <1>6, <1>7, <1>8

(* The day and the charges stay; a step that keeps what the sessions and   *)
(* the cursor have gone over keeps the invariant.                          *)
LEMMA SameDayHappened ==
    ASSUME HappenedInv, IInv', UNCHANGED <<today, rule, posted>>,
           \A s \in Runs : /\ loc'[s].cutoff <= today
                            /\ \A o \in Occurrences : o < loc'[s].at => Day(o) <= today,
           rule = "link" => \A o \in Occurrences :
               o < cursor' \/ o < loc'[Import].at => Happened(o),
           rule = "suggest" => loc'[Import].at = loc'[Import].read,
           freed \subseteq freed',
           rule = "suggest" => \A o \in Occurrences :
               o < cursor' \/ (\E s \in People : o < loc'[s].read) =>
                  \/ o < cursor \/ \E s \in People : o < loc[s].read
                  \/ Happened(o) \/ o \in freed'
    PROVE  HappenedInv'
<1>1. PostedInWindow'
  BY DEF HappenedInv, PostedInWindow, InWindow, Day
<1>2. RunsGoOverDue'
  BY DEF RunsGoOverDue, Day
<1>3. ImportsGoOverHappened'
  BY DEF ImportsGoOverHappened, Happened, Day
<1>4. PeopleGoOverSettled'
  BY DEF HappenedInv, PeopleGoOverSettled, Happened, Day
<1> QED
  BY <1>1, <1>2, <1>3, <1>4 DEF HappenedInv

LEMMA BeginHappened ==
    ASSUME HappenedInv, IInv', BeginImport \/ \E s \in Runs : BeginRun(s)
    PROVE  HappenedInv'
<1>1. CASE BeginImport
  BY <1>1, SameDayHappened
  DEF HappenedInv, RunsGoOverDue, ImportsGoOverHappened, BeginImport, book, history
<1>2. ASSUME NEW s \in Runs, BeginRun(s) PROVE HappenedInv'
  <2>1. s \in Sessions /\ s # Import /\ Import \in Sessions
    BY RecurringAssumption DEF Sessions, Import
  <2>2. /\ loc'[s].at = cursor /\ loc'[s].cutoff = today
        /\ \A t \in Sessions \ {s} : loc'[t] = loc[t]
    <3>1. loc \in [Sessions -> Local]
      BY DEF HappenedInv, IInv, TypeOK
    <3> QED
      BY <1>2, <2>1, <3>1 DEF BeginRun, Empty
  <2>3. today \in Nat /\ Day(cursor) <= today /\ cursor \in Nat
        /\ UNCHANGED <<today, rule, posted, cursor, freed>>
    BY <1>2, RecurringAssumption DEF HappenedInv, IInv, TypeOK, BeginRun, Days, book, history
  <2>4. \A o \in Occurrences : o < cursor => Day(o) <= today
    <3>1. \A o \in Occurrences : o \in Nat
      BY DEF Occurrences
    <3> QED
      BY <2>3, <3>1, DaysAscend
  <2>5. \A t \in Runs : /\ loc'[t].cutoff <= today
                         /\ \A o \in Occurrences : o < loc'[t].at => Day(o) <= today
    BY <2>1, <2>2, <2>3, <2>4 DEF HappenedInv, RunsGoOverDue, Sessions
  <2>6. loc'[Import] = loc[Import] /\ \A t \in People : loc'[t] = loc[t]
    BY <2>1, <2>2, RecurringAssumption DEF Sessions
  <2> QED
    BY <2>3, <2>5, <2>6, SameDayHappened DEF HappenedInv, ImportsGoOverHappened
<1> QED
  BY <1>1, <1>2

LEMMA MaterializeHappened ==
    ASSUME HappenedInv, IInv', NEW s \in Runs, Materialize(s)
    PROVE  HappenedInv'
<1>1. /\ UNCHANGED <<today, rule, posted, cursor, freed>>
      /\ s \in Sessions /\ s # Import /\ Import \in Sessions
      /\ loc[s].at \in Occurrences
      /\ \A t \in Sessions \ {s} : loc'[t] = loc[t]
      /\ loc'[s].at = loc[s].at + 1 /\ loc'[s].cutoff = loc[s].cutoff
  BY MaterializeEffect DEF HappenedInv, book, history, Sessions
<1>2. loc[s].cutoff \in Nat /\ loc[s].cutoff <= today /\ today \in Nat
      /\ Day(loc[s].at) <= loc[s].cutoff
  <2>1. today \in Nat /\ loc[s].cutoff \in Nat
    BY <1>1 DEF HappenedInv, IInv, TypeOK, Local, Days
  <2> QED
    BY <2>1 DEF HappenedInv, RunsGoOverDue, Materialize, Due
<1>3. \A o \in Occurrences : o < loc[s].at + 1 => Day(o) <= today
  <2>1. SUFFICES ASSUME NEW o \in Occurrences, o < loc[s].at + 1 PROVE Day(o) <= today
    OBVIOUS
  <2>2. o \in Nat /\ loc[s].at \in Nat /\ o <= loc[s].at
    BY <1>1, <2>1 DEF Occurrences
  <2>3. Day(o) \in Nat /\ Day(loc[s].at) \in Nat /\ Day(o) <= Day(loc[s].at)
    BY <2>2, DaysAscend
  <2> QED
    BY <1>2, <2>3
<1>4. \A t \in Runs : /\ loc'[t].cutoff <= today
                     /\ \A o \in Occurrences : o < loc'[t].at => Day(o) <= today
  BY <1>1, <1>2, <1>3 DEF HappenedInv, RunsGoOverDue, Sessions
<1>5. loc'[Import] = loc[Import] /\ \A t \in People : loc'[t] = loc[t]
  BY <1>1, RecurringAssumption DEF Sessions
<1> QED
  BY <1>1, <1>4, <1>5, SameDayHappened DEF HappenedInv, ImportsGoOverHappened

LEMMA BringHappened ==
    ASSUME HappenedInv, IInv', NEW c \in Charges, Bring(c)
    PROVE  HappenedInv'
<1>1. /\ UNCHANGED <<today, rule, posted, cursor, freed>>
      /\ Import \in Sessions /\ Import \notin Runs /\ posted[c] # 0
      /\ \A t \in Sessions \ {Import} : loc'[t] = loc[t]
      /\ \/ loc'[Import].at = loc[Import].at /\ loc'[Import].read = loc[Import].read
         \/ loc'[Import].at = cursor /\ loc'[Import].read = cursor
         \/ /\ rule = "link" /\ ImportAt \in Occurrences /\ InWindow(ImportAt, posted[c])
            /\ loc'[Import].at = ImportAt + 1
  BY BringEffect DEF HappenedInv, book, history
<1>2. \A t \in Runs : /\ loc'[t].cutoff <= today
                     /\ \A o \in Occurrences : o < loc'[t].at => Day(o) <= today
  BY <1>1 DEF HappenedInv, RunsGoOverDue, Sessions
<1>3. ASSUME rule = "link", NEW o \in Occurrences, o < loc'[Import].at
      PROVE  Happened(o)
  <2>1. CASE loc'[Import].at = loc[Import].at \/ loc'[Import].at = cursor
    BY <1>3, <2>1 DEF HappenedInv, ImportsGoOverHappened
  <2>2. CASE ImportAt \in Occurrences /\ InWindow(ImportAt, posted[c])
             /\ loc'[Import].at = ImportAt + 1
    <3>1. ImportAt = c
      BY <1>1, <2>2, WindowIsOwn DEF HappenedInv, Occurrences
    <3>2. CASE o = ImportAt
      BY <1>1, <3>1, <3>2 DEF Happened
    <3>3. CASE o # ImportAt
      <4>1. o < ImportAt
        BY <1>3, <2>2, <3>3 DEF Occurrences
      <4> QED
        BY <1>3, <4>1 DEF ImportAt, HappenedInv, ImportsGoOverHappened
    <3> QED
      BY <3>2, <3>3
  <2> QED
    BY <1>1, <2>1, <2>2
<1>4. rule = "link" => \A o \in Occurrences : o < cursor' \/ o < loc'[Import].at => Happened(o)
  BY <1>1, <1>3 DEF HappenedInv, ImportsGoOverHappened
<1>5. rule = "suggest" => loc'[Import].at = loc'[Import].read
  BY <1>1 DEF HappenedInv, ImportsGoOverHappened
<1>6. \A t \in People : loc'[t] = loc[t]
  BY <1>1, RecurringAssumption DEF Sessions, Import
<1> QED
  BY <1>1, <1>2, <1>4, <1>5, <1>6, SameDayHappened

(* A session that commits holds nothing more, and it moves the cursor past *)
(* what it has gone over.                                                  *)
LEMMA CommitHappened ==
    ASSUME HappenedInv, IInv',
           CommitImport \/ \E s \in Runs : CommitRun(s)
    PROVE  HappenedInv'
<1>1. PICK s \in open : /\ Leave(s)
                        /\ (s = Import /\ CommitImport) \/ (s \in Runs /\ CommitRun(s))
  <2>1. CommitImport => Import \in open /\ Leave(Import)
    BY DEF CommitImport
  <2>2. \A r \in Runs : CommitRun(r) => r \in open /\ Leave(r)
    BY DEF CommitRun
  <2> QED
    BY <2>1, <2>2
<1>2. /\ UNCHANGED <<today, rule, posted, freed>>
      /\ cursor' = cursor \/ (cursor' = loc[s].at /\ (s = Import => loc[s].at # loc[s].read))
  BY <1>1, RecurringAssumption DEF CommitImport, CommitRun, Import
<1>3. loc'[s] = Empty /\ \A t \in Sessions \ {s} : loc'[t] = loc[t]
  BY <1>1, LeaveForgets DEF HappenedInv
<1>4. Empty.at = 0 /\ Empty.read = 0 /\ Empty.cutoff = 0 /\ today \in Nat
      /\ \A o \in Occurrences : ~(o < 0)
  BY DEF Empty, HappenedInv, IInv, TypeOK, Days, Occurrences
<1>5. \A t \in Runs : /\ loc'[t].cutoff <= today
                     /\ \A o \in Occurrences : o < loc'[t].at => Day(o) <= today
  BY <1>3, <1>4 DEF HappenedInv, RunsGoOverDue, Sessions
<1>6. rule = "link" => \A o \in Occurrences : o < cursor' \/ o < loc'[Import].at => Happened(o)
  <2>1. rule = "link" => \A o \in Occurrences : o < loc[s].at => Happened(o)
    BY <1>1 DEF HappenedInv, RunsGoOverDue, ImportsGoOverHappened, Happened
  <2> QED
    BY <1>2, <1>3, <1>4, <2>1 DEF HappenedInv, ImportsGoOverHappened, Sessions
<1>7. rule = "suggest" => loc'[Import].at = loc'[Import].read
  BY <1>3, <1>4 DEF HappenedInv, ImportsGoOverHappened, Sessions
<1>8. \A t \in People : loc'[t] = loc[t]
  BY <1>1, <1>3, RecurringAssumption DEF Sessions, Import
<1>9. rule = "suggest" => \A o \in Occurrences : o < cursor' => o < cursor \/ Happened(o)
  BY <1>1, <1>2 DEF HappenedInv, RunsGoOverDue, ImportsGoOverHappened, Happened
<1> QED
  BY <1>2, <1>5, <1>6, <1>7, <1>8, <1>9, SameDayHappened

(* Suggestions are asked and accepted under the demoted rule only.         *)
LEMMA AcceptsAreDemoted ==
    ASSUME IInv, NEW s \in People,
           CommitAccept(s) \/ \E c \in Charges : BeginAccept(s, c)
    PROVE  rule = "suggest" /\ rule' = rule
<1>1. asked # {}
  BY DEF IInv, PeopleBindAsked, CommitAccept, BeginAccept
<1> QED
  BY <1>1 DEF IInv, TypeOK, OnlyDemotedAsks, CommitAccept, BeginAccept

LEMMA AcceptHappened ==
    ASSUME HappenedInv, IInv', NEW s \in People,
           CommitAccept(s) \/ \E c \in Charges : BeginAccept(s, c)
    PROVE  HappenedInv'
<1>1. rule = "suggest" /\ s \in Sessions /\ s \notin Runs /\ s # Import /\ Import \in Sessions
      /\ s \notin Runs \cup {Import} /\ Runs \cup {Import} \subseteq Sessions
  BY AcceptsAreDemoted, RecurringAssumption DEF HappenedInv, Sessions, Import
<1>2. UNCHANGED <<today, rule, posted>> /\ freed \subseteq freed'
      /\ \A t \in Sessions \ {s} : loc'[t] = loc[t]
  <2>1. loc \in [Sessions -> Local]
    BY DEF HappenedInv, IInv, TypeOK
  <2> QED
    BY <1>1, <2>1 DEF CommitAccept, BeginAccept, Leave, history
<1>3. \A t \in Runs : /\ loc'[t].cutoff <= today
                     /\ \A o \in Occurrences : o < loc'[t].at => Day(o) <= today
  BY <1>1, <1>2 DEF HappenedInv, RunsGoOverDue
<1>4. loc'[Import].at = loc'[Import].read
  BY <1>1, <1>2 DEF HappenedInv, ImportsGoOverHappened
<1>5. ASSUME NEW o \in Occurrences, o < cursor' \/ \E t \in People : o < loc'[t].read
      PROVE  \/ o < cursor \/ \E t \in People : o < loc[t].read
             \/ Happened(o) \/ o \in freed'
  <2>1. ASSUME NEW t \in People, t # s, o < loc'[t].read
        PROVE  o < loc[t].read
    BY <1>2, <2>1 DEF Sessions
  <2>2. ASSUME NEW c \in Charges, BeginAccept(s, c)
        PROVE  cursor' = cursor /\ loc'[s].read = cursor
    <3>1. loc \in [Sessions -> Local]
      BY DEF HappenedInv, IInv, TypeOK
    <3> QED
      BY <1>1, <2>2, <3>1 DEF BeginAccept, Empty, book
  <2>3. CASE CommitAccept(s)
    <3>1. /\ loc'[s] = Empty /\ cursor' = loc[s].at
          /\ freed' = freed \cup (loc[s].read .. loc[s].at - 1)
      BY <2>3, LeaveForgets DEF CommitAccept, HappenedInv
    <3>2. loc[s].read \in Nat /\ loc[s].at \in Nat /\ o \in Nat /\ ~(o < 0)
      <4>1. loc[s] \in Local
        BY <1>1 DEF HappenedInv, IInv, TypeOK
      <4> QED
        BY <4>1, RecurringAssumption DEF Local, Occurrences
    <3>3. ASSUME o < loc[s].at, ~(o < loc[s].read) PROVE o \in freed'
      BY <3>1, <3>2, <3>3
    <3> QED
      BY <1>5, <2>1, <3>1, <3>2, <3>3 DEF Empty
  <2> QED
    BY <1>5, <2>1, <2>2, <2>3
<1> QED
  BY <1>1, <1>2, <1>3, <1>4, <1>5, SameDayHappened

LEMMA PersonHappened ==
    ASSUME HappenedInv, IInv', NEW c \in Charges, Decline(c) \/ Unlink(c)
    PROVE  HappenedInv'
<1>1. UNCHANGED <<today, rule, posted, loc, cursor>> /\ freed \subseteq freed'
  BY DEF Decline, Unlink, history
<1> QED
  BY <1>1, SameDayHappened DEF HappenedInv, RunsGoOverDue, ImportsGoOverHappened

LEMMA NextHappened == HappenedInv /\ [Next]_vars => HappenedInv'
<1> SUFFICES ASSUME HappenedInv, [Next]_vars PROVE HappenedInv'
  OBVIOUS
<1>0. IInv'
  BY NextInvariant DEF HappenedInv
<1>1. CASE Tick \/ \E c \in Charges : Post(c)
  BY <1>0, <1>1, WorldHappened
<1>2. CASE BeginImport \/ \E s \in Runs : BeginRun(s)
  BY <1>0, <1>2, BeginHappened
<1>3. ASSUME NEW s \in Runs, Materialize(s) PROVE HappenedInv'
  BY <1>0, <1>3, MaterializeHappened
<1>4. ASSUME NEW c \in Charges, Bring(c) PROVE HappenedInv'
  BY <1>0, <1>4, BringHappened
<1>5. CASE CommitImport \/ \E s \in Runs : CommitRun(s)
  BY <1>0, <1>5, CommitHappened
<1>6. ASSUME NEW c \in Charges, Decline(c) \/ Unlink(c) PROVE HappenedInv'
  BY <1>0, <1>6, PersonHappened
<1>7. CASE UNCHANGED vars
  <2>1. UNCHANGED <<today, rule, posted, cursor, loc, freed>>
    BY <1>7 DEF vars, book, history
  <2> QED
    BY <1>0, <2>1, SameDayHappened DEF HappenedInv, RunsGoOverDue, ImportsGoOverHappened
<1>8. ASSUME NEW s \in People, CommitAccept(s) \/ \E c \in Charges : BeginAccept(s, c)
      PROVE  HappenedInv'
  BY <1>0, <1>8, AcceptHappened
<1> QED
  BY <1>1, <1>2, <1>3, <1>4, <1>5, <1>6, <1>7, <1>8 DEF Next

(* The inductive invariant: a run has gone over occurrences that are due,  *)
(* and under the shipped rule nothing is before a cursor that has not      *)
(* happened.                                                               *)
THEOREM HappenedInvariant == Spec => []HappenedInv
<1>1. Init => HappenedInv
  BY InitHappened
<1>2. HappenedInv /\ [Next]_vars => HappenedInv'
  BY NextHappened
<1> QED
  BY <1>1, <1>2, PTL DEF Spec

(* What one step moves the cursor past is due, or its charge is posted, or *)
(* a person has accepted a suggestion where the bill does not stand.       *)
LEMMA StepPassesWhatHappened ==
    ASSUME HappenedInv, [Next]_vars, NEW o \in Occurrences, cursor <= o, o < cursor'
    PROVE  \/ Day(o) <= today
           \/ posted[o] # 0
           \/ rule = "suggest" /\ (o \in freed \/ \E s \in People : AcceptsOutside(s))
<1>1. cursor \in Nat /\ o \in Nat /\ cursor' # cursor
  BY RecurringAssumption DEF HappenedInv, IInv, TypeOK, Occurrences
<1>2. \/ CommitImport
      \/ \E s \in Runs : CommitRun(s)
      \/ \E s \in People : CommitAccept(s)
  BY <1>1 DEF Next, vars, book, Tick, Post, Bring, Decline, Unlink, BeginRun, Materialize,
     BeginImport, BeginAccept
<1>3. CASE CommitImport
  <2>1. cursor' = loc[Import].at /\ loc[Import].at # loc[Import].read
    BY <1>1, <1>3 DEF CommitImport
  <2>2. rule = "link"
    BY <2>1 DEF HappenedInv, ImportsGoOverHappened, IInv, TypeOK
  <2> QED
    BY <2>1, <2>2 DEF HappenedInv, ImportsGoOverHappened, Happened
<1>4. ASSUME NEW s \in Runs, CommitRun(s) PROVE Day(o) <= today
  BY <1>4 DEF CommitRun, HappenedInv, RunsGoOverDue
<1>5. ASSUME NEW s \in People, CommitAccept(s), ~AcceptsOutside(s)
      PROVE  Day(o) <= today \/ posted[o] # 0 \/ (rule = "suggest" /\ o \in freed)
  <2>1. rule = "suggest" /\ cursor' = loc[s].at /\ s \in open /\ s \in Sessions
    BY <1>5, AcceptsAreDemoted DEF CommitAccept, HappenedInv, Sessions
  <2>2. CASE o < loc[s].read
    BY <2>1, <2>2 DEF HappenedInv, PeopleGoOverSettled, Happened
  <2>3. CASE ~(o < loc[s].read)
    <3>1. PICK c \in Charges : loc[s].bound[c] # Untouched
      BY <2>1 DEF HappenedInv, IInv, PeopleBindAsked
    <3>2. /\ c \in asked /\ loc[s].at = AdvancePast(loc[s].read, posted[c])
          /\ InWindow(loc[s].read, posted[c])
      BY <1>5, <3>1 DEF HappenedInv, IInv, PeopleBindAsked, AcceptsOutside
    <3>3. posted[c] # 0 /\ posted[c] \in Nat
      BY <3>2, PostedIsNat DEF HappenedInv, IInv, TypeOK, RowsArePosted
    <3>4. loc[s].read \in 1 .. Last + 1 /\ loc[s].at \in 1 .. Last + 1 /\ Last \in Nat
      <4>1. loc[s] \in Local /\ loc[s].read # 0 /\ Last \in Nat
        BY <2>1, RecurringAssumption DEF HappenedInv, IInv, TypeOK, LoadedTogether
      <4>2. loc[s].read \in 1 .. Last + 1
        BY <4>1 DEF Local
      <4> QED
        BY <3>2, <3>3, <4>1, <4>2, AdvanceType
    <3>5. loc[s].read \in Occurrences
      BY <1>1, <2>3, <3>4 DEF Occurrences
    <3>6. loc[s].at = loc[s].read + 1
      BY <3>2, <3>3, <3>5, AdvanceByOne
    <3>7. loc[s].read = c
      BY <3>2, <3>3, <3>5, WindowIsOwn DEF HappenedInv, Occurrences
    <3>8. o = c
      BY <1>1, <2>1, <2>3, <3>4, <3>6, <3>7
    <3> QED
      BY <3>3, <3>8
  <2> QED
    BY <2>2, <2>3
<1>6. ASSUME NEW s \in People, CommitAccept(s) PROVE rule = "suggest"
  BY <1>6, AcceptsAreDemoted DEF HappenedInv
<1> QED
  BY <1>2, <1>3, <1>4, <1>5, <1>6

(* The cursor passes no occurrence that is neither due nor paid, whatever  *)
(* sessions overlap: generate_pending stops at its cutoff and a sync or an *)
(* import advances the bill by the occurrence whose charge it brings.      *)
THEOREM CursorPassesWhatHappened == Spec => PassesWhatHappened
<1>1. HappenedInv /\ [Next]_vars =>
        [\A o \in Occurrences : cursor <= o /\ o < cursor' =>
           \/ Day(o) <= today
           \/ posted[o] # 0
           \/ rule = "suggest" /\ (o \in freed \/ \E s \in People : AcceptsOutside(s))]_vars
  BY StepPassesWhatHappened
<1> QED
  BY <1>1, HappenedInvariant, PTL DEF Spec, PassesWhatHappened

-----------------------------------------------------------------------------
(* A session that nobody has overtaken has loaded the cursor as it is.     *)
LoadedIsCurrent ==
    /\ \A s \in Sessions : loc[s].read <= loc[s].at
    /\ \A s \in open \ late : loc[s].read \in {0, cursor}

(* A run writes one row for each occurrence between the cursor it loaded   *)
(* and the one it has reached.                                             *)
RunsWriteOnce ==
    \A s \in Runs :
        /\ \A o \in loc[s].placed : loc[s].read <= o /\ o < loc[s].at
        /\ \A c \in Charges : loc[s].bound[c] # Untouched =>
              /\ loc[s].read <= loc[s].bound[c] /\ loc[s].bound[c] < loc[s].at
              /\ loc[s].bound[c] \notin loc[s].placed
              /\ \A e \in Charges : loc[s].bound[e] = loc[s].bound[c] => e = c

(* So does an import, and it also takes placeholders, each with one charge.*)
ImportWritesOnce ==
    ~overtaken /\ Import \notin late =>
        \A c \in Charges : loc[Import].bound[c] > 0 =>
            /\ \/ loc[Import].bound[c] \in loc[Import].merged
               \/ /\ loc[Import].read # 0 /\ loc[Import].read <= loc[Import].bound[c]
                  /\ loc[Import].bound[c] < loc[Import].at
            /\ \A e \in Charges : loc[Import].bound[e] = loc[Import].bound[c] => e = c

(* Nothing is written at the cursor or after it.                           *)
AheadIsEmpty ==
    ~overtaken => \A o \in Occurrences : o >= cursor =>
        ph[o] = 0 /\ \A c \in rows : fulfils[c] # o

(* An occurrence has one placeholder or one charge at most.                *)
OnePlaceEach ==
    ~overtaken => \A o \in Occurrences :
        /\ ph[o] <= 1
        /\ \A c \in rows : fulfils[c] = o => ph[o] = 0
        /\ \A c, e \in rows : fulfils[c] = o /\ fulfils[e] = o => c = e

OnceInv ==
    /\ IInv
    /\ LoadedIsCurrent
    /\ RunsWriteOnce
    /\ ImportWritesOnce
    /\ AheadIsEmpty
    /\ OnePlaceEach

(* The bill moves on from where it stands, up to its end.                  *)
LEMMA AdvanceMovesOn ==
    ASSUME NEW at \in 1 .. Last + 1, NEW d \in Nat
    PROVE  /\ AdvancePast(at, d) \in 1 .. Last + 1
           /\ AdvancePast(at, d) > at \/ AdvancePast(at, d) = Last + 1
<1>1. Period \in Nat /\ Period > 0 /\ Last \in Nat
  BY RecurringAssumption
<1>2. d \div Period \in Int
  BY <1>1
<1> QED
  BY <1>1, <1>2, AdvanceType DEF AdvancePast, Smaller, Larger

(* The types of what a session holds.                                      *)
LEMMA HeldTypes ==
    ASSUME IInv, NEW s \in Runs \cup {Import}
    PROVE  /\ loc[s].read \in Nat /\ loc[s].at \in Nat
           /\ loc[s].placed \subseteq Occurrences /\ loc[s].merged \subseteq Occurrences
           /\ \A c \in Charges : loc[s].bound[c] \in Int
           /\ \A c \in Charges : loc[s].bound[c] > 0 <=> loc[s].bound[c] \in Occurrences
           /\ \A c \in Charges : loc[s].bound[c] \notin {0, Untouched} => loc[s].bound[c] > 0
<1>1. loc[s] \in Local
  BY DEF IInv, TypeOK, Sessions
<1>2. \A c \in Charges : loc[s].bound[c] # Last + 1
  <2>1. \A c \in Charges : loc[s].bound[c] \notin Occurrences => loc[s].bound[c] # Last + 1
    <3>1. CASE s = Import
      BY <3>1, RecurringAssumption DEF IInv, ImportBringsNew, Untouched
    <3>2. CASE s \in Runs
      BY <3>2, RecurringAssumption DEF IInv, RunsBindRows, Untouched
    <3> QED
      BY <3>1, <3>2
  <2> QED
    BY <2>1, RecurringAssumption DEF Occurrences
<1> QED
  BY <1>1, <1>2, RecurringAssumption DEF Local, Untouched, Occurrences

LEMMA InitOnce == Init => OnceInv
<1> SUFFICES ASSUME Init PROVE OnceInv
  OBVIOUS
<1>1. IInv
  BY InitInvariant
<1>2. \A s \in Sessions : loc[s] = Empty
  BY DEF Init
<1>3. LoadedIsCurrent /\ RunsWriteOnce /\ ImportWritesOnce
  BY <1>2 DEF Init, LoadedIsCurrent, RunsWriteOnce, ImportWritesOnce, Empty, Sessions, Import,
     Untouched
<1>4. AheadIsEmpty /\ OnePlaceEach
  BY DEF Init, AheadIsEmpty, OnePlaceEach
<1> QED
  BY <1>1, <1>3, <1>4 DEF OnceInv

(* Days pass, the bank posts a charge, an import begins with nothing.      *)
LEMMA QuietOnce ==
    ASSUME OnceInv, IInv',
           Tick \/ (\E c \in Charges : Post(c)) \/ BeginImport \/ UNCHANGED vars
    PROVE  OnceInv'
<1>1. /\ UNCHANGED <<cursor, ph, rows, fulfils, loc, late, overtaken>>
      /\ \A s \in open' : s \in open \/ s = Import
  BY DEF Tick, Post, BeginImport, vars, book, history
<1>2. Import \notin open => loc[Import].read = 0
  BY DEF OnceInv, IInv, ClosedHoldsNothing, Sessions, Empty
<1>3. LoadedIsCurrent'
  BY <1>1, <1>2 DEF OnceInv, LoadedIsCurrent
<1>4. RunsWriteOnce' /\ ImportWritesOnce'
  BY <1>1 DEF OnceInv, RunsWriteOnce, ImportWritesOnce
<1>5. AheadIsEmpty' /\ OnePlaceEach'
  BY <1>1 DEF OnceInv, AheadIsEmpty, OnePlaceEach
<1> QED
  BY <1>3, <1>4, <1>5 DEF OnceInv

LEMMA BeginRunOnce ==
    ASSUME OnceInv, IInv', NEW s \in Runs, BeginRun(s)
    PROVE  OnceInv'
<1>1. s \in Sessions /\ s # Import /\ Import \in Sessions
  BY RecurringAssumption DEF Sessions, Import
<1>2. /\ loc'[s].read = cursor /\ loc'[s].at = cursor /\ loc'[s].placed = {}
      /\ loc'[s].bound = Empty.bound
      /\ \A t \in Sessions \ {s} : loc'[t] = loc[t]
  <2>1. loc \in [Sessions -> Local]
    BY DEF OnceInv, IInv, TypeOK
  <2> QED
    BY <1>1, <2>1 DEF BeginRun, Empty
<1>3. UNCHANGED <<cursor, ph, rows, fulfils, late, overtaken>> /\ open' = open \cup {s}
      /\ cursor \in Nat
  BY DEF BeginRun, book, history, OnceInv, IInv, TypeOK
<1>4. LoadedIsCurrent'
  BY <1>1, <1>2, <1>3 DEF OnceInv, LoadedIsCurrent, IInv, TypeOK
<1>5. RunsWriteOnce'
  BY <1>1, <1>2 DEF OnceInv, RunsWriteOnce, Empty, Sessions
<1>6. ImportWritesOnce'
  BY <1>1, <1>2, <1>3 DEF OnceInv, ImportWritesOnce
<1>7. AheadIsEmpty' /\ OnePlaceEach'
  BY <1>3 DEF OnceInv, AheadIsEmpty, OnePlaceEach
<1> QED
  BY <1>4, <1>5, <1>6, <1>7 DEF OnceInv

(* A round of a run writes the row of an occurrence it has written none of.*)
LEMMA MaterializeOnce ==
    ASSUME OnceInv, IInv', NEW s \in Runs, Materialize(s)
    PROVE  OnceInv'
<1>1. /\ UNCHANGED <<cursor, ph, rows, fulfils, open, late, overtaken>>
      /\ s \in Sessions /\ s # Import /\ Import \in Sessions
      /\ loc[s].at \in Occurrences /\ loc[s].read \in 1 .. Last + 1
      /\ \A t \in Sessions \ {s} : loc'[t] = loc[t]
      /\ loc'[s].read = loc[s].read /\ loc'[s].at = loc[s].at + 1
      /\ \/ /\ loc'[s].placed = loc[s].placed
            /\ \E c \in RealRow(s) : loc'[s].bound = [loc[s].bound EXCEPT ![c] = loc[s].at]
         \/ /\ loc'[s].placed = loc[s].placed \cup {loc[s].at}
            /\ loc'[s].bound = loc[s].bound
  BY MaterializeEffect DEF OnceInv, book, history, Sessions
<1>2. loc[s].read <= loc[s].at /\ loc[s].at \in Int /\ loc[s].read \in Int
  BY <1>1 DEF OnceInv, LoadedIsCurrent, Occurrences
<1>3. LoadedIsCurrent'
  <2>1. loc'[s].read <= loc'[s].at
    BY <1>1, <1>2
  <2>2. \A t \in open : t \in Sessions /\ loc'[t].read = loc[t].read
    BY <1>1 DEF OnceInv, IInv, TypeOK
  <2> QED
    BY <1>1, <2>1, <2>2 DEF OnceInv, LoadedIsCurrent
<1>4. /\ \A o \in loc[s].placed : o \in Int /\ loc[s].read <= o /\ o < loc[s].at
      /\ \A c \in Charges : loc[s].bound[c] \in Int
      /\ \A c \in Charges : loc[s].bound[c] # Untouched =>
            /\ loc[s].read <= loc[s].bound[c] /\ loc[s].bound[c] < loc[s].at
            /\ loc[s].bound[c] \notin loc[s].placed
            /\ \A e \in Charges : loc[s].bound[e] = loc[s].bound[c] => e = c
  BY <1>1, HeldTypes DEF OnceInv, RunsWriteOnce, Occurrences
<1> DEFINE OneEach ==
      /\ \A o \in loc'[s].placed : loc[s].read <= o /\ o < loc[s].at + 1
      /\ \A c \in Charges : loc'[s].bound[c] # Untouched =>
            /\ loc[s].read <= loc'[s].bound[c] /\ loc'[s].bound[c] < loc[s].at + 1
            /\ loc'[s].bound[c] \notin loc'[s].placed
            /\ \A e \in Charges : loc'[s].bound[e] = loc'[s].bound[c] => e = c
<1>5. OneEach
  <2>1. CASE loc'[s].placed = loc[s].placed \cup {loc[s].at} /\ loc'[s].bound = loc[s].bound
    BY <1>2, <1>4, <2>1
  <2>2. ASSUME NEW c \in RealRow(s), loc'[s].placed = loc[s].placed,
               loc'[s].bound = [loc[s].bound EXCEPT ![c] = loc[s].at]
        PROVE  OneEach
    <3>1. c \in Charges /\ loc[s].bound[c] = Untouched /\ loc[s].bound \in [Charges -> Int]
      <4>1. c \in Unlinked(s) /\ loc[s] \in Local
        BY <1>1, <2>2 DEF RealRow, Nearest, OnceInv, IInv, TypeOK
      <4> QED
        BY <4>1 DEF Unlinked, OnceInv, IInv, TypeOK, Local, Untouched
    <3>2. /\ loc'[s].bound[c] = loc[s].at
          /\ \A e \in Charges : e # c => loc'[s].bound[e] = loc[s].bound[e]
      BY <2>2, <3>1
    <3>3. \A e \in Charges : e # c => loc'[s].bound[e] # loc[s].at
      <4>1. loc[s].at # Untouched
        BY <1>1 DEF Occurrences, Untouched
      <4> QED
        BY <1>2, <1>4, <3>2, <4>1
    <3>4. loc[s].at \notin loc[s].placed
      BY <1>2, <1>4
    <3> QED
      BY <1>2, <1>4, <2>2, <3>2, <3>3, <3>4
  <2> QED
    BY <1>1, <2>1, <2>2
<1>6. RunsWriteOnce'
  BY <1>1, <1>5 DEF OnceInv, RunsWriteOnce, Sessions
<1>7. ImportWritesOnce'
  BY <1>1 DEF OnceInv, ImportWritesOnce
<1>8. AheadIsEmpty' /\ OnePlaceEach'
  BY <1>1 DEF OnceInv, AheadIsEmpty, OnePlaceEach
<1> QED
  BY <1>3, <1>6, <1>7, <1>8 DEF OnceInv

(* An import brings the first charge of an occurrence: the placeholders it *)
(* takes are before the cursor it has loaded, its links from there on.     *)
LEMMA BringOnce ==
    ASSUME OnceInv, IInv', NEW c \in Charges, Bring(c)
    PROVE  OnceInv'
<1>1. /\ UNCHANGED <<cursor, ph, rows, fulfils, open, late, overtaken>>
      /\ Import \in Sessions /\ Import \notin Runs /\ Import \in open
      /\ loc[Import].bound[c] = Untouched
      /\ \A t \in Sessions \ {Import} : loc'[t] = loc[t]
      /\ \A e \in Charges : e # c => loc'[Import].bound[e] = loc[Import].bound[e]
      /\ \/ \E o \in Placeholder(posted[c]) :
               /\ loc'[Import].bound[c] = o
               /\ loc'[Import].merged = loc[Import].merged \cup {o}
               /\ loc'[Import].read = loc[Import].read
               /\ loc'[Import].at = loc[Import].at
         \/ /\ loc'[Import].merged = loc[Import].merged
            /\ \/ /\ ImportAt \in Occurrences
                  /\ loc'[Import].bound[c] = ImportAt
                  /\ loc'[Import].read =
                       IF loc[Import].read = 0 THEN cursor ELSE loc[Import].read
                  /\ loc'[Import].at = ImportAt + 1
               \/ /\ loc'[Import].bound[c] = 0
                  /\ \/ /\ loc'[Import].read = loc[Import].read
                        /\ loc'[Import].at = loc[Import].at
                     \/ /\ loc[Import].read = 0
                        /\ loc'[Import].read = cursor /\ loc'[Import].at = cursor
  BY BringEffect DEF OnceInv, book, history
<1>2. /\ loc[Import].read \in Nat /\ loc[Import].at \in Nat /\ cursor \in Nat /\ cursor # 0
      /\ loc[Import].read <= loc[Import].at
      /\ (loc[Import].read = 0 <=> loc[Import].at = 0)
      /\ \A e \in Charges : loc[Import].bound[e] \in Int
  BY <1>1, HeldTypes DEF OnceInv, LoadedIsCurrent, IInv, TypeOK, LoadedTogether
<1>3. LoadedIsCurrent'
  <2>1. loc'[Import].read <= loc'[Import].at
    BY <1>1, <1>2 DEF ImportAt, Occurrences
  <2>2. Import \notin late => loc'[Import].read \in {0, cursor}
    BY <1>1 DEF OnceInv, LoadedIsCurrent
  <2>3. \A t \in open : t \in Sessions
    BY DEF OnceInv, IInv, TypeOK
  <2> QED
    BY <1>1, <2>1, <2>2, <2>3 DEF OnceInv, LoadedIsCurrent
<1>4. RunsWriteOnce'
  BY <1>1 DEF OnceInv, RunsWriteOnce, Sessions
<1> DEFINE WritesOnce == \A e \in Charges : loc'[Import].bound[e] > 0 =>
               /\ \/ loc'[Import].bound[e] \in loc'[Import].merged
                  \/ /\ loc'[Import].read # 0 /\ loc'[Import].read <= loc'[Import].bound[e]
                     /\ loc'[Import].bound[e] < loc'[Import].at
               /\ \A d \in Charges : loc'[Import].bound[d] = loc'[Import].bound[e] => d = e
<1>5. ASSUME ~overtaken, Import \notin late
      PROVE  WritesOnce
  <2>1. loc[Import].read \in {0, cursor}
    BY <1>1, <1>5 DEF OnceInv, LoadedIsCurrent
  <2>2. /\ \A o \in Occurrences : ph[o] > 0 => o < cursor
        /\ \A o \in loc[Import].merged : o < cursor /\ o \in Occurrences
    <3>1. \A o \in Occurrences : o \in Int /\ (ph[o] > 0 => o < cursor)
      BY <1>2, <1>5 DEF OnceInv, AheadIsEmpty, Occurrences
    <3>2. \A o \in loc[Import].merged : o \in Occurrences /\ ph[o] > 0
      BY <1>1, HeldTypes DEF OnceInv, IInv, ImportBringsNew
    <3> QED
      BY <3>1, <3>2
  <2>3. \A e \in Charges : loc[Import].bound[e] > 0 =>
            /\ \/ loc[Import].bound[e] \in loc[Import].merged
               \/ /\ loc[Import].read # 0 /\ loc[Import].read <= loc[Import].bound[e]
                  /\ loc[Import].bound[e] < loc[Import].at
            /\ \A d \in Charges : loc[Import].bound[d] = loc[Import].bound[e] => d = e
    BY <1>5 DEF OnceInv, ImportWritesOnce
  <2>4. ASSUME NEW o \in Placeholder(posted[c]),
               loc'[Import].bound[c] = o,
               loc'[Import].merged = loc[Import].merged \cup {o},
               loc'[Import].read = loc[Import].read,
               loc'[Import].at = loc[Import].at
        PROVE  WritesOnce
    <3>1. o \in Occurrences /\ o \in Int /\ ph[o] > 0 /\ o \notin loc[Import].merged /\ o > 0
      BY DEF Placeholder, Standing, Placeholders, Occurrences
    <3>2. \A e \in Charges : loc[Import].bound[e] # o
      BY <1>2, <2>1, <2>2, <2>3, <3>1
    <3> QED
      BY <1>1, <1>2, <2>3, <2>4, <3>1, <3>2
  <2>5. ASSUME ImportAt \in Occurrences, loc'[Import].bound[c] = ImportAt,
               loc'[Import].merged = loc[Import].merged,
               loc'[Import].read = IF loc[Import].read = 0 THEN cursor ELSE loc[Import].read,
               loc'[Import].at = ImportAt + 1
        PROVE  WritesOnce
    <3>1. /\ ImportAt \in Int /\ ImportAt > 0 /\ cursor <= ImportAt
          /\ loc'[Import].read = cursor /\ (loc[Import].read # 0 => ImportAt = loc[Import].at)
      BY <1>2, <2>1, <2>5 DEF ImportAt, Occurrences
    <3>2. \A e \in Charges : loc[Import].bound[e] # ImportAt
      BY <1>2, <2>1, <2>2, <2>3, <3>1
    <3>3. ASSUME NEW e \in Charges, e # c, loc[Import].bound[e] > 0
          PROVE  \/ loc[Import].bound[e] \in loc[Import].merged
                 \/ cursor <= loc[Import].bound[e] /\ loc[Import].bound[e] < ImportAt + 1
      <4>1. CASE loc[Import].bound[e] \in loc[Import].merged
        BY <4>1
      <4>2. CASE loc[Import].read # 0 /\ loc[Import].read <= loc[Import].bound[e]
                 /\ loc[Import].bound[e] < loc[Import].at
        <5>1. loc[Import].read = cursor /\ ImportAt = loc[Import].at
          BY <2>1, <3>1, <4>2
        <5> QED
          BY <1>2, <4>2, <5>1
      <4> QED
        BY <2>3, <3>3, <4>1, <4>2
    <3> QED
      BY <1>1, <1>2, <2>3, <2>5, <3>1, <3>2, <3>3
  <2>6. ASSUME loc'[Import].bound[c] = 0, loc'[Import].merged = loc[Import].merged,
               \/ /\ loc'[Import].read = loc[Import].read
                  /\ loc'[Import].at = loc[Import].at
               \/ loc[Import].read = 0
        PROVE  WritesOnce
    BY <1>1, <1>2, <2>3, <2>6
  <2> HIDE DEF WritesOnce
  <2> QED
    BY <1>1, <2>4, <2>5, <2>6
<1>6. ImportWritesOnce'
  BY <1>1, <1>5 DEF ImportWritesOnce
<1>7. AheadIsEmpty' /\ OnePlaceEach'
  BY <1>1 DEF OnceInv, AheadIsEmpty, OnePlaceEach
<1> QED
  BY <1>3, <1>4, <1>6, <1>7 DEF OnceInv

(* After a commit every session at work is overtaken; the one that has     *)
(* committed holds nothing.                                                *)
LEMMA LeaveOnce ==
    ASSUME OnceInv, NEW s \in open, Leave(s)
    PROVE  /\ LoadedIsCurrent' /\ RunsWriteOnce' /\ ImportWritesOnce'
           /\ open' \subseteq late'
           /\ ~overtaken' => ~overtaken /\ s \notin late
<1>1. /\ s \in Sessions /\ loc'[s] = Empty /\ \A t \in Sessions \ {s} : loc'[t] = loc[t]
      /\ open' = open \ {s} /\ late' = (late \cup open) \ {s}
      /\ overtaken' = (overtaken \/ s \in late)
  BY LeaveForgets DEF OnceInv, IInv, TypeOK, Leave
<1>2. LoadedIsCurrent'
  BY <1>1 DEF OnceInv, LoadedIsCurrent, Empty
<1>3. RunsWriteOnce'
  BY <1>1 DEF OnceInv, RunsWriteOnce, Empty, Sessions
<1>4. ImportWritesOnce'
  <2>1. CASE Import = s \/ Import \notin open
    <3>1. loc'[Import] = Empty
      BY <1>1, <2>1 DEF OnceInv, IInv, ClosedHoldsNothing, Sessions
    <3> QED
      BY <3>1 DEF ImportWritesOnce, Empty, Untouched
  <2>2. CASE Import # s /\ Import \in open
    BY <1>1, <2>2 DEF ImportWritesOnce
  <2> QED
    BY <2>1, <2>2
<1> QED
  BY <1>1, <1>2, <1>3, <1>4

(* A run that nobody has overtaken writes rows from the cursor on, where   *)
(* none are.                                                               *)
LEMMA CommitRunOnce ==
    ASSUME OnceInv, IInv', NEW s \in Runs, CommitRun(s)
    PROVE  OnceInv'
<1>1. s \in open /\ s \in Sessions /\ Leave(s)
  BY DEF CommitRun, Sessions
<1>2. /\ LoadedIsCurrent' /\ RunsWriteOnce' /\ ImportWritesOnce'
      /\ ~overtaken' => ~overtaken /\ s \notin late
  BY <1>1, LeaveOnce
<1>3. /\ cursor' = loc[s].at /\ rows' = rows
      /\ \A o \in Occurrences : ph'[o] = IF o \in loc[s].placed THEN ph[o] + 1 ELSE ph[o]
      /\ \A c \in Charges : fulfils'[c] = IF loc[s].bound[c] = Untouched THEN fulfils[c]
                                          ELSE loc[s].bound[c]
  BY DEF CommitRun, Fulfilled
<1>4. ASSUME ~overtaken'
      PROVE  AheadIsEmpty' /\ OnePlaceEach'
  <2>1. ~overtaken /\ s \notin late /\ loc[s].read = cursor /\ cursor \in Int
    BY <1>1, <1>2, <1>4 DEF OnceInv, LoadedIsCurrent, IInv, LoadedTogether, TypeOK
  <2>2. /\ loc[s].at \in Nat /\ cursor <= loc[s].at
        /\ \A o \in loc[s].placed : cursor <= o /\ o < loc[s].at
        /\ \A c \in Charges : loc[s].bound[c] # Untouched =>
              /\ cursor <= loc[s].bound[c] /\ loc[s].bound[c] < loc[s].at
              /\ loc[s].bound[c] \notin loc[s].placed
              /\ \A e \in Charges : loc[s].bound[e] = loc[s].bound[c] => e = c
    BY <1>1, <2>1, HeldTypes DEF OnceInv, LoadedIsCurrent, RunsWriteOnce
  <2>3. /\ \A o \in Occurrences : o \in Int /\ ph[o] \in Nat
        /\ \A c \in Charges : loc[s].bound[c] \in Int
        /\ rows \subseteq Charges
    <3>1. \A o \in Occurrences : o \in Int /\ ph[o] \in Nat
      BY RecurringAssumption DEF OnceInv, IInv, TypeOK, Occurrences
    <3>2. (\A c \in Charges : loc[s].bound[c] \in Int) /\ rows \subseteq Charges
      BY <1>1, HeldTypes DEF OnceInv, IInv, TypeOK
    <3> QED
      BY <3>1, <3>2
  <2>4. AheadIsEmpty'
    <3>1. SUFFICES ASSUME NEW o \in Occurrences, o >= loc[s].at
                   PROVE  ph'[o] = 0 /\ \A c \in rows : fulfils'[c] # o
      BY <1>3 DEF AheadIsEmpty
    <3>2. ph[o] = 0 /\ \A c \in rows : fulfils[c] # o
      BY <2>1, <2>2, <2>3, <3>1 DEF OnceInv, AheadIsEmpty
    <3>3. o \notin loc[s].placed
      BY <2>2, <2>3, <3>1
    <3>4. \A c \in rows : loc[s].bound[c] # Untouched => loc[s].bound[c] # o
      BY <2>2, <2>3, <3>1
    <3> QED
      BY <1>3, <2>3, <3>2, <3>3, <3>4
  <2>5. OnePlaceEach'
    <3>1. SUFFICES ASSUME NEW o \in Occurrences
                   PROVE  /\ ph'[o] <= 1
                          /\ \A c \in rows : fulfils'[c] = o => ph'[o] = 0
                          /\ \A c, e \in rows : fulfils'[c] = o /\ fulfils'[e] = o => c = e
      BY <1>3 DEF OnePlaceEach
    <3>2. CASE o < cursor
      <4>1. o \notin loc[s].placed /\ \A c \in rows : fulfils'[c] = o => fulfils[c] = o
        BY <1>3, <2>1, <2>2, <2>3, <3>2
      <4> QED
        BY <1>3, <2>1, <4>1 DEF OnceInv, OnePlaceEach
    <3>3. CASE o >= cursor
      <4>1. ph[o] = 0 /\ \A c \in rows : fulfils[c] # o
        BY <2>1, <3>3 DEF OnceInv, AheadIsEmpty
      <4>2. \A c \in rows : fulfils'[c] = o =>
               c \in Charges /\ loc[s].bound[c] = o /\ loc[s].bound[c] # Untouched
        BY <1>3, <2>3, <4>1
      <4>3. ph'[o] <= 1 /\ (o \notin loc[s].placed => ph'[o] = 0)
        BY <1>3, <4>1
      <4>4. \A c \in rows : fulfils'[c] = o => o \notin loc[s].placed
        BY <2>2, <4>2
      <4>5. \A c, e \in rows : fulfils'[c] = o /\ fulfils'[e] = o => c = e
        BY <2>2, <4>2
      <4> QED
        BY <4>3, <4>4, <4>5
    <3> QED
      BY <2>1, <2>3, <3>2, <3>3
  <2> QED
    BY <2>4, <2>5
<1>5. AheadIsEmpty' /\ OnePlaceEach'
  BY <1>4 DEF AheadIsEmpty, OnePlaceEach
<1> QED
  BY <1>2, <1>5 DEF OnceInv

(* An import that nobody has overtaken turns placeholders into charges one *)
(* for one and binds the others from the cursor on.                        *)
LEMMA CommitImportOnce ==
    ASSUME OnceInv, IInv', CommitImport
    PROVE  OnceInv'
<1>1. Import \in open /\ Import \in Sessions /\ Leave(Import)
  BY DEF CommitImport, Sessions
<1>2. /\ LoadedIsCurrent' /\ RunsWriteOnce' /\ ImportWritesOnce'
      /\ ~overtaken' => ~overtaken /\ Import \notin late
  BY <1>1, LeaveOnce
<1>3. /\ cursor' = IF loc[Import].at # loc[Import].read THEN loc[Import].at ELSE cursor
      /\ rows' = rows \cup {c \in Charges : loc[Import].bound[c] # Untouched}
      /\ \A o \in Occurrences : ph'[o] = IF o \in loc[Import].merged THEN ph[o] - 1 ELSE ph[o]
      /\ \A c \in Charges : fulfils'[c] = IF loc[Import].bound[c] = Untouched THEN fulfils[c]
                                          ELSE loc[Import].bound[c]
  BY DEF CommitImport, Fulfilled
<1>4. ASSUME ~overtaken'
      PROVE  AheadIsEmpty' /\ OnePlaceEach'
  <2>1. /\ ~overtaken /\ Import \notin late /\ loc[Import].read \in {0, cursor}
        /\ cursor \in Nat /\ rows \subseteq Charges
        /\ (loc[Import].read = 0 <=> loc[Import].at = 0)
    BY <1>1, <1>2, <1>4 DEF OnceInv, LoadedIsCurrent, IInv, LoadedTogether, TypeOK
  <2>2. /\ loc[Import].read \in Nat /\ loc[Import].at \in Nat
        /\ loc[Import].read <= loc[Import].at
        /\ loc[Import].merged \subseteq Occurrences
        /\ \A c \in Charges : loc[Import].bound[c] \in Int
        /\ \A c \in Charges : loc[Import].bound[c] > 0 <=> loc[Import].bound[c] \in Occurrences
    BY <1>1, HeldTypes DEF OnceInv, LoadedIsCurrent
  <2>3. \A o \in Occurrences : o \in Nat /\ o > 0 /\ ph[o] \in Nat
    <3>1. \A o \in Occurrences : o \in Nat /\ o > 0
      BY DEF Occurrences
    <3> QED
      BY <3>1 DEF OnceInv, IInv, TypeOK
  <2>4. \A o \in loc[Import].merged : ph[o] = 1 /\ o < cursor /\ \A c \in rows : fulfils[c] # o
    <3>1. \A o \in loc[Import].merged : ph[o] > 0
      BY DEF OnceInv, IInv, ImportBringsNew
    <3> QED
      BY <2>1, <2>2, <2>3, <3>1 DEF OnceInv, AheadIsEmpty, OnePlaceEach
  <2>5. /\ cursor' \in Nat /\ cursor <= cursor'
        /\ \A c \in Charges : loc[Import].bound[c] > 0 =>
              \/ loc[Import].bound[c] \in loc[Import].merged
              \/ cursor <= loc[Import].bound[c] /\ loc[Import].bound[c] < cursor'
    <3>1. cursor' \in Nat /\ cursor <= cursor'
      BY <1>3, <2>1, <2>2
    <3>2. \A c \in Charges : loc[Import].bound[c] > 0 =>
            \/ loc[Import].bound[c] \in loc[Import].merged
            \/ /\ loc[Import].read # 0 /\ loc[Import].read <= loc[Import].bound[c]
               /\ loc[Import].bound[c] < loc[Import].at
      BY <2>1 DEF OnceInv, ImportWritesOnce
    <3> QED
      BY <1>3, <2>1, <2>2, <3>1, <3>2
  <2>6. \A c, e \in Charges : loc[Import].bound[c] > 0 /\ loc[Import].bound[e] = loc[Import].bound[c]
           => e = c
    BY <2>1 DEF OnceInv, ImportWritesOnce
  (* The rows of an occurrence are its old ones and the one brought. *)
  <2>7. ASSUME NEW o \in Occurrences, NEW c \in rows', fulfils'[c] = o
        PROVE  /\ c \in Charges
               /\ \/ c \in rows /\ fulfils[c] = o
                  \/ loc[Import].bound[c] = o /\ o > 0
    BY <1>3, <2>1, <2>3, <2>7
  <2>8. AheadIsEmpty'
    <3>1. SUFFICES ASSUME NEW o \in Occurrences, o >= cursor'
                   PROVE  ph'[o] = 0 /\ \A c \in rows' : fulfils'[c] # o
      BY DEF AheadIsEmpty
    <3>2. o >= cursor /\ ph[o] = 0 /\ \A c \in rows : fulfils[c] # o
      BY <2>1, <2>3, <2>5, <3>1 DEF OnceInv, AheadIsEmpty
    <3>3. o \notin loc[Import].merged
      BY <2>4, <3>2
    <3>4. \A c \in Charges : loc[Import].bound[c] # o
      BY <2>3, <2>5, <3>1, <3>3
    <3> QED
      BY <1>3, <2>7, <3>2, <3>3, <3>4
  <2>9. OnePlaceEach'
    <3>1. SUFFICES ASSUME NEW o \in Occurrences
                   PROVE  /\ ph'[o] <= 1
                          /\ \A c \in rows' : fulfils'[c] = o => ph'[o] = 0
                          /\ \A c, e \in rows' : fulfils'[c] = o /\ fulfils'[e] = o => c = e
      BY DEF OnePlaceEach
    <3>2. /\ ph[o] <= 1
          /\ \A c \in rows : fulfils[c] = o => ph[o] = 0
          /\ \A c, e \in rows : fulfils[c] = o /\ fulfils[e] = o => c = e
          /\ o >= cursor => ph[o] = 0 /\ \A c \in rows : fulfils[c] # o
      BY <2>1 DEF OnceInv, OnePlaceEach, AheadIsEmpty
    <3>3. ph'[o] <= 1
      BY <1>3, <2>3, <2>4, <3>2
    <3>4. \A c \in Charges : loc[Import].bound[c] = o =>
             /\ o \in loc[Import].merged \/ o >= cursor
             /\ ph'[o] = 0 /\ \A e \in rows : fulfils[e] # o
      BY <1>3, <2>3, <2>4, <2>5, <3>2
    <3>5. \A c \in rows : fulfils[c] = o => ph'[o] = 0
      BY <1>3, <2>4, <3>2
    <3>6. \A c \in rows' : fulfils'[c] = o => ph'[o] = 0
      BY <2>7, <3>4, <3>5
    <3>7. ASSUME NEW c \in rows', NEW e \in rows', fulfils'[c] = o, fulfils'[e] = o
          PROVE  c = e
      <4>1. CASE loc[Import].bound[c] = o \/ loc[Import].bound[e] = o
        <5>1. loc[Import].bound[c] = o /\ loc[Import].bound[e] = o /\ c \in Charges /\ e \in Charges
          BY <2>7, <3>4, <3>7, <4>1
        <5> QED
          BY <2>3, <2>6, <5>1
      <4>2. CASE loc[Import].bound[c] # o /\ loc[Import].bound[e] # o
        BY <2>7, <3>2, <3>7, <4>2
      <4> QED
        BY <4>1, <4>2
    <3> QED
      BY <3>3, <3>6, <3>7
  <2> QED
    BY <2>8, <2>9
<1>5. AheadIsEmpty' /\ OnePlaceEach'
  BY <1>4 DEF AheadIsEmpty, OnePlaceEach
<1> QED
  BY <1>2, <1>5 DEF OnceInv

(* An accept loads the cursor and moves on from there.                     *)
LEMMA BeginAcceptOnce ==
    ASSUME OnceInv, IInv', NEW s \in People, NEW c \in Charges, BeginAccept(s, c)
    PROVE  OnceInv'
<1>1. /\ UNCHANGED <<cursor, ph, rows, fulfils, late, overtaken>> /\ open' = open \cup {s}
      /\ cursor \in 1 .. Last + 1 /\ posted[c] \in Nat
  BY PostedIsNat DEF BeginAccept, book, history, OnceInv, IInv, TypeOK
<1>2. s \in Sessions /\ s \notin Runs /\ s # Import /\ Import \in Sessions
  BY RecurringAssumption DEF Sessions, Import
<1>3. /\ loc'[s].read = cursor /\ loc'[s].at = AdvancePast(cursor, posted[c])
      /\ \A t \in Sessions \ {s} : loc'[t] = loc[t]
  <2>1. loc \in [Sessions -> Local]
    BY DEF OnceInv, IInv, TypeOK
  <2> QED
    BY <1>2, <2>1 DEF BeginAccept, Empty
<1>4. loc'[s].read <= loc'[s].at
  <2>1. /\ AdvancePast(cursor, posted[c]) \in 1 .. Last + 1
        /\ AdvancePast(cursor, posted[c]) > cursor \/ AdvancePast(cursor, posted[c]) = Last + 1
    BY <1>1, AdvanceMovesOn
  <2> QED
    BY <1>1, <1>3, <2>1, RecurringAssumption
<1>5. LoadedIsCurrent'
  BY <1>1, <1>3, <1>4 DEF OnceInv, LoadedIsCurrent, IInv, TypeOK
<1>6. RunsWriteOnce' /\ ImportWritesOnce'
  <2>1. \A t \in Runs : loc'[t] = loc[t]
    BY <1>2, <1>3 DEF Sessions
  <2>2. loc'[Import] = loc[Import]
    BY <1>2, <1>3
  <2> QED
    BY <1>1, <2>1, <2>2 DEF OnceInv, RunsWriteOnce, ImportWritesOnce
<1>7. AheadIsEmpty' /\ OnePlaceEach'
  BY <1>1 DEF OnceInv, AheadIsEmpty, OnePlaceEach
<1> QED
  BY <1>5, <1>6, <1>7 DEF OnceInv

(* An accepted suggestion that nobody has overtaken becomes the row of the *)
(* cursor, which moves on.                                                 *)
LEMMA CommitAcceptOnce ==
    ASSUME OnceInv, IInv', NEW s \in People, CommitAccept(s)
    PROVE  OnceInv'
<1>1. s \in open /\ s \in Sessions /\ Leave(s)
  BY DEF CommitAccept, Sessions
<1>2. /\ LoadedIsCurrent' /\ RunsWriteOnce' /\ ImportWritesOnce'
      /\ ~overtaken' => ~overtaken /\ s \notin late
  BY <1>1, LeaveOnce
<1>3. /\ cursor' = loc[s].at /\ UNCHANGED <<ph, rows>> /\ rows \subseteq Charges
      /\ \A c \in Charges : fulfils'[c] = IF loc[s].bound[c] = Untouched THEN fulfils[c]
                                          ELSE loc[s].bound[c]
  BY DEF CommitAccept, Fulfilled, OnceInv, IInv, TypeOK
<1>4. PICK c \in Charges : loc[s].bound[c] # Untouched
  BY <1>1 DEF OnceInv, IInv, PeopleBindAsked
<1>5. /\ c \in asked /\ loc[s].bound[c] = loc[s].read
      /\ loc[s].at = AdvancePast(loc[s].read, posted[c])
      /\ \A e \in Charges : e # c => loc[s].bound[e] = Untouched
  BY <1>4 DEF OnceInv, IInv, PeopleBindAsked
<1>6. ASSUME ~overtaken'
      PROVE  AheadIsEmpty' /\ OnePlaceEach'
  <2>1. ~overtaken /\ loc[s].read = cursor /\ cursor \in 1 .. Last + 1 /\ posted[c] \in Nat
    BY <1>1, <1>2, <1>6, PostedIsNat
    DEF OnceInv, LoadedIsCurrent, IInv, LoadedTogether, TypeOK
  <2>2. cursor' \in 1 .. Last + 1 /\ (cursor' > cursor \/ cursor' = Last + 1)
    BY <1>3, <1>5, <2>1, AdvanceMovesOn
  <2>3. \A o \in Occurrences : o \in Nat /\ o < Last + 1 /\ Last \in Nat
    BY RecurringAssumption DEF Occurrences
  <2>4. \A o \in Occurrences, e \in rows : fulfils'[e] = o =>
           (e # c /\ fulfils[e] = o) \/ (e = c /\ o = cursor)
    BY <1>3, <1>4, <1>5, <2>1
  <2>5. AheadIsEmpty'
    <3>1. SUFFICES ASSUME NEW o \in Occurrences, o >= cursor'
                   PROVE  ph'[o] = 0 /\ \A e \in rows' : fulfils'[e] # o
      BY DEF AheadIsEmpty
    <3>2. o > cursor
      BY <2>1, <2>2, <2>3, <3>1
    <3>3. ph[o] = 0 /\ \A e \in rows : fulfils[e] # o
      BY <2>1, <2>3, <3>2 DEF OnceInv, AheadIsEmpty
    <3> QED
      BY <1>3, <2>1, <2>3, <2>4, <3>2, <3>3
  <2>6. OnePlaceEach'
    <3>1. SUFFICES ASSUME NEW o \in Occurrences
                   PROVE  /\ ph[o] <= 1
                          /\ \A e \in rows : fulfils'[e] = o => ph[o] = 0
                          /\ \A d, e \in rows : fulfils'[d] = o /\ fulfils'[e] = o => d = e
      BY <1>3 DEF OnePlaceEach
    <3>2. /\ ph[o] <= 1
          /\ \A e \in rows : fulfils[e] = o => ph[o] = 0
          /\ \A d, e \in rows : fulfils[d] = o /\ fulfils[e] = o => d = e
          /\ o = cursor => ph[o] = 0 /\ \A e \in rows : fulfils[e] # o
      BY <2>1, <2>3 DEF OnceInv, OnePlaceEach, AheadIsEmpty
    <3> QED
      BY <2>4, <3>2
  <2> QED
    BY <2>5, <2>6
<1>7. AheadIsEmpty' /\ OnePlaceEach'
  BY <1>6 DEF AheadIsEmpty, OnePlaceEach
<1> QED
  BY <1>2, <1>7 DEF OnceInv

(* A refusal changes no row, and a charge taken off the bill frees its     *)
(* place.                                                                  *)
LEMMA PersonOnce ==
    ASSUME OnceInv, IInv', NEW c \in Charges, Decline(c) \/ Unlink(c)
    PROVE  OnceInv'
<1>1. /\ UNCHANGED <<cursor, ph, rows, open, loc, overtaken>> /\ late \subseteq late'
      /\ \A e \in Charges : e # c => fulfils'[e] = fulfils[e]
      /\ rows \subseteq Charges
  BY DEF OnceInv, IInv, TypeOK, Decline, Unlink, history
<1>2. LoadedIsCurrent'
  BY <1>1 DEF OnceInv, LoadedIsCurrent
<1>3. RunsWriteOnce' /\ ImportWritesOnce'
  BY <1>1 DEF OnceInv, RunsWriteOnce, ImportWritesOnce
<1>4. \A o \in Occurrences, e \in rows : fulfils'[e] = o => fulfils[e] = o
  <2>1. fulfils'[c] = fulfils[c] \/ fulfils'[c] = 0
    BY DEF Decline, Unlink, OnceInv, IInv, TypeOK
  <2>2. \A o \in Occurrences : o # 0
    BY DEF Occurrences
  <2> QED
    BY <1>1, <2>1, <2>2
<1>5. AheadIsEmpty'
  BY <1>1, <1>4 DEF OnceInv, AheadIsEmpty
<1>6. OnePlaceEach'
  BY <1>1, <1>4 DEF OnceInv, OnePlaceEach
<1> QED
  BY <1>2, <1>3, <1>5, <1>6 DEF OnceInv

LEMMA NextOnce == OnceInv /\ [Next]_vars => OnceInv'
<1> SUFFICES ASSUME OnceInv, [Next]_vars PROVE OnceInv'
  OBVIOUS
<1>0. IInv'
  BY NextInvariant DEF OnceInv
<1>1. CASE Tick \/ (\E c \in Charges : Post(c)) \/ BeginImport \/ UNCHANGED vars
  BY <1>0, <1>1, QuietOnce
<1>2. ASSUME NEW s \in Runs, BeginRun(s) \/ Materialize(s) \/ CommitRun(s)
      PROVE  OnceInv'
  BY <1>0, <1>2, BeginRunOnce, MaterializeOnce, CommitRunOnce
<1>3. ASSUME NEW c \in Charges, Bring(c) PROVE OnceInv'
  BY <1>0, <1>3, BringOnce
<1>4. CASE CommitImport
  BY <1>0, <1>4, CommitImportOnce
<1>5. ASSUME NEW c \in Charges, Decline(c) \/ Unlink(c) PROVE OnceInv'
  BY <1>0, <1>5, PersonOnce
<1>6. ASSUME NEW s \in People, CommitAccept(s) \/ \E c \in Charges : BeginAccept(s, c)
      PROVE  OnceInv'
  BY <1>0, <1>6, BeginAcceptOnce, CommitAcceptOnce
<1> QED
  BY <1>1, <1>2, <1>3, <1>4, <1>5, <1>6 DEF Next

(* The inductive invariant: while no session has committed what another    *)
(* had overtaken, every occurrence has one place at most, and nothing is   *)
(* written at the cursor or after it.                                      *)
THEOREM OnceInvariant == Spec => []OnceInv
<1>1. Init => OnceInv
  BY InitOnce
<1>2. OnceInv /\ [Next]_vars => OnceInv'
  BY NextOnce
<1> QED
  BY <1>1, <1>2, PTL DEF Spec

(* The count of the rows of an occurrence, from their being at most one.   *)
LEMMA OnePlaceIsOneRow ==
    ASSUME OnceInv, ~overtaken, NEW o \in Occurrences
    PROVE  RowsOf(o) <= 1
<1> DEFINE own == {c \in rows : fulfils[c] = o}
<1>1. /\ ph[o] \in Nat /\ ph[o] <= 1 /\ (own # {} => ph[o] = 0)
      /\ \A c, e \in own : c = e
  BY DEF OnceInv, IInv, TypeOK, OnePlaceEach
<1>2. CASE own = {}
  BY <1>1, <1>2, FS_EmptySet DEF RowsOf
<1>3. ASSUME NEW c \in own PROVE RowsOf(o) <= 1
  <2>1. own = {c}
    BY <1>1, <1>3
  <2>2. Cardinality(own) = 1 /\ ph[o] = 0
    BY <1>1, <2>1, FS_Singleton
  <2> QED
    BY <2>2 DEF RowsOf
<1> QED
  BY <1>2, <1>3

(* While every session commits before another one does, the bill counts    *)
(* each occurrence once, whatever the windows: by a placeholder or by one  *)
(* charge, be it early, late, caught up or accepted.                       *)
THEOREM EachOccurrenceOnce == Spec => []OneRowEach
<1>1. OnceInv => OneRowEach
  BY OnePlaceIsOneRow DEF OneRowEach
<1> QED
  BY <1>1, OnceInvariant, PTL

-----------------------------------------------------------------------------
(* Under the shipped rule a charge is bound to its own occurrence, unless  *)
(* an import makes it the row of another one's placeholder.                *)
ChargesAreOwn == rule = "link" =>
    /\ \A c \in rows \ astray : fulfils[c] \in {0, c}
    /\ \A s \in Runs \cup {Import}, c \in Charges :
          loc[s].bound[c] \in {Untouched, 0, c} \/ loc[s].bound[c] \in loc[s].merged

(* An import that brings a charge takes the placeholder that stands for it,*)
(* unless the charge goes astray.                                          *)
TakesItsPlaceholder ==
    rule = "link" /\ Import \notin late => \A c \in Charges :
        loc[Import].bound[c] # Untouched /\ ph[c] > 0 =>
            c \in loc[Import].merged \/ c \in Stray

(* A run writes no placeholder where the charge is a row.                  *)
NotPlacedBeside ==
    rule = "link" /\ ~overtaken =>
        \A s \in Runs \ late : \A o \in loc[s].placed : o \notin rows \/ o \in astray

OwnInv ==
    /\ OnceInv
    /\ HappenedInv
    /\ ChargesAreOwn
    /\ TakesItsPlaceholder
    /\ NotPlacedBeside
    /\ OnlyStraysDouble

(* A set of naturals has a least element.                                  *)
LEMMA LeastNatural ==
    ASSUME NEW T, T \subseteq Nat, T # {}
    PROVE  \E n \in T : \A m \in T : n <= m
<1>1. PICK top \in T : TRUE
  OBVIOUS
<1> DEFINE S == 0 .. top
           F == {0 .. m : m \in {k \in T : k <= top}}
<1>2. IsFiniteSet(S)
  BY <1>1, FS_Interval
<1>3. F \subseteq SUBSET S /\ F # {}
  BY <1>1
<1>4. IsWellFoundedOn(StrictSubsetOrdering(S), SUBSET S)
  <2> HIDE DEF S
  <2> QED
    BY <1>2, FS_StrictSubsetOrderingWellFounded, FS_FiniteSubsetsOfFinite
<1> HIDE DEF S, F
<1>5. PICK f \in F : \A g \in F : <<g, f>> \notin StrictSubsetOrdering(S)
  BY <1>3, <1>4, WFMin
<1>6. \A g \in F : g \subseteq f => g = f
  BY <1>3, <1>5 DEF StrictSubsetOrdering
<1>7. PICK n \in T : n <= top /\ f = 0 .. n
  BY DEF F
<1>8. ASSUME NEW m \in T, m < n PROVE FALSE
  <2>1. m \in Nat /\ n \in Nat /\ m <= top
    BY <1>1, <1>7, <1>8
  <2>2. 0 .. m \in F
    BY <2>1 DEF F
  <2>3. 0 .. m \subseteq f /\ n \in f /\ n \notin 0 .. m
    BY <1>7, <1>8, <2>1
  <2> QED
    BY <1>6, <2>2, <2>3
<1> QED
  BY <1>8

(* While the placeholder of a posted charge stands, the import finds one:  *)
(* if none is in reach, the recurring rule links this one.                 *)
LEMMA PlaceholderIsFound ==
    ASSUME HappenedInv, rule = "link", NEW c \in Charges, posted[c] # 0,
           ph[c] > 0, c \notin loc[Import].merged
    PROVE  Placeholder(posted[c]) # {}
<1> DEFINE d == posted[c]
<1>1. d \in Nat /\ InWindow(c, d) /\ c \in Placeholders
  BY PostedIsNat DEF HappenedInv, PostedInWindow, IInv, Charges, Placeholders
<1>2. Standing(d) # {} /\ Standing(d) \subseteq Occurrences
  BY <1>1 DEF Standing, Placeholders
<1> HIDE DEF d
<1>3. \A o \in Standing(d) : o \in Nat /\ Distance(o, d) \in Nat
  <2>1. \A o \in Standing(d) : o \in Nat
    BY <1>2, RecurringAssumption DEF Occurrences
  <2>2. \A o \in Standing(d) : Day(o) \in Nat
    BY <2>1, DaysAscend
  <2> QED
    BY <1>1, <2>1, <2>2 DEF Distance
<1> DEFINE far == {Distance(o, d) : o \in Standing(d)}
<1>4. PICK n \in far : \A m \in far : n <= m
  <2>1. far \subseteq Nat /\ far # {}
    BY <1>2, <1>3
  <2> HIDE DEF far
  <2> QED
    BY <2>1, LeastNatural
<1> DEFINE nearest == {o \in Standing(d) : Distance(o, d) = n}
<1>5. PICK o \in nearest : \A e \in nearest : o <= e
  <2>1. nearest \subseteq Nat /\ nearest # {}
    BY <1>3, <1>4
  <2> HIDE DEF nearest
  <2> QED
    BY <2>1, LeastNatural
<1>6. n \in Nat /\ \A e \in Standing(d) : n <= Distance(e, d)
  BY <1>3, <1>4
<1>7. \A e \in Standing(d) :
        n < Distance(e, d) \/ (n = Distance(e, d) /\ o <= e)
  BY <1>3, <1>5, <1>6
<1>8. o \in Placeholder(d)
  BY <1>5, <1>7 DEF Placeholder
<1> QED
  BY <1>8 DEF d

(* What a run finds: the charge of the occurrence, if it is a row that is  *)
(* nobody's yet.                                                           *)
LEMMA RealRowIsOwn ==
    ASSUME HappenedInv, rule = "link", NEW s \in Runs, loc[s].at \in Occurrences
    PROVE  /\ RealRow(s) \subseteq {loc[s].at}
           /\ (/\ loc[s].at \in rows /\ fulfils[loc[s].at] = 0
               /\ loc[s].bound[loc[s].at] = Untouched) => RealRow(s) # {}
<1> DEFINE o == loc[s].at
<1>1. o \in Nat /\ o \in Charges /\ RealRow(s) = Nearest(s)
  BY DEF Occurrences, Charges, RealRow
<1>2. \A c \in rows : c \in Charges /\ posted[c] # 0 /\ posted[c] \in Nat
  BY PostedIsNat DEF HappenedInv, IInv, TypeOK, RowsArePosted
<1>3. \A c \in Unlinked(s) : c = o
  BY <1>1, <1>2, WindowIsOwn DEF HappenedInv, Unlinked
<1>4. Nearest(s) \subseteq {o}
  BY <1>3 DEF Nearest
<1>5. ASSUME o \in rows, fulfils[o] = 0, loc[s].bound[o] = Untouched
      PROVE  o \in Nearest(s)
  <2>1. o \in Unlinked(s)
    BY <1>1, <1>2, <1>5 DEF Unlinked, HappenedInv, PostedInWindow
  <2>2. posted[o] <= posted[o]
    BY <1>2, <1>5
  <2> QED
    BY <1>3, <2>1, <2>2 DEF Nearest
<1> QED
  BY <1>1, <1>4, <1>5

LEMMA InitOwn == Init => OwnInv
<1> SUFFICES ASSUME Init PROVE OwnInv
  OBVIOUS
<1>1. OnceInv /\ HappenedInv
  BY InitOnce, InitHappened
<1>2. \A s \in Sessions : loc[s] = Empty
  BY DEF Init
<1>3. ChargesAreOwn /\ TakesItsPlaceholder /\ NotPlacedBeside /\ OnlyStraysDouble
  BY <1>2 DEF Init, ChargesAreOwn, TakesItsPlaceholder, NotPlacedBeside, OnlyStraysDouble, Empty,
     Sessions, Import
<1> QED
  BY <1>1, <1>3 DEF OwnInv

LEMMA BeginOwn ==
    ASSUME OwnInv, OnceInv', HappenedInv',
           \/ Tick \/ (\E c \in Charges : Post(c)) \/ BeginImport \/ UNCHANGED vars
           \/ \E s \in Runs : BeginRun(s)
    PROVE  OwnInv'
<1>1. CASE Tick \/ (\E c \in Charges : Post(c)) \/ BeginImport \/ UNCHANGED vars
  <2>1. UNCHANGED <<rule, ph, rows, fulfils, loc, late, overtaken, astray>>
    BY <1>1 DEF Tick, Post, BeginImport, vars, book, history
  <2> QED
    BY <2>1 DEF OwnInv, ChargesAreOwn, TakesItsPlaceholder, NotPlacedBeside, OnlyStraysDouble,
       Stray
<1>2. ASSUME NEW s \in Runs, BeginRun(s) PROVE OwnInv'
  <2>1. s \in Sessions /\ s # Import /\ Import \in Sessions
    BY RecurringAssumption DEF Sessions, Import
  <2>2. /\ loc'[s].placed = {} /\ loc'[s].bound = Empty.bound
        /\ \A t \in Sessions \ {s} : loc'[t] = loc[t]
    <3>1. loc \in [Sessions -> Local]
      BY DEF OwnInv, OnceInv, IInv, TypeOK
    <3> QED
      BY <1>2, <2>1, <3>1 DEF BeginRun, Empty
  <2>3. UNCHANGED <<rule, ph, rows, fulfils, late, overtaken, astray>>
    BY <1>2 DEF BeginRun, book, history
  <2>4. ChargesAreOwn'
    BY <2>1, <2>2, <2>3 DEF OwnInv, ChargesAreOwn, Empty, Sessions
  <2>5. TakesItsPlaceholder' /\ NotPlacedBeside' /\ OnlyStraysDouble'
    BY <2>1, <2>2, <2>3
    DEF OwnInv, TakesItsPlaceholder, NotPlacedBeside, OnlyStraysDouble, Sessions, Stray
  <2> QED
    BY <2>4, <2>5 DEF OwnInv
<1> QED
  BY <1>1, <1>2

(* A run that nobody has overtaken sees the charge if it is there.         *)
LEMMA MaterializeOwn ==
    ASSUME OwnInv, OnceInv', HappenedInv', NEW s \in Runs, Materialize(s)
    PROVE  OwnInv'
<1>1. /\ UNCHANGED <<rule, ph, rows, fulfils, late, overtaken, astray>>
      /\ s \in Sessions /\ s # Import /\ Import \in Sessions /\ s \in open
      /\ loc[s] \in Local /\ loc[s].at \in Occurrences /\ loc[s].read # 0
      /\ \A t \in Sessions \ {s} : loc'[t] = loc[t]
      /\ loc[s].merged = {} /\ loc'[s].merged = {}
      /\ \/ /\ loc'[s].placed = loc[s].placed
            /\ \E c \in RealRow(s) : loc'[s].bound = [loc[s].bound EXCEPT ![c] = loc[s].at]
         \/ /\ RealRow(s) = {}
            /\ loc'[s].placed = loc[s].placed \cup {loc[s].at}
            /\ loc'[s].bound = loc[s].bound
  BY MaterializeEffect DEF OwnInv, OnceInv, IInv, RunsBindRows, book, history, Sessions
<1>2. ASSUME rule = "link", NEW c \in Charges
      PROVE  loc'[s].bound[c] \in {Untouched, 0, c}
  <2>1. \A e \in RealRow(s) : e = loc[s].at
    BY <1>1, <1>2, RealRowIsOwn DEF OwnInv
  <2>2. loc[s].bound[c] \in {Untouched, 0, c} /\ loc[s].bound \in [Charges -> Int]
    BY <1>1, <1>2, RecurringAssumption DEF OwnInv, ChargesAreOwn, Local, Untouched
  <2> QED
    BY <1>1, <2>1, <2>2
<1>3. ChargesAreOwn'
  BY <1>1, <1>2 DEF OwnInv, ChargesAreOwn, Sessions
<1>4. TakesItsPlaceholder' /\ OnlyStraysDouble'
  BY <1>1 DEF OwnInv, TakesItsPlaceholder, OnlyStraysDouble, Stray
<1>5. ASSUME rule = "link", ~overtaken, s \notin late, RealRow(s) = {}
      PROVE  loc[s].at \notin rows \/ loc[s].at \in astray
  <2>1. SUFFICES ASSUME loc[s].at \in rows, loc[s].at \notin astray PROVE FALSE
    OBVIOUS
  <2>2. cursor <= loc[s].at
    BY <1>1, <1>5 DEF OwnInv, OnceInv, LoadedIsCurrent
  <2>3. fulfils[loc[s].at] = 0
    BY <1>1, <1>5, <2>1, <2>2
    DEF OwnInv, OnceInv, AheadIsEmpty, ChargesAreOwn, IInv, TypeOK, Occurrences
  <2>4. loc[s].bound[loc[s].at] = Untouched
    <3>1. loc[s].bound[loc[s].at] # loc[s].at
      BY <1>1 DEF OwnInv, OnceInv, RunsWriteOnce, Charges, Occurrences, Untouched
    <3>2. loc[s].bound[loc[s].at] # 0
      BY <1>1 DEF OwnInv, OnceInv, IInv, RunsBindRows, Charges, Occurrences, Untouched
    <3> QED
      BY <1>1, <1>5, <3>1, <3>2 DEF OwnInv, ChargesAreOwn, Charges
  <2> QED
    BY <1>1, <1>5, <2>1, <2>3, <2>4, RealRowIsOwn DEF OwnInv
<1>6. NotPlacedBeside'
  BY <1>1, <1>5 DEF OwnInv, NotPlacedBeside, Sessions
<1> QED
  BY <1>3, <1>4, <1>6 DEF OwnInv

(* An import that nobody has overtaken turns the placeholder of a charge   *)
(* into the charge.                                                        *)
LEMMA BringOwn ==
    ASSUME OwnInv, OnceInv', HappenedInv', NEW c \in Charges, Bring(c)
    PROVE  OwnInv'
<1>1. /\ UNCHANGED <<rule, ph, rows, fulfils, late, overtaken, astray>>
      /\ Import \in Sessions /\ Import \notin Runs /\ posted[c] # 0
      /\ \A t \in Sessions \ {Import} : loc'[t] = loc[t]
      /\ \A e \in Charges : e # c => loc'[Import].bound[e] = loc[Import].bound[e]
      /\ \/ \E o \in Placeholder(posted[c]) :
               /\ loc'[Import].bound[c] = o
               /\ loc'[Import].merged = loc[Import].merged \cup {o}
         \/ /\ Placeholder(posted[c]) = {}
            /\ loc'[Import].merged = loc[Import].merged
            /\ \/ /\ ImportAt \in Occurrences /\ InWindow(ImportAt, posted[c])
                  /\ loc'[Import].bound[c] = ImportAt
               \/ loc'[Import].bound[c] = 0
  BY BringEffect DEF OwnInv, OnceInv, book, history
<1>2. loc'[Import].bound[c] \in {0, c} \/ loc'[Import].bound[c] \in loc'[Import].merged
  <2>1. ImportAt \in Occurrences /\ InWindow(ImportAt, posted[c]) => ImportAt = c
    BY <1>1, WindowIsOwn DEF OwnInv, HappenedInv, Occurrences
  <2> QED
    BY <1>1, <2>1
<1>3. loc[Import].merged \subseteq loc'[Import].merged
  BY <1>1
<1>4. rule = "link" /\ ph[c] > 0 =>
         c \in loc'[Import].merged \/ loc'[Import].bound[c] \in (loc'[Import].merged \ {c})
  <2>1. rule = "link" /\ ph[c] > 0 /\ c \notin loc[Import].merged => Placeholder(posted[c]) # {}
    BY <1>1, PlaceholderIsFound DEF OwnInv
  <2> QED
    BY <1>1, <2>1
<1>5. ChargesAreOwn'
  <2>1. \A s \in Runs : loc'[s] = loc[s]
    BY <1>1 DEF Sessions
  <2> QED
    BY <1>1, <1>2, <1>3, <2>1 DEF OwnInv, ChargesAreOwn
<1>6. TakesItsPlaceholder'
  BY <1>1, <1>3, <1>4 DEF OwnInv, TakesItsPlaceholder, Stray
<1>7. NotPlacedBeside' /\ OnlyStraysDouble'
  BY <1>1 DEF OwnInv, NotPlacedBeside, OnlyStraysDouble, Sessions
<1> QED
  BY <1>5, <1>6, <1>7 DEF OwnInv

(* After a commit of s no session that still holds anything is current.    *)
LEMMA LeaveOwn ==
    ASSUME OwnInv, OnceInv', HappenedInv', NEW s \in open, Leave(s), rule' = rule
    PROVE  TakesItsPlaceholder' /\ NotPlacedBeside'
<1>1. /\ s \in Sessions /\ Import \in Sessions /\ open' \subseteq late'
      /\ loc' \in [Sessions -> Local]
      /\ \A t \in Sessions : t \notin open' => loc'[t] = Empty
  BY LeaveOnce, LeaveForgets DEF OwnInv, OnceInv, IInv, TypeOK, ClosedHoldsNothing, Sessions
<1>2. TakesItsPlaceholder'
  BY <1>1 DEF TakesItsPlaceholder, Empty
<1>3. NotPlacedBeside'
  BY <1>1 DEF NotPlacedBeside, Empty, Sessions
<1> QED
  BY <1>2, <1>3

LEMMA CommitRunOwn ==
    ASSUME OwnInv, OnceInv', HappenedInv', NEW s \in Runs, CommitRun(s)
    PROVE  OwnInv'
<1>1. s \in open /\ s \in Sessions /\ Leave(s)
  BY DEF CommitRun, Sessions
<1>2. /\ rule' = rule /\ rows' = rows /\ rows \subseteq Charges /\ astray' = astray
      /\ loc[s].merged = {}
      /\ \A o \in Occurrences : ph'[o] = IF o \in loc[s].placed THEN ph[o] + 1 ELSE ph[o]
      /\ \A c \in Charges : fulfils'[c] = IF loc[s].bound[c] = Untouched THEN fulfils[c]
                                          ELSE loc[s].bound[c]
      /\ \A t \in Sessions : loc'[t] = Empty \/ loc'[t] = loc[t]
  BY <1>1, LeaveForgets DEF CommitRun, Fulfilled, OwnInv, OnceInv, IInv, TypeOK, RunsBindRows
<1>3. TakesItsPlaceholder' /\ NotPlacedBeside'
  BY <1>1, <1>2, LeaveOwn
<1>4. ChargesAreOwn'
  BY <1>1, <1>2 DEF OwnInv, ChargesAreOwn, Empty, Sessions
<1>5. OnlyStraysDouble'
  <2>1. ~overtaken' => ~overtaken /\ s \notin late
    BY <1>1, LeaveOnce DEF OwnInv
  <2> QED
    BY <1>2, <2>1 DEF OwnInv, OnlyStraysDouble, NotPlacedBeside
<1> QED
  BY <1>3, <1>4, <1>5 DEF OwnInv

LEMMA CommitImportOwn ==
    ASSUME OwnInv, OnceInv', HappenedInv', CommitImport
    PROVE  OwnInv'
<1>1. Import \in open /\ Import \in Sessions /\ Leave(Import)
  BY DEF CommitImport, Sessions
<1>2. /\ rule' = rule /\ rows \subseteq Charges /\ astray' = astray \cup Stray
      /\ rows' = rows \cup {c \in Charges : loc[Import].bound[c] # Untouched}
      /\ \A o \in Occurrences : ph'[o] = IF o \in loc[Import].merged THEN ph[o] - 1 ELSE ph[o]
      /\ \A c \in Charges : fulfils'[c] = IF loc[Import].bound[c] = Untouched THEN fulfils[c]
                                          ELSE loc[Import].bound[c]
      /\ \A t \in Sessions : loc'[t] = Empty \/ loc'[t] = loc[t]
  BY <1>1, LeaveForgets DEF CommitImport, Fulfilled, OwnInv, OnceInv, IInv, TypeOK
<1>3. TakesItsPlaceholder' /\ NotPlacedBeside'
  BY <1>1, <1>2, LeaveOwn
<1>4. ChargesAreOwn'
  <2>1. ASSUME rule = "link", NEW c \in rows' \ astray'
        PROVE  fulfils'[c] \in {0, c}
    <3>1. c \in Charges /\ c \notin astray /\ c \notin Stray
      BY <1>2, <2>1
    <3>2. CASE loc[Import].bound[c] = Untouched
      BY <1>2, <2>1, <3>1, <3>2 DEF OwnInv, ChargesAreOwn
    <3>3. CASE loc[Import].bound[c] # Untouched
      <4>1. loc[Import].bound[c] \in {0, c} \/ loc[Import].bound[c] \in loc[Import].merged
        BY <2>1, <3>1, <3>3 DEF OwnInv, ChargesAreOwn
      <4>2. loc[Import].bound[c] \in {0, c}
        BY <3>1, <4>1 DEF Stray
      <4> QED
        BY <1>2, <3>1, <3>3, <4>2
    <3> QED
      BY <3>2, <3>3
  <2> QED
    BY <1>2, <2>1 DEF OwnInv, ChargesAreOwn, Empty, Sessions
<1>5. OnlyStraysDouble'
  <2>1. SUFFICES ASSUME ~overtaken', rule = "link", NEW o \in Occurrences, o \in rows',
                        o \notin astray'
                 PROVE  ph'[o] = 0
    BY <1>2 DEF OnlyStraysDouble
  <2>2. ~overtaken /\ Import \notin late
    BY <1>1, <2>1, LeaveOnce DEF OwnInv
  <2>3. ph[o] \in {0, 1} /\ \A e \in loc[Import].merged : ph[e] > 0
    <3>1. ph[o] \in Nat /\ ph[o] <= 1
      BY <2>2 DEF OwnInv, OnceInv, OnePlaceEach, IInv, TypeOK
    <3> QED
      BY <3>1 DEF OwnInv, OnceInv, IInv, ImportBringsNew
  <2>4. CASE o \in rows
    BY <1>2, <2>1, <2>2, <2>3, <2>4 DEF OwnInv, OnlyStraysDouble
  <2>5. CASE loc[Import].bound[o] # Untouched
    <3>1. ph[o] > 0 => o \in loc[Import].merged
      BY <1>2, <2>1, <2>2, <2>5 DEF OwnInv, TakesItsPlaceholder, Charges
    <3> QED
      BY <1>2, <2>3, <3>1
  <2> QED
    BY <1>2, <2>1, <2>4, <2>5
<1> QED
  BY <1>3, <1>4, <1>5 DEF OwnInv

(* Nothing is accepted under the shipped rule.                             *)
LEMMA AcceptOwn ==
    ASSUME OwnInv, OnceInv', HappenedInv', NEW s \in People,
           CommitAccept(s) \/ \E c \in Charges : BeginAccept(s, c)
    PROVE  OwnInv'
<1>1. rule' # "link"
  BY AcceptsAreDemoted DEF OwnInv, OnceInv
<1> QED
  BY <1>1 DEF OwnInv, ChargesAreOwn, TakesItsPlaceholder, NotPlacedBeside, OnlyStraysDouble

LEMMA PersonOwn ==
    ASSUME OwnInv, OnceInv', HappenedInv', NEW c \in Charges, Decline(c) \/ Unlink(c)
    PROVE  OwnInv'
<1>1. UNCHANGED <<rule, ph, rows, loc, overtaken, astray>> /\ late \subseteq late'
  BY DEF Decline, Unlink, history
<1>2. \A e \in rows : fulfils'[e] \in {0, fulfils[e]}
  BY DEF OwnInv, OnceInv, IInv, TypeOK, Decline, Unlink
<1>3. ChargesAreOwn'
  BY <1>1, <1>2 DEF OwnInv, ChargesAreOwn
<1>4. TakesItsPlaceholder' /\ NotPlacedBeside' /\ OnlyStraysDouble'
  BY <1>1 DEF OwnInv, TakesItsPlaceholder, NotPlacedBeside, OnlyStraysDouble, Stray
<1> QED
  BY <1>3, <1>4 DEF OwnInv

LEMMA NextOwn == OwnInv /\ [Next]_vars => OwnInv'
<1> SUFFICES ASSUME OwnInv, [Next]_vars PROVE OwnInv'
  OBVIOUS
<1>0. OnceInv' /\ HappenedInv'
  BY NextOnce, NextHappened DEF OwnInv
<1>1. CASE \/ Tick \/ (\E c \in Charges : Post(c)) \/ BeginImport \/ UNCHANGED vars
           \/ \E s \in Runs : BeginRun(s)
  BY <1>0, <1>1, BeginOwn
<1>2. ASSUME NEW s \in Runs, Materialize(s) \/ CommitRun(s) PROVE OwnInv'
  BY <1>0, <1>2, MaterializeOwn, CommitRunOwn
<1>3. ASSUME NEW c \in Charges, Bring(c) PROVE OwnInv'
  BY <1>0, <1>3, BringOwn
<1>4. CASE CommitImport
  BY <1>0, <1>4, CommitImportOwn
<1>5. ASSUME NEW c \in Charges, Decline(c) \/ Unlink(c) PROVE OwnInv'
  BY <1>0, <1>5, PersonOwn
<1>6. ASSUME NEW s \in People, CommitAccept(s) \/ \E c \in Charges : BeginAccept(s, c)
      PROVE  OwnInv'
  BY <1>0, <1>6, AcceptOwn
<1> QED
  BY <1>1, <1>2, <1>3, <1>4, <1>5, <1>6 DEF Next

(* While no session commits what another has overtaken, and with the rule  *)
(* as shipped, a charge and its own placeholder are both rows only if the  *)
(* charge was made the row of a neighbour's placeholder: sync, import and  *)
(* generate_pending, in any order and for any period, reach and windows,   *)
(* double no other purchase.                                               *)
THEOREM OnlyStraysAreDoubled == Spec => []OnlyStraysDouble
<1>1. Init => OwnInv
  BY InitOwn
<1>2. OwnInv /\ [Next]_vars => OwnInv'
  BY NextOwn
<1>3. OwnInv => OnlyStraysDouble
  BY DEF OwnInv
<1> QED
  BY <1>1, <1>2, <1>3, PTL DEF Spec
=============================================================================
