--------------------- MODULE RecurringGenerationProofs ---------------------
(***************************************************************************)
(* Proofs about RecurringGeneration, for any number of occurrences and of  *)
(* overlapping runs, any period and any windows narrower than it.          *)
(***************************************************************************)
EXTENDS RecurringGeneration, TLAPS

(* An occurrence the bill has dealt with.                                  *)
Accounted(o) == HasRow(o) \/ o \in freed

(* A session between two pieces of work holds nothing.                     *)
ClosedHoldsNothing == \A s \in Sessions : s \notin open => loc[s] = Empty

(* A session loads the cursor and where it stands together; a run and an   *)
(* accept at once.                                                         *)
LoadedTogether ==
    /\ \A s \in Sessions : loc[s].read = 0 <=> loc[s].at = 0
    /\ \A s \in (Runs \cup People) \cap open : loc[s].read # 0

RowsArePosted == \A c \in rows : posted[c] # 0

(* Only the demoted rule asks, and about charges that are not the bill's.  *)
OnlyDemotedAsks ==
    /\ rule = "link" => asked = {}
    /\ \A c \in asked : fulfils[c] = 0

(* A run binds charges that are rows, each to the occurrence in whose      *)
(* window it is, and finds them with no other.                             *)
RunsBindRows ==
    \A s \in Runs :
        /\ loc[s].merged = {}
        /\ \A c \in Charges : loc[s].bound[c] # Untouched =>
              /\ rule = "link" /\ c \in rows
              /\ loc[s].bound[c] \in Occurrences
              /\ InWindow(loc[s].bound[c], posted[c])
              /\ fulfils[c] \in {0, loc[s].bound[c]}

(* An import brings charges that are no rows yet; the placeholders it      *)
(* takes are still there and each becomes one of these charges.            *)
ImportBringsNew ==
    /\ loc[Import].placed = {}
    /\ \A c \in Charges : loc[Import].bound[c] # Untouched =>
          c \notin rows /\ posted[c] # 0 /\ loc[Import].bound[c] # Last + 1
    /\ \A o \in loc[Import].merged : ph[o] > 0 /\ \E c \in Charges : loc[Import].bound[c] = o

(* A person binds one charge that is asked about, which nobody else        *)
(* answers, to the occurrence the bill stood at.                           *)
PeopleBindAsked ==
    \A s \in People :
        /\ loc[s].placed = {} /\ loc[s].merged = {}
        /\ \A c \in Charges : loc[s].bound[c] # Untouched =>
              /\ c \in asked
              /\ loc[s].bound[c] = loc[s].read
              /\ loc[s].at = AdvancePast(loc[s].read, posted[c])
              /\ \A e \in Charges : loc[s].bound[e] # Untouched => e = c
              /\ \A t \in People : loc[t].bound[c] # Untouched => t = s
        /\ s \in open => \E c \in Charges : loc[s].bound[c] # Untouched

(* A run or an import has written a row for each occurrence it has gone    *)
(* over.                                                                   *)
WritesWhatItPasses ==
    \A s \in Runs \cup {Import} : loc[s].read # 0 =>
        \A o \in Occurrences : loc[s].read <= o /\ o < loc[s].at =>
            o \in loc[s].placed \/ \E c \in Charges : loc[s].bound[c] = o

(* What is before a cursor, the bill's or the one a session has loaded, is *)
(* dealt with.                                                             *)
BeforeCursorsAccounted ==
    /\ \A o \in Occurrences : o < cursor => Accounted(o)
    /\ \A s \in Sessions, o \in Occurrences : o < loc[s].read => Accounted(o)

IInv ==
    /\ TypeOK
    /\ ClosedHoldsNothing
    /\ LoadedTogether
    /\ RowsArePosted
    /\ OnlyDemotedAsks
    /\ RunsBindRows
    /\ ImportBringsNew
    /\ PeopleBindAsked
    /\ WritesWhatItPasses
    /\ BeforeCursorsAccounted

-----------------------------------------------------------------------------
(* The day of a charge is a number.                                        *)
LEMMA PostedIsNat ==
    ASSUME TypeOK, NEW c \in Charges
    PROVE  posted[c] \in Nat
BY RecurringAssumption DEF TypeOK, Days

(* Two windows of one bill do not meet.                                    *)
LEMMA OneWindow ==
    ASSUME NEW o \in Nat, NEW e \in Nat, NEW d \in Int, InWindow(o, d), InWindow(e, d)
    PROVE  o = e
<1> USE RecurringAssumption DEF InWindow, Day
<1>1. ASSUME NEW x \in Nat, NEW y \in Nat, x < y, InWindow(x, d), InWindow(y, d)
      PROVE  FALSE
  <2>1. PICK k \in Nat : y = x + 1 + k
    <3>1. y - x - 1 \in Nat /\ y = x + 1 + (y - x - 1)
      BY <1>1
    <3> QED
      BY <3>1
  <2>2. y * Period = x * Period + Period + k * Period
    BY <2>1, Z3
  <2>3. k * Period >= 0 /\ k * Period \in Int /\ x * Period \in Int
    BY Z3
  <2> QED
    BY <1>1, <2>2, <2>3
<1> QED
  BY <1>1

(* What a cursor passes on its way to another are dates of the bill.       *)
LEMMA PassedOccurrences ==
    ASSUME NEW a \in 1 .. Last + 1, NEW b \in 1 .. Last + 1
    PROVE  a .. b - 1 \subseteq 1 .. Last + 1
  BY RecurringAssumption

(* The cursor stays between the first date and the one after the end.      *)
LEMMA AdvanceType ==
    ASSUME NEW at \in 1 .. Last + 1, NEW d \in Nat
    PROVE  AdvancePast(at, d) \in 1 .. Last + 1
<1>1. Period \in Nat /\ Period > 0 /\ Last \in Nat
  BY RecurringAssumption
<1>2. d \div Period \in Int
  BY <1>1
<1> QED
  BY <1>1, <1>2 DEF AdvancePast, Smaller, Larger

(* A charge in the window of the occurrence a bill is at advances it by    *)
(* one.                                                                    *)
LEMMA AdvanceByOne ==
    ASSUME NEW at \in Occurrences, NEW d \in Nat, InWindow(at, d)
    PROVE  AdvancePast(at, d) = at + 1
<1>1. Period \in Nat /\ Period > 0 /\ Last \in Nat
  BY RecurringAssumption
<1> DEFINE q == d \div Period
<1>2. q \in Int /\ q * Period <= d
  BY <1>1, Z3
<1>3. d < at * Period + Period
  BY RecurringAssumption DEF InWindow, Day, Occurrences
<1>4. q <= at
  <2>1. SUFFICES ASSUME q >= at + 1 PROVE FALSE
    BY <1>1, <1>2 DEF Occurrences
  <2> HIDE DEF q
  <2>2. q * Period >= (at + 1) * Period
    BY <2>1, <1>1, <1>2, Z3 DEF Occurrences
  <2> QED
    BY <2>2, <1>1, <1>2, <1>3, Z3 DEF Occurrences
<1> HIDE DEF q
<1>5. Larger(at, q) = at
  BY <1>2, <1>4 DEF Larger, Occurrences
<1>6. at + 1 <= Last + 1 /\ at \in Int
  BY <1>1 DEF Occurrences
<1> QED
  BY <1>1, <1>5, <1>6 DEF AdvancePast, Smaller, q

-----------------------------------------------------------------------------
(* The initial state.                                                      *)
LEMMA InitInvariant == Init => IInv
<1> SUFFICES ASSUME Init PROVE IInv
  OBVIOUS
<1> USE RecurringAssumption DEF Init
<1>1. Empty \in Local
  BY DEF Empty, Local, Charges, Occurrences, Untouched
<1>2. TypeOK
  <2>1. /\ today \in Days /\ cursor \in 1 .. Last + 1
        /\ ph \in [Occurrences -> Nat] /\ fulfils \in [Charges -> 0 .. Last + 1]
        /\ posted \in [Charges -> {0} \cup Days]
    BY DEF Days
  <2>2. loc \in [Sessions -> Local]
    BY <1>1
  <2> QED
    BY <2>1, <2>2 DEF TypeOK
<1>3. ClosedHoldsNothing /\ LoadedTogether /\ RowsArePosted /\ OnlyDemotedAsks
  BY DEF ClosedHoldsNothing, LoadedTogether, RowsArePosted, OnlyDemotedAsks, Empty, Sessions
<1>4. RunsBindRows /\ ImportBringsNew /\ PeopleBindAsked
  BY DEF RunsBindRows, ImportBringsNew, PeopleBindAsked, Empty, Sessions, Untouched
<1>5. WritesWhatItPasses /\ BeforeCursorsAccounted
  BY DEF WritesWhatItPasses, BeforeCursorsAccounted, Empty, Sessions, Occurrences
<1> QED
  BY <1>2, <1>3, <1>4, <1>5 DEF IInv

(* Days pass and the bank posts a charge: of what is here, nothing changes.*)
LEMMA WorldInvariant ==
    ASSUME IInv, Tick \/ \E c \in Charges : Post(c)
    PROVE  IInv'
<1> USE DEF IInv
<1>1. UNCHANGED <<rule, book, open, loc, history>>
  BY DEF Tick, Post
<1>2. \A c \in Charges : posted[c] # 0 => posted'[c] = posted[c]
  BY DEF Tick, Post, TypeOK
<1> USE <1>1 DEF book, history
<1>3. TypeOK'
  <2>1. today' \in Days
    BY RecurringAssumption DEF TypeOK, Tick, Post, Days
  <2>2. posted' \in [Charges -> {0} \cup Days]
    BY DEF TypeOK, Tick, Post
  <2> QED
    BY <2>1, <2>2 DEF TypeOK
<1>4. (ClosedHoldsNothing /\ LoadedTogether /\ OnlyDemotedAsks /\ WritesWhatItPasses)'
  BY DEF ClosedHoldsNothing, LoadedTogether, OnlyDemotedAsks, WritesWhatItPasses
<1>5. BeforeCursorsAccounted'
  BY DEF BeforeCursorsAccounted, Accounted, HasRow
<1>6. RowsArePosted'
  BY <1>2 DEF RowsArePosted, TypeOK
<1>7. RunsBindRows'
  BY <1>2 DEF RunsBindRows, InWindow, RowsArePosted, TypeOK
<1>8. ImportBringsNew'
  BY <1>2 DEF ImportBringsNew
<1>9. PeopleBindAsked'
  <2>1. \A c \in asked : c \in Charges /\ posted'[c] = posted[c]
    BY <1>2 DEF RowsArePosted, TypeOK
  <2> HIDE DEF AdvancePast
  <2> QED
    BY <2>1 DEF PeopleBindAsked
<1> QED
  BY <1>3, <1>4, <1>5, <1>6, <1>7, <1>8, <1>9

(* A run loads the cursor; an import begins with nothing.                  *)
LEMMA BeginInvariant ==
    ASSUME IInv, BeginImport \/ \E s \in Runs : BeginRun(s)
    PROVE  IInv'
<1> USE DEF IInv
<1>1. CASE BeginImport
  <2> USE <1>1 DEF BeginImport, book, history
  <2>1. TypeOK'
    BY DEF TypeOK, Sessions
  <2>2. (ClosedHoldsNothing /\ LoadedTogether /\ OnlyDemotedAsks /\ WritesWhatItPasses)'
    BY RecurringAssumption
    DEF ClosedHoldsNothing, LoadedTogether, OnlyDemotedAsks, WritesWhatItPasses, Import
  <2>3. (RowsArePosted /\ RunsBindRows /\ ImportBringsNew)'
    BY DEF RowsArePosted, RunsBindRows, ImportBringsNew, InWindow
  <2>4. BeforeCursorsAccounted'
    BY DEF BeforeCursorsAccounted, Accounted, HasRow
  <2>5. PeopleBindAsked'
    BY RecurringAssumption DEF PeopleBindAsked, Import
  <2> QED
    BY <2>1, <2>2, <2>3, <2>4, <2>5
<1>2. ASSUME NEW s \in Runs, BeginRun(s) PROVE IInv'
  <2> USE <1>2 DEF BeginRun, book, history
  <2>1. s \in Sessions /\ s # Import /\ loc[s] = Empty
    BY RecurringAssumption DEF Sessions, Import, ClosedHoldsNothing
  <2>2. loc' = [loc EXCEPT ![s] = [Empty EXCEPT !.read = cursor, !.at = cursor,
                                                !.cutoff = today]]
    OBVIOUS
  <2>3. /\ loc'[s].read = cursor /\ loc'[s].at = cursor
        /\ loc'[s].bound = Empty.bound /\ loc'[s].merged = {} /\ loc'[s].placed = {}
        /\ \A t \in Sessions \ {s} : loc'[t] = loc[t]
    BY <2>1, <2>2 DEF TypeOK, Empty
  <2>4. TypeOK'
    <3>1. /\ cursor \in 0 .. Last + 1 /\ today \in {0} \cup Days
          /\ Empty.bound \in [Charges -> {Untouched} \cup 0 .. Last + 1]
      BY RecurringAssumption DEF TypeOK, Empty
    <3>2. [Empty EXCEPT !.read = cursor, !.at = cursor, !.cutoff = today] \in Local
      BY <3>1 DEF Empty, Local
    <3> QED
      BY <2>1, <2>2, <3>2 DEF TypeOK
  <2>5. (ClosedHoldsNothing /\ LoadedTogether)'
    BY <2>1, <2>3, RecurringAssumption
    DEF ClosedHoldsNothing, LoadedTogether, TypeOK, Sessions
  <2>6. (RowsArePosted /\ OnlyDemotedAsks)'
    BY DEF RowsArePosted, OnlyDemotedAsks
  <2>7. RunsBindRows'
    BY <2>3 DEF RunsBindRows, InWindow, Empty, Untouched, Sessions
  <2>8. ImportBringsNew'
    BY <2>1, <2>3 DEF ImportBringsNew, Sessions
  <2>9. WritesWhatItPasses'
    <3>1. \A o \in Occurrences : ~(cursor <= o /\ o < cursor)
      BY RecurringAssumption DEF TypeOK, Occurrences
    <3> QED
      BY <2>3, <3>1 DEF WritesWhatItPasses
  <2>10. BeforeCursorsAccounted'
    BY <2>3 DEF BeforeCursorsAccounted, Accounted, HasRow
  <2>11. PeopleBindAsked'
    BY <2>1, <2>3, RecurringAssumption DEF PeopleBindAsked, Sessions
  <2> QED
    BY <2>4, <2>5, <2>6, <2>7, <2>8, <2>9, <2>10, <2>11
<1> QED
  BY <1>1, <1>2

(* One round of a run's loop: a row for the occurrence it is at.           *)
LEMMA MaterializeInvariant ==
    ASSUME IInv, NEW s \in Runs, Materialize(s)
    PROVE  IInv'
<1> USE DEF IInv
<1>1. UNCHANGED <<today, rule, posted, book, open, history>>
  BY DEF Materialize
<1>2. s \in Sessions /\ s # Import /\ s \in open
  BY RecurringAssumption DEF Sessions, Import, Materialize
<1>3. loc[s] \in Local /\ loc[s].read # 0 /\ loc[s].at # 0
  BY <1>2 DEF TypeOK, LoadedTogether
<1>4. loc[s].at \in Occurrences
  BY <1>3, RecurringAssumption DEF Materialize, Due, Local, Occurrences
<1>5. ASSUME NEW p, NEW b, p \in SUBSET Occurrences,
             b \in [Charges -> {Untouched} \cup 0 .. Last + 1],
             loc' = [loc EXCEPT ![s] = [loc[s] EXCEPT !.placed = p, !.bound = b,
                                                      !.at = loc[s].at + 1]],
             loc[s].placed \subseteq p,
             \A c \in Charges : loc[s].bound[c] # Untouched => b[c] = loc[s].bound[c],
             loc[s].at \in p \/ \E c \in Charges : b[c] = loc[s].at,
             \A c \in Charges : b[c] # loc[s].bound[c] =>
                /\ rule = "link" /\ c \in rows /\ fulfils[c] = 0
                /\ b[c] \in Occurrences /\ InWindow(b[c], posted[c])
      PROVE  IInv'
  <2> USE <1>1 DEF book, history
  <2>1. /\ loc'[s].read = loc[s].read /\ loc'[s].at = loc[s].at + 1
        /\ loc'[s].placed = p /\ loc'[s].bound = b /\ loc'[s].merged = loc[s].merged
        /\ \A t \in Sessions \ {s} : loc'[t] = loc[t]
    BY <1>2, <1>3, <1>5 DEF TypeOK, Local
  <2>2. TypeOK'
    <3>1. loc[s].at + 1 \in 0 .. Last + 1
      BY <1>4, RecurringAssumption DEF Occurrences
    <3>2. [loc[s] EXCEPT !.placed = p, !.bound = b, !.at = loc[s].at + 1] \in Local
      BY <1>3, <1>5, <3>1 DEF Local
    <3> QED
      BY <1>5, <3>2 DEF TypeOK
  <2>3. loc[s].at + 1 # 0
    BY <1>4 DEF Occurrences
  <2>4. (ClosedHoldsNothing /\ LoadedTogether)'
    BY <1>2, <1>3, <2>1, <2>3 DEF ClosedHoldsNothing, LoadedTogether, Sessions
  <2>5. (RowsArePosted /\ OnlyDemotedAsks)'
    BY DEF RowsArePosted, OnlyDemotedAsks
  <2>6. RunsBindRows'
    BY <1>5, <2>1 DEF RunsBindRows, InWindow, Sessions
  <2>7. ImportBringsNew'
    BY <1>2, <2>1 DEF ImportBringsNew, Sessions
  <2>8. WritesWhatItPasses'
    <3>1. ASSUME NEW o \in Occurrences, loc[s].read <= o, o < loc[s].at + 1
          PROVE  o \in p \/ \E c \in Charges : b[c] = o
      <4>1. CASE o = loc[s].at
        BY <4>1, <1>5
      <4>2. CASE o # loc[s].at
        <5>1. o < loc[s].at
          BY <3>1, <4>2, <1>4 DEF Occurrences
        <5>2. o \in loc[s].placed \/ \E c \in Charges : loc[s].bound[c] = o
          BY <1>2, <1>3, <3>1, <5>1 DEF WritesWhatItPasses
        <5>3. o # Untouched
          BY DEF Occurrences, Untouched
        <5> QED
          BY <1>5, <5>2, <5>3
      <4> QED
        BY <4>1, <4>2
    <3> QED
      BY <2>1, <3>1 DEF WritesWhatItPasses, Sessions
  <2>9. BeforeCursorsAccounted'
    BY <2>1 DEF BeforeCursorsAccounted, Accounted, HasRow
  <2>10. PeopleBindAsked'
    BY <1>2, <2>1, RecurringAssumption DEF PeopleBindAsked, Sessions
  <2> QED
    BY <2>2, <2>4, <2>5, <2>6, <2>7, <2>8, <2>9, <2>10
<1>6. ASSUME NEW c \in RealRow(s),
             loc' = [loc EXCEPT ![s].bound[c] = loc[s].at, ![s].at = @ + 1]
      PROVE  IInv'
  <2>1. rule = "link" /\ c \in rows /\ fulfils[c] = 0 /\ loc[s].bound[c] = Untouched
        /\ InWindow(loc[s].at, posted[c]) /\ c \in Charges
    BY <1>6 DEF RealRow, Nearest, Unlinked, TypeOK
  <2> DEFINE b == [loc[s].bound EXCEPT ![c] = loc[s].at]
  <2>2. loc' = [loc EXCEPT ![s] = [loc[s] EXCEPT !.placed = loc[s].placed, !.bound = b,
                                                 !.at = loc[s].at + 1]]
    BY <1>2, <1>3, <1>6 DEF TypeOK, Local
  <2>3. /\ b \in [Charges -> {Untouched} \cup 0 .. Last + 1]
        /\ b[c] = loc[s].at /\ \A e \in Charges : e # c => b[e] = loc[s].bound[e]
    BY <1>3, <1>4, <2>1, RecurringAssumption DEF Local, Occurrences
  <2>4. loc[s].placed \in SUBSET Occurrences
    BY <1>3 DEF Local
  <2> HIDE DEF b, IInv
  <2>5. \A e \in Charges : loc[s].bound[e] # Untouched => b[e] = loc[s].bound[e]
    BY <2>1, <2>3
  <2>6. \E e \in Charges : b[e] = loc[s].at
    BY <2>1, <2>3
  <2>7. \A e \in Charges : b[e] # loc[s].bound[e] =>
           /\ rule = "link" /\ e \in rows /\ fulfils[e] = 0
           /\ b[e] \in Occurrences /\ InWindow(b[e], posted[e])
    BY <1>4, <2>1, <2>3
  <2> QED
    BY <1>5, <2>2, <2>3, <2>4, <2>5, <2>6, <2>7
<1>7. ASSUME loc' = [loc EXCEPT ![s].placed = @ \cup {loc[s].at}, ![s].at = @ + 1]
      PROVE  IInv'
  <2> DEFINE p == loc[s].placed \cup {loc[s].at}
  <2>1. loc' = [loc EXCEPT ![s] = [loc[s] EXCEPT !.placed = p, !.bound = loc[s].bound,
                                                 !.at = loc[s].at + 1]]
    BY <1>2, <1>3, <1>7 DEF TypeOK, Local
  <2>2. p \in SUBSET Occurrences /\ loc[s].at \in p /\ loc[s].placed \subseteq p
        /\ loc[s].bound \in [Charges -> {Untouched} \cup 0 .. Last + 1]
    BY <1>3, <1>4 DEF Local
  <2> HIDE DEF p
  <2> QED
    BY <1>5, <2>1, <2>2
<1> QED
  BY <1>6, <1>7 DEF Materialize

(* The occurrences a run or an import has written rows for are dealt with  *)
(* once it commits, and no commit takes the row of another occurrence.     *)
LEMMA CommitAccounts ==
    ASSUME IInv, NEW s \in Runs \cup {Import}, NEW o \in Occurrences,
           fulfils' = Fulfilled(s), UNCHANGED freed,
           rows' = rows \cup {c \in Charges : loc[s].bound[c] # Untouched},
           ph'[o] = ph[o] \/ ph'[o] = ph[o] + 1
             \/ (s = Import /\ o \in loc[s].merged),
           o \in loc[s].placed => ph'[o] = ph[o] + 1
    PROVE  /\ Accounted(o) => Accounted(o)'
           /\ o < loc[s].at => Accounted(o)'
<1> USE DEF IInv
<1>0. ph[o] \in Nat /\ loc[s] \in Local /\ o # Untouched /\ o # 0 /\ rows \subseteq Charges
      /\ s \in Sessions
  BY DEF TypeOK, Occurrences, Untouched, Sessions
<1>1. ASSUME NEW c \in Charges, loc[s].bound[c] = o
      PROVE  HasRow(o)'
  BY <1>0, <1>1 DEF HasRow, Fulfilled
<1>2. Accounted(o) => Accounted(o)'
  <2>1. CASE o \in freed
    BY <2>1 DEF Accounted
  <2>2. CASE ph[o] > 0
    <3>1. CASE s = Import /\ o \in loc[s].merged
      BY <1>1, <3>1 DEF ImportBringsNew, Accounted
    <3>2. CASE ph'[o] = ph[o] \/ ph'[o] = ph[o] + 1
      BY <1>0, <2>2, <3>2 DEF Accounted, HasRow
    <3> QED
      BY <3>1, <3>2
  <2>3. ASSUME NEW c \in rows, fulfils[c] = o
        PROVE  Accounted(o)'
    <3>1. CASE loc[s].bound[c] = Untouched
      BY <1>0, <2>3, <3>1 DEF Accounted, HasRow, Fulfilled
    <3>2. CASE loc[s].bound[c] # Untouched
      <4>1. s \in Runs
        BY <1>0, <2>3, <3>2 DEF ImportBringsNew, Sessions
      <4>2. loc[s].bound[c] = o
        BY <1>0, <4>1, <2>3, <3>2 DEF RunsBindRows
      <4> QED
        BY <1>0, <1>1, <2>3, <4>2 DEF Accounted
    <3> QED
      BY <3>1, <3>2
  <2> QED
    BY <2>1, <2>2, <2>3 DEF Accounted, HasRow
<1>3. ASSUME o < loc[s].at
      PROVE  Accounted(o)'
  <2>1. loc[s].read # 0 /\ loc[s].read \in Nat /\ loc[s].at \in Nat
    BY <1>0, <1>3, RecurringAssumption DEF LoadedTogether, Local, Occurrences
  <2>2. CASE o < loc[s].read
    BY <1>0, <1>2, <2>2 DEF BeforeCursorsAccounted
  <2>3. CASE loc[s].read <= o
    <3>1. o \in loc[s].placed \/ \E c \in Charges : loc[s].bound[c] = o
      BY <1>3, <2>1, <2>3 DEF WritesWhatItPasses
    <3>2. CASE o \in loc[s].placed
      BY <1>0, <3>2 DEF Accounted, HasRow
    <3> QED
      BY <1>1, <3>1, <3>2 DEF Accounted
  <2> QED
    BY <2>1, <2>2, <2>3 DEF Occurrences
<1> QED
  BY <1>2, <1>3

(* A session that commits forgets what it held; the others go on.          *)
LEMMA LeaveForgets ==
    ASSUME IInv, NEW s \in open, Leave(s)
    PROVE  /\ loc'[s] = Empty /\ \A t \in Sessions \ {s} : loc'[t] = loc[t]
           /\ loc' \in [Sessions -> Local]
           /\ open' = open \ {s} /\ open' \subseteq Sessions
           /\ late' \subseteq open' /\ overtaken' \in BOOLEAN
           /\ (ClosedHoldsNothing /\ LoadedTogether /\ WritesWhatItPasses)'
<1> USE DEF IInv
<1>1. Empty \in Local
  BY RecurringAssumption DEF Empty, Local, Charges, Occurrences, Untouched
<1>2. s \in Sessions /\ loc \in [Sessions -> Local]
  BY DEF TypeOK
<1>3. loc'[s] = Empty /\ (\A t \in Sessions \ {s} : loc'[t] = loc[t])
      /\ loc' \in [Sessions -> Local]
  BY <1>1, <1>2 DEF Leave
<1>4. open' = open \ {s} /\ open' \subseteq Sessions /\ late' \subseteq open'
      /\ overtaken' \in BOOLEAN
  BY DEF Leave, TypeOK
<1>5. ClosedHoldsNothing' /\ LoadedTogether'
  <2>1. loc'[s].read = 0 /\ loc'[s].at = 0
    BY <1>3 DEF Empty
  <2>2. ClosedHoldsNothing'
    BY <1>2, <1>3, <1>4 DEF ClosedHoldsNothing
  <2>3. LoadedTogether'
    BY <1>2, <1>3, <1>4, <2>1 DEF LoadedTogether, Sessions
  <2> QED
    BY <2>2, <2>3
<1>6. WritesWhatItPasses'
  BY <1>2, <1>3 DEF WritesWhatItPasses, Empty, Sessions
<1> QED
  BY <1>3, <1>4, <1>5, <1>6

(* After a commit the people at work go on with what they are asked.       *)
LEMMA PeopleGoOn ==
    ASSUME IInv, NEW s \in open, Leave(s), posted' = posted,
           \A c \in asked : c \in asked' \/ loc[s].bound[c] # Untouched
    PROVE  PeopleBindAsked'
<1> SUFFICES ASSUME NEW t \in People
             PROVE  /\ loc'[t].placed = {} /\ loc'[t].merged = {}
                    /\ \A c \in Charges : loc'[t].bound[c] # Untouched =>
                          /\ c \in asked'
                          /\ loc'[t].bound[c] = loc'[t].read
                          /\ loc'[t].at = AdvancePast(loc'[t].read, posted[c])
                          /\ \A e \in Charges : loc'[t].bound[e] # Untouched => e = c
                          /\ \A q \in People : loc'[q].bound[c] # Untouched => q = t
                    /\ t \in open' => \E c \in Charges : loc'[t].bound[c] # Untouched
  BY DEF PeopleBindAsked, AdvancePast
<1>1. /\ s \in Sessions /\ open' = open \ {s} /\ loc'[s] = Empty
      /\ \A q \in Sessions \ {s} : loc'[q] = loc[q]
  BY LeaveForgets DEF IInv, TypeOK
<1>2. \A c \in Charges : Empty.bound[c] = Untouched
  BY DEF Empty
<1>3. \A q \in People : q \in Sessions /\ (q = s \/ loc'[q] = loc[q])
  BY <1>1 DEF Sessions
<1>4. CASE t = s
  BY <1>1, <1>2, <1>4 DEF Empty
<1>5. CASE t # s
  <2>1. loc'[t] = loc[t]
    BY <1>3, <1>5
  <2>2. ASSUME NEW c \in Charges, loc[t].bound[c] # Untouched
        PROVE  c \in asked' /\ \A q \in People : loc'[q].bound[c] # Untouched => q = t
    <3>1. c \in asked /\ \A q \in People : loc[q].bound[c] # Untouched => q = t
      BY <2>2 DEF IInv, PeopleBindAsked
    <3>2. loc[s].bound[c] = Untouched \/ s \notin People
      BY <1>5, <3>1
    <3>3. c \in asked'
      <4>1. CASE s \in People
        BY <3>1, <3>2, <4>1
      <4>2. CASE s \in Runs
        BY <1>1, <3>1, <4>2 DEF IInv, RunsBindRows, OnlyDemotedAsks
      <4>3. CASE s = Import
        BY <3>1, <4>3 DEF IInv, ImportBringsNew, TypeOK
      <4> QED
        BY <1>1, <4>1, <4>2, <4>3 DEF Sessions
    <3> QED
      BY <1>1, <1>2, <1>3, <3>1, <3>3
  <2> QED
    BY <1>1, <1>5, <2>1, <2>2 DEF IInv, PeopleBindAsked
<1> QED
  BY <1>4, <1>5

(* A run commits its rows and the cursor it has reached.                   *)
LEMMA CommitRunInvariant ==
    ASSUME IInv, NEW s \in Runs, CommitRun(s)
    PROVE  IInv'
<1> USE DEF IInv
<1>1. s \in Sessions /\ s # Import /\ s \in open /\ loc[s] \in Local
      /\ loc[s].at \in 1 .. Last + 1
  <2>1. s \in Sessions /\ s # Import /\ s \in open
    BY RecurringAssumption DEF Sessions, Import, CommitRun
  <2>2. loc[s] \in Local /\ loc[s].at # 0
    BY <2>1 DEF TypeOK, LoadedTogether
  <2> QED
    BY <2>1, <2>2, RecurringAssumption DEF Local
<1>2. /\ loc'[s] = Empty /\ \A t \in Sessions \ {s} : loc'[t] = loc[t]
      /\ loc' \in [Sessions -> Local] /\ open' \subseteq Sessions
      /\ late' \subseteq open' /\ overtaken' \in BOOLEAN
      /\ (ClosedHoldsNothing /\ LoadedTogether /\ WritesWhatItPasses)'
  BY <1>1, LeaveForgets DEF CommitRun
<1> USE DEF CommitRun
<1>3. \A c \in Charges : loc[s].bound[c] # Untouched => c \in rows /\ loc[s].bound[c] \in Occurrences
  BY DEF RunsBindRows
<1>4. \A c \in Charges : fulfils'[c] = IF loc[s].bound[c] = Untouched THEN fulfils[c]
                                       ELSE loc[s].bound[c]
  BY DEF Fulfilled
<1>5. TypeOK'
  <2>1. ph' \in [Occurrences -> Nat]
    BY DEF TypeOK
  <2>2. fulfils' \in [Charges -> 0 .. Last + 1]
    BY <1>3, RecurringAssumption DEF TypeOK, Fulfilled, Occurrences
  <2> QED
    BY <1>1, <1>2, <2>1, <2>2 DEF TypeOK
<1>6. RowsArePosted' /\ OnlyDemotedAsks'
  <2>1. \A c \in asked : c \in Charges /\ fulfils'[c] = fulfils[c]
    BY <1>4 DEF RunsBindRows, OnlyDemotedAsks, TypeOK
  <2> QED
    BY <2>1 DEF RowsArePosted, OnlyDemotedAsks
<1>7. RunsBindRows'
  <2>1. ASSUME NEW t \in Runs, NEW c \in Charges, t # s, loc[t].bound[c] # Untouched
        PROVE  fulfils'[c] \in {0, loc[t].bound[c]}
    <3>1. CASE loc[s].bound[c] = Untouched
      BY <1>4, <2>1, <3>1 DEF RunsBindRows
    <3>2. CASE loc[s].bound[c] # Untouched
      <4>1. /\ InWindow(loc[s].bound[c], posted[c]) /\ InWindow(loc[t].bound[c], posted[c])
            /\ loc[s].bound[c] \in Occurrences /\ loc[t].bound[c] \in Occurrences
        BY <2>1, <3>2 DEF RunsBindRows
      <4>2. posted[c] \in Int /\ loc[s].bound[c] \in Nat /\ loc[t].bound[c] \in Nat
        <5>1. Occurrences \subseteq Nat
          BY RecurringAssumption DEF Occurrences
        <5>2. posted[c] \in Nat
          <6> HIDE DEF CommitRun
          <6> QED
            BY PostedIsNat
        <5>3. loc[s].bound[c] \in Nat /\ loc[t].bound[c] \in Nat
          BY <4>1, <5>1
        <5> HIDE DEF IInv, CommitRun
        <5> QED
          BY <5>2, <5>3
      <4>3. loc[s].bound[c] = loc[t].bound[c]
        BY <4>1, <4>2, OneWindow
      <4> QED
        BY <1>4, <3>2, <4>3
    <3> QED
      BY <3>1, <3>2
  <2> QED
    BY <1>1, <1>2, <2>1 DEF RunsBindRows, InWindow, Empty, Untouched, Sessions
<1>8. ImportBringsNew'
  <2>1. loc'[Import] = loc[Import]
    BY <1>1, <1>2 DEF Sessions
  <2>2. \A o \in Occurrences : ph[o] > 0 => ph'[o] > 0
    BY DEF TypeOK
  <2>3. loc[Import].merged \subseteq Occurrences
    BY DEF TypeOK, Local, Sessions
  <2> QED
    BY <2>1, <2>2, <2>3 DEF ImportBringsNew
<1>9. BeforeCursorsAccounted'
  <2>1. rows' = rows \cup {c \in Charges : loc[s].bound[c] # Untouched}
    BY <1>3
  <2>2. \A o \in Occurrences : /\ Accounted(o) => Accounted(o)'
                               /\ o < loc[s].at => Accounted(o)'
    <3> TAKE o \in Occurrences
    <3>1. /\ ph'[o] = ph[o] \/ ph'[o] = ph[o] + 1
          /\ o \in loc[s].placed => ph'[o] = ph[o] + 1
      OBVIOUS
    <3> QED
      BY <1>1, <1>2, <2>1, <3>1, CommitAccounts
  <2>3. \A o \in Occurrences : o < cursor' => Accounted(o)'
    BY <2>2
  <2>4. ASSUME NEW t \in Sessions, NEW o \in Occurrences, o < loc'[t].read
        PROVE  Accounted(o)'
    <3>1. t # s
      BY <1>2, <2>4 DEF Empty, Occurrences
    <3> QED
      BY <1>2, <2>2, <2>4, <3>1 DEF BeforeCursorsAccounted
  <2> QED
    BY <2>3, <2>4 DEF BeforeCursorsAccounted
<1>10. PeopleBindAsked'
  BY <1>1, PeopleGoOn
<1> QED
  BY <1>2, <1>5, <1>6, <1>7, <1>8, <1>9, <1>10

(* An import brings a charge: it binds one that is no row yet, and writes  *)
(* no occurrence off without it.                                           *)
LEMMA BringInvariant ==
    ASSUME IInv, NEW c \in Charges, Bring(c)
    PROVE  IInv'
<1> USE DEF IInv
<1>1. UNCHANGED <<today, rule, posted, book, open, history>>
  BY DEF Bring
<1>2. Import \in Sessions /\ Import \notin Runs /\ Import \in open
      /\ c \notin rows /\ posted[c] # 0 /\ loc[Import].bound[c] = Untouched
  BY RecurringAssumption DEF Sessions, Import, Bring
<1>3. loc[Import] \in Local /\ loc[Import].placed = {}
  BY <1>2 DEF TypeOK, ImportBringsNew
<1>4. ASSUME NEW o \in 0 .. Last, NEW r \in 0 .. Last + 1, NEW a \in 0 .. Last + 1,
             NEW m \in SUBSET Occurrences,
             loc' = [loc EXCEPT ![Import] = [loc[Import] EXCEPT !.bound[c] = o, !.read = r,
                                                       !.at = a, !.merged = m]],
             r = 0 <=> a = 0,
             r = loc[Import].read \/ (loc[Import].read = 0 /\ r = cursor),
             \A e \in m : e \in loc[Import].merged \/ (e = o /\ ph[e] > 0),
             r # 0 => \A e \in Occurrences : r <= e /\ e < a =>
                e = o \/ (loc[Import].read # 0 /\ r = loc[Import].read /\ e < loc[Import].at)
      PROVE  IInv'
  <2> USE <1>1 DEF book, history
  <2>1. /\ loc'[Import].read = r /\ loc'[Import].at = a /\ loc'[Import].merged = m
        /\ loc'[Import].placed = {} /\ loc'[Import].bound[c] = o
        /\ \A e \in Charges : e # c => loc'[Import].bound[e] = loc[Import].bound[e]
        /\ \A t \in Sessions : t # Import => loc'[t] = loc[t]
    BY <1>2, <1>3, <1>4 DEF TypeOK, Local
  <2>2. TypeOK'
    <3>1. [loc[Import] EXCEPT !.bound[c] = o, !.read = r, !.at = a, !.merged = m] \in Local
      <4>1. o \in {Untouched} \cup 0 .. Last + 1
        BY RecurringAssumption
      <4> HIDE DEF IInv
      <4> QED
        BY <1>3, <1>4, <4>1 DEF Local
    <3> QED
      BY <1>4, <3>1 DEF TypeOK
  <2>3. ClosedHoldsNothing'
    BY <1>2, <2>1 DEF ClosedHoldsNothing
  <2>4. LoadedTogether'
    BY <1>2, <1>4, <2>1 DEF LoadedTogether, Sessions
  <2>5. (RowsArePosted /\ OnlyDemotedAsks)'
    BY DEF RowsArePosted, OnlyDemotedAsks
  <2>6. RunsBindRows'
    BY <1>2, <2>1 DEF RunsBindRows, InWindow, Sessions
  <2>7. ImportBringsNew'
    <3>1. ASSUME NEW e \in m
          PROVE  ph[e] > 0 /\ \E d \in Charges : loc'[Import].bound[d] = e
      <4>1. CASE e \in loc[Import].merged
        <5>1. ph[e] > 0 /\ \E d \in Charges : loc[Import].bound[d] = e
          BY <4>1 DEF ImportBringsNew
        <5>2. e # Untouched
          BY <1>4 DEF Occurrences, Untouched
        <5> QED
          BY <1>2, <2>1, <5>1, <5>2
      <4>2. CASE e = o /\ ph[e] > 0
        BY <2>1, <4>2
      <4> QED
        BY <1>4, <4>1, <4>2
    <3>2. o # Last + 1
      BY <1>4, RecurringAssumption
    <3> QED
      BY <1>2, <2>1, <3>1, <3>2 DEF ImportBringsNew
  <2>8. WritesWhatItPasses'
    <3>1. ASSUME r # 0, NEW e \in Occurrences, r <= e, e < a
          PROVE  \E d \in Charges : loc'[Import].bound[d] = e
      <4>1. CASE e = o
        BY <2>1, <4>1
      <4>2. CASE e # o
        <5>1. loc[Import].read # 0 /\ loc[Import].read <= e /\ e < loc[Import].at
          BY <1>4, <3>1, <4>2
        <5>2. PICK d \in Charges : loc[Import].bound[d] = e
          BY <1>2, <1>3, <5>1 DEF WritesWhatItPasses
        <5>3. e # Untouched
          BY DEF Occurrences, Untouched
        <5> QED
          BY <1>2, <2>1, <5>2, <5>3
      <4> QED
        BY <4>1, <4>2
    <3> QED
      BY <1>2, <2>1, <3>1 DEF WritesWhatItPasses, Sessions
  <2>9. BeforeCursorsAccounted'
    <3>1. \A o1 \in Occurrences : Accounted(o1)' <=> Accounted(o1)
      BY DEF Accounted, HasRow
    <3>2. ~(\E o1 \in Occurrences : o1 < 0)
      BY DEF Occurrences
    <3> QED
      BY <1>2, <1>4, <2>1, <3>1, <3>2 DEF BeforeCursorsAccounted
  <2>10. PeopleBindAsked'
    BY <2>1, RecurringAssumption DEF PeopleBindAsked, Sessions, Import
  <2> QED
    BY <2>2, <2>3, <2>4, <2>5, <2>6, <2>7, <2>8, <2>9, <2>10
<1>5. /\ loc[Import].read \in 0 .. Last + 1 /\ loc[Import].at \in 0 .. Last + 1
      /\ loc[Import].merged \in SUBSET Occurrences
      /\ (loc[Import].read = 0 <=> loc[Import].at = 0)
      /\ cursor \in 1 .. Last + 1 /\ cursor # 0 /\ Last \in Nat
  BY <1>2, <1>3, RecurringAssumption DEF Local, LoadedTogether, TypeOK
<1>6. CASE Merge(c)
  <2>1. PICK o \in Placeholder(posted[c]) :
          loc' = [loc EXCEPT ![Import].bound[c] = o, ![Import].merged = @ \cup {o}]
    BY <1>6 DEF Merge
  <2>2. o \in Occurrences /\ ph[o] > 0 /\ o \in 0 .. Last
    BY RecurringAssumption DEF Placeholder, Standing, Placeholders, Occurrences
  <2>3. loc' = [loc EXCEPT ![Import] = [loc[Import] EXCEPT !.bound[c] = o,
                  !.read = loc[Import].read, !.at = loc[Import].at,
                  !.merged = loc[Import].merged \cup {o}]]
    BY <1>2, <1>3, <2>1 DEF TypeOK, Local
  <2> HIDE DEF IInv
  <2>4. loc[Import].merged \cup {o} \in SUBSET Occurrences
    BY <1>5, <2>2
  <2>5. \A e \in loc[Import].merged \cup {o} :
           e \in loc[Import].merged \/ (e = o /\ ph[e] > 0)
    BY <2>2
  <2> QED
    BY <1>4, <1>5, <2>2, <2>3, <2>4, <2>5
<1>7. CASE Link(c)
  <2> DEFINE a == AdvancePast(ImportAt, posted[c])
             r == IF loc[Import].read = 0 THEN cursor ELSE loc[Import].read
  <2>1. ImportAt \in Occurrences /\ InWindow(ImportAt, posted[c])
    BY <1>5, <1>7, RecurringAssumption DEF Link, Expected, ImportAt, Occurrences
  <2>2. a = ImportAt + 1
    BY <2>1, AdvanceByOne, PostedIsNat
  <2>3. a \in 0 .. Last + 1 /\ a # 0 /\ r \in 0 .. Last + 1 /\ r # 0
        /\ ImportAt \in 0 .. Last
    BY <1>5, <2>1, <2>2 DEF Occurrences
  <2>4. loc' = [loc EXCEPT ![Import] = [loc[Import] EXCEPT !.bound[c] = ImportAt,
                  !.read = r, !.at = a, !.merged = loc[Import].merged]]
    BY <1>2, <1>3, <1>7 DEF Link, TypeOK, Local
  <2>5. ASSUME NEW e \in Occurrences, r <= e, e < a
        PROVE  e = ImportAt \/ (/\ loc[Import].read # 0 /\ r = loc[Import].read
                                /\ e < loc[Import].at)
    <3>1. e <= ImportAt
      BY <2>1, <2>2, <2>5 DEF Occurrences
    <3>2. CASE loc[Import].read = 0
      BY <1>5, <2>5, <3>1, <3>2 DEF ImportAt, Occurrences
    <3>3. CASE loc[Import].read # 0
      BY <1>5, <3>1, <3>3 DEF ImportAt, Occurrences
    <3> QED
      BY <3>2, <3>3
  <2> HIDE DEF a, r, IInv
  <2>6. r = loc[Import].read \/ (loc[Import].read = 0 /\ r = cursor)
    BY DEF r
  <2> QED
    BY <1>4, <1>5, <2>3, <2>4, <2>5, <2>6
<1>8. CASE WriteUnlinked(c)
  <2> DEFINE a == IF active THEN ImportAt ELSE loc[Import].at
             r == IF loc[Import].read = 0 /\ active THEN cursor ELSE loc[Import].read
  <2>1. a \in 0 .. Last + 1 /\ r \in 0 .. Last + 1 /\ (r = 0 <=> a = 0) /\ 0 \in 0 .. Last
    BY <1>5 DEF ImportAt
  <2>2. loc' = [loc EXCEPT ![Import] = [loc[Import] EXCEPT !.bound[c] = 0,
                  !.read = r, !.at = a, !.merged = loc[Import].merged]]
    BY <1>2, <1>3, <1>8 DEF WriteUnlinked, TypeOK, Local
  <2>3. ASSUME NEW e \in Occurrences, r # 0, r <= e, e < a
        PROVE  loc[Import].read # 0 /\ r = loc[Import].read /\ e < loc[Import].at
    BY <1>5, <2>3 DEF ImportAt, Occurrences
  <2>4. r = loc[Import].read \/ (loc[Import].read = 0 /\ r = cursor)
    OBVIOUS
  <2> HIDE DEF a, r, IInv
  <2>5. r # 0 => \A e \in Occurrences : r <= e /\ e < a =>
           e = 0 \/ (/\ loc[Import].read # 0 /\ r = loc[Import].read
                     /\ e < loc[Import].at)
    BY <2>3
  <2>6. \A e \in loc[Import].merged : e \in loc[Import].merged \/ (e = 0 /\ ph[e] > 0)
    OBVIOUS
  <2>7. loc[Import].merged \in SUBSET Occurrences
    BY <1>5
  <2> QED
    BY <1>4, <2>1, <2>2, <2>4, <2>5, <2>6, <2>7
<1> QED
  BY <1>6, <1>7, <1>8 DEF Bring

(* An import commits its charges and, if it has moved it, the cursor.      *)
LEMMA CommitImportInvariant ==
    ASSUME IInv, CommitImport
    PROVE  IInv'
<1> USE DEF IInv
<1>1. Import \in Sessions /\ Import \notin Runs /\ Import \in open /\ loc[Import] \in Local
  BY RecurringAssumption DEF Sessions, Import, CommitImport, TypeOK
<1>2. /\ loc'[Import] = Empty /\ \A t \in Sessions \ {Import} : loc'[t] = loc[t]
      /\ loc' \in [Sessions -> Local] /\ open' \subseteq Sessions
      /\ late' \subseteq open' /\ overtaken' \in BOOLEAN
      /\ (ClosedHoldsNothing /\ LoadedTogether /\ WritesWhatItPasses)'
  BY <1>1, LeaveForgets DEF CommitImport
<1>3. /\ UNCHANGED <<today, rule, posted>>
      /\ ph' = [o \in Occurrences |-> IF o \in loc[Import].merged THEN ph[o] - 1 ELSE ph[o]]
      /\ rows' = rows \cup {c \in Charges : loc[Import].bound[c] # Untouched}
      /\ fulfils' = Fulfilled(Import)
      /\ asked' = asked \cup Doubtful
      /\ cursor' = IF loc[Import].at # loc[Import].read THEN loc[Import].at ELSE cursor
      /\ active' \in BOOLEAN
  BY DEF CommitImport
<1>4. \A c \in Charges : fulfils'[c] = IF loc[Import].bound[c] = Untouched THEN fulfils[c]
                                       ELSE loc[Import].bound[c]
  BY <1>3 DEF Fulfilled
<1>5. TypeOK'
  <2>1. ph' \in [Occurrences -> Nat]
    <3>1. \A o \in Occurrences : o \in loc[Import].merged => ph[o] > 0
      BY DEF ImportBringsNew
    <3> QED
      BY <1>3, <3>1 DEF TypeOK
  <2>2. fulfils' \in [Charges -> 0 .. Last + 1]
    <3>1. \A c \in Charges : loc[Import].bound[c] # Untouched => loc[Import].bound[c] \in 0 .. Last + 1
      BY <1>1, RecurringAssumption DEF Local
    <3> QED
      BY <1>3, <3>1 DEF TypeOK, Fulfilled
  <2>3. cursor' \in 1 .. Last + 1
    BY <1>1, <1>3, RecurringAssumption DEF TypeOK, LoadedTogether, Local
  <2>4. rows' \subseteq Charges
    BY <1>3 DEF TypeOK
  <2>5. asked' \subseteq rows'
    BY <1>3 DEF TypeOK, Doubtful, Untouched
  <2>6. freed' = freed /\ astray' \subseteq rows'
    <3>1. Untouched \notin loc[Import].merged
      BY <1>1 DEF Local, Occurrences, Untouched
    <3> QED
      BY <1>3, <3>1 DEF CommitImport, Stray, TypeOK
  <2> HIDE DEF CommitImport
  <2> QED
    BY <1>2, <1>3, <2>1, <2>2, <2>3, <2>4, <2>5, <2>6 DEF TypeOK
<1>6. RowsArePosted'
  BY <1>3 DEF RowsArePosted, ImportBringsNew
<1>7. OnlyDemotedAsks'
  <2>1. \A c \in asked : c \in Charges /\ fulfils'[c] = fulfils[c]
    BY <1>4 DEF ImportBringsNew, TypeOK
  <2>2. \A c \in Doubtful : rule = "suggest" /\ fulfils'[c] = 0
    BY <1>4 DEF Doubtful, Untouched
  <2> QED
    BY <1>3, <2>1, <2>2 DEF OnlyDemotedAsks
<1>8. RunsBindRows'
  <2>1. ASSUME NEW t \in Runs, NEW c \in Charges, loc[t].bound[c] # Untouched
        PROVE  fulfils'[c] = fulfils[c]
    BY <1>4, <2>1 DEF RunsBindRows, ImportBringsNew
  <2> QED
    BY <1>1, <1>2, <1>3, <2>1 DEF RunsBindRows, InWindow, Sessions
<1>9. ImportBringsNew'
  BY <1>2 DEF ImportBringsNew, Empty, Untouched
<1>10. BeforeCursorsAccounted'
  <2>1. \A o \in Occurrences : /\ Accounted(o) => Accounted(o)'
                               /\ o < loc[Import].at => Accounted(o)'
    <3> TAKE o \in Occurrences
    <3>1. ph'[o] = ph[o] \/ ph'[o] = ph[o] + 1 \/ (Import = Import /\ o \in loc[Import].merged)
      BY <1>3
    <3>2. o \in loc[Import].placed => ph'[o] = ph[o] + 1
      BY DEF ImportBringsNew
    <3> QED
      BY <1>1, <1>3, <3>1, <3>2, CommitAccounts DEF CommitImport
  <2>2. \A o \in Occurrences : o < cursor' => Accounted(o)'
    BY <1>3, <2>1 DEF BeforeCursorsAccounted
  <2>3. ASSUME NEW t \in Sessions, NEW o \in Occurrences, o < loc'[t].read
        PROVE  Accounted(o)'
    <3>1. t # Import
      BY <1>2, <2>3 DEF Empty, Occurrences
    <3> QED
      BY <1>2, <2>1, <2>3, <3>1 DEF BeforeCursorsAccounted
  <2> QED
    BY <2>2, <2>3 DEF BeforeCursorsAccounted
<1>11. PeopleBindAsked'
  BY <1>1, <1>3, PeopleGoOn DEF CommitImport
<1> QED
  BY <1>2, <1>5, <1>6, <1>7, <1>8, <1>9, <1>10, <1>11

(* A person accepts a suggestion: the charge is bound to the bill as it is *)
(* loaded, and nobody else answers it.                                     *)
LEMMA BeginAcceptInvariant ==
    ASSUME IInv, NEW s \in People, NEW c \in Charges, BeginAccept(s, c)
    PROVE  IInv'
<1> USE DEF IInv
<1>1. UNCHANGED <<today, rule, posted, book, history>> /\ open' = open \cup {s}
      /\ c \in asked /\ \A p \in People : loc[p].bound[c] = Untouched
  BY DEF BeginAccept, Answering
<1>2. s \in Sessions /\ s \notin Runs /\ s # Import /\ Import \in Sessions /\ loc[s] = Empty
      /\ s \notin open
  BY RecurringAssumption DEF Sessions, Import, ClosedHoldsNothing, BeginAccept
<1> DEFINE a == AdvancePast(cursor, posted[c])
           b == [e \in Charges |-> IF e = c THEN cursor ELSE Untouched]
           new == [Empty EXCEPT !.read = cursor, !.at = a, !.bound = b]
<1>3. a \in 1 .. Last + 1 /\ cursor \in 1 .. Last + 1
  BY AdvanceType, PostedIsNat DEF TypeOK
<1>4. loc' = [loc EXCEPT ![s] = new]
  <2>1. [Empty EXCEPT !.read = cursor, !.at = a, !.bound[c] = cursor] = new
    BY DEF Empty
  <2> QED
    BY <2>1 DEF BeginAccept
<1>5. new \in Local
  <2>1. b \in [Charges -> {Untouched} \cup 0 .. Last + 1]
    BY <1>3, RecurringAssumption
  <2>2. cursor \in 0 .. Last + 1 /\ a \in 0 .. Last + 1
    BY <1>3, RecurringAssumption
  <2> HIDE DEF a, b
  <2> QED
    BY <2>1, <2>2 DEF Empty, Local
<1> HIDE DEF a, b
<1>6. /\ loc'[s].read = cursor /\ loc'[s].at = a /\ loc'[s].bound = b
      /\ loc'[s].placed = {} /\ loc'[s].merged = {}
      /\ \A t \in Sessions \ {s} : loc'[t] = loc[t]
  BY <1>2, <1>4 DEF TypeOK, Empty
<1>7. b[c] = cursor /\ \A e \in Charges : e # c => b[e] = Untouched
  BY DEF b
<1>8. cursor # 0 /\ a # 0 /\ cursor # Untouched
  BY <1>3, RecurringAssumption DEF Untouched
<1> USE <1>1 DEF book, history
<1>9. TypeOK'
  <2>1. loc' \in [Sessions -> Local]
    BY <1>4, <1>5 DEF TypeOK
  <2> QED
    BY <1>2, <2>1 DEF TypeOK
<1>10. (ClosedHoldsNothing /\ LoadedTogether)'
  BY <1>2, <1>6, <1>8 DEF ClosedHoldsNothing, LoadedTogether, Sessions
<1>11. (RowsArePosted /\ OnlyDemotedAsks)'
  BY DEF RowsArePosted, OnlyDemotedAsks
<1>12. RunsBindRows' /\ ImportBringsNew' /\ WritesWhatItPasses'
  <2>1. \A t \in Runs \cup {Import} : loc'[t] = loc[t]
    BY <1>2, <1>6 DEF Sessions
  <2> QED
    BY <2>1 DEF RunsBindRows, ImportBringsNew, WritesWhatItPasses, InWindow
<1>13. PeopleBindAsked'
  <2>1. \A t \in People : t # s => loc'[t] = loc[t]
    BY <1>6 DEF Sessions
  <2>2. a = AdvancePast(cursor, posted[c])
    BY DEF a
  <2>3. ASSUME NEW t \in People, t # s, NEW e \in Charges, loc[t].bound[e] # Untouched
        PROVE  e # c
    BY <2>3
  <2> HIDE DEF IInv
  <2>4. PeopleBindAsked
    BY DEF IInv
  <2> QED
    BY <1>6, <1>7, <1>8, <2>1, <2>2, <2>3, <2>4 DEF PeopleBindAsked
<1>14. BeforeCursorsAccounted'
  BY <1>6 DEF BeforeCursorsAccounted, Accounted, HasRow
<1> QED
  BY <1>9, <1>10, <1>11, <1>12, <1>13, <1>14

(* The commit of an accept settles what it has passed by hand.             *)
LEMMA CommitAcceptInvariant ==
    ASSUME IInv, NEW s \in People, CommitAccept(s)
    PROVE  IInv'
<1> USE DEF IInv
<1>1. s \in Sessions /\ s \notin Runs /\ s # Import /\ Import \in Sessions /\ s \in open
      /\ loc[s] \in Local /\ loc[s].at \in 1 .. Last + 1 /\ loc[s].read \in 1 .. Last + 1
  <2>1. s \in Sessions /\ s \notin Runs /\ s # Import /\ Import \in Sessions /\ s \in open
    BY RecurringAssumption DEF Sessions, Import, CommitAccept
  <2>2. loc[s] \in Local /\ loc[s].read # 0 /\ loc[s].at # 0
    BY <2>1 DEF TypeOK, LoadedTogether
  <2> QED
    BY <2>1, <2>2, RecurringAssumption DEF Local
<1>2. /\ loc'[s] = Empty /\ \A t \in Sessions \ {s} : loc'[t] = loc[t]
      /\ loc' \in [Sessions -> Local] /\ open' \subseteq Sessions
      /\ late' \subseteq open' /\ overtaken' \in BOOLEAN
      /\ (ClosedHoldsNothing /\ LoadedTogether /\ WritesWhatItPasses)'
  BY <1>1, LeaveForgets DEF CommitAccept
<1>3. /\ UNCHANGED <<today, rule, posted, ph, rows, astray>>
      /\ asked' = {c \in asked : loc[s].bound[c] = Untouched}
      /\ fulfils' = Fulfilled(s)
      /\ cursor' = loc[s].at
      /\ active' \in BOOLEAN
      /\ freed' = freed \cup (loc[s].read .. loc[s].at - 1)
  BY DEF CommitAccept
<1>4. \A c \in Charges : fulfils'[c] = IF loc[s].bound[c] = Untouched THEN fulfils[c]
                                       ELSE loc[s].bound[c]
  BY <1>3 DEF Fulfilled
<1>5. \A c \in Charges : loc[s].bound[c] # Untouched => c \in asked /\ fulfils[c] = 0
  BY DEF PeopleBindAsked, OnlyDemotedAsks
<1>6. TypeOK'
  <2>1. fulfils' \in [Charges -> 0 .. Last + 1]
    <3>1. \A c \in Charges : loc[s].bound[c] # Untouched => loc[s].bound[c] \in 0 .. Last + 1
      BY <1>1 DEF Local
    <3> QED
      BY <1>3, <3>1 DEF TypeOK, Fulfilled
  <2>2. freed' \subseteq 1 .. Last + 1
    <3>1. loc[s].read .. loc[s].at - 1 \subseteq 1 .. Last + 1
      BY <1>1, PassedOccurrences
    <3> QED
      BY <1>3, <3>1 DEF TypeOK
  <2>3. asked' \subseteq rows'
    BY <1>3 DEF TypeOK
  <2> QED
    BY <1>1, <1>2, <1>3, <2>1, <2>2, <2>3 DEF TypeOK
<1>7. RowsArePosted' /\ OnlyDemotedAsks'
  <2>1. \A c \in asked' : c \in asked /\ c \in Charges /\ fulfils'[c] = fulfils[c]
    BY <1>3, <1>4 DEF TypeOK
  <2> QED
    BY <1>3, <2>1 DEF RowsArePosted, OnlyDemotedAsks
<1>8. RunsBindRows'
  <2>1. ASSUME NEW t \in Runs, NEW c \in Charges, loc[t].bound[c] # Untouched
        PROVE  fulfils'[c] = fulfils[c]
    BY <1>4, <1>5, <2>1 DEF RunsBindRows, OnlyDemotedAsks
  <2> QED
    BY <1>1, <1>2, <1>3, <2>1 DEF RunsBindRows, InWindow, Sessions
<1>9. ImportBringsNew'
  BY <1>1, <1>2, <1>3 DEF ImportBringsNew
<1>10. PeopleBindAsked'
  <2>1. \A c \in asked : c \in asked' \/ loc[s].bound[c] # Untouched
    BY <1>3
  <2>2. Leave(s) /\ posted' = posted
    BY DEF CommitAccept
  <2> HIDE DEF IInv
  <2> QED
    BY <1>1, <2>1, <2>2, PeopleGoOn
<1>11. ASSUME NEW o \in Occurrences
       PROVE  /\ Accounted(o) => Accounted(o)'
              /\ o < loc[s].at => Accounted(o)'
  <2>1. ASSUME Accounted(o) PROVE Accounted(o)'
    <3>1. CASE o \in freed \/ ph[o] > 0
      BY <1>3, <3>1 DEF Accounted, HasRow
    <3>2. ASSUME NEW e \in rows, fulfils[e] = o
          PROVE  Accounted(o)'
      <4>1. e \in Charges /\ fulfils[e] # 0
        BY <3>2 DEF TypeOK, Occurrences
      <4>2. fulfils'[e] = o
        BY <1>4, <1>5, <3>2, <4>1
      <4> QED
        BY <1>3, <3>2, <4>2 DEF Accounted, HasRow
    <3> QED
      BY <2>1, <3>1, <3>2 DEF Accounted, HasRow
  <2>2. ASSUME o < loc[s].at PROVE Accounted(o)'
    <3>1. CASE o < loc[s].read
      BY <1>1, <2>1, <3>1 DEF BeforeCursorsAccounted
    <3>2. CASE loc[s].read <= o
      <4>1. o \in loc[s].read .. loc[s].at - 1
        BY <1>1, <2>2, <3>2, RecurringAssumption DEF Occurrences
      <4> QED
        BY <1>3, <4>1 DEF Accounted
    <3> QED
      BY <1>1, <3>1, <3>2, RecurringAssumption DEF Occurrences
  <2> QED
    BY <2>1, <2>2
<1>12. BeforeCursorsAccounted'
  <2>1. ASSUME NEW t \in Sessions, NEW o \in Occurrences, o < loc'[t].read
        PROVE  Accounted(o)'
    <3>1. t # s
      BY <1>2, <2>1 DEF Empty, Occurrences
    <3> QED
      BY <1>2, <1>11, <2>1, <3>1 DEF BeforeCursorsAccounted
  <2> QED
    BY <1>3, <1>11, <2>1 DEF BeforeCursorsAccounted
<1> QED
  BY <1>2, <1>6, <1>7, <1>8, <1>9, <1>10, <1>12

(* A person refuses a suggestion, or takes a charge off the bill.          *)
LEMMA PersonInvariant ==
    ASSUME IInv, NEW c \in Charges, Decline(c) \/ Unlink(c)
    PROVE  IInv'
<1> USE DEF IInv
<1>1. UNCHANGED <<today, rule, posted, cursor, active, ph, rows, open, loc, overtaken, astray>>
  BY DEF Decline, Unlink, history
<1>2. \A e \in Charges : e # c => fulfils'[e] = fulfils[e]
  BY DEF Decline, Unlink, TypeOK
<1>3. TypeOK'
  <2>1. CASE Decline(c)
    BY <1>1, <2>1 DEF Decline, TypeOK, history
  <2>2. CASE Unlink(c)
    <3>1. fulfils[c] \in 1 .. Last + 1 /\ 0 \in 0 .. Last + 1
      BY <2>2, RecurringAssumption DEF Unlink, TypeOK
    <3> QED
      BY <1>1, <2>2, <3>1 DEF Unlink, TypeOK
  <2> QED
    BY <2>1, <2>2
<1>4. (ClosedHoldsNothing /\ LoadedTogether /\ RowsArePosted /\ WritesWhatItPasses
       /\ ImportBringsNew)'
  BY <1>1 DEF ClosedHoldsNothing, LoadedTogether, RowsArePosted, WritesWhatItPasses,
              ImportBringsNew
<1>5. OnlyDemotedAsks'
  <2>1. asked' \subseteq asked /\ (c \in asked' => fulfils'[c] = 0)
    BY DEF OnlyDemotedAsks, Decline, Unlink, TypeOK
  <2> QED
    BY <1>1, <1>2, <2>1 DEF OnlyDemotedAsks, TypeOK
<1>6. RunsBindRows'
  <2>1. ASSUME NEW t \in Runs, loc[t].bound[c] # Untouched
        PROVE  fulfils'[c] \in {0, loc[t].bound[c]}
    <3>1. fulfils[c] \in {0, loc[t].bound[c]}
      BY <2>1 DEF RunsBindRows
    <3>2. CASE Decline(c)
      BY <3>1, <3>2 DEF Decline
    <3>3. CASE Unlink(c)
      BY <3>3 DEF Unlink, TypeOK
    <3> QED
      BY <3>2, <3>3
  <2> QED
    BY <1>1, <1>2, <2>1 DEF RunsBindRows, InWindow
<1>7. PeopleBindAsked'
  <2>1. \A t \in People, e \in Charges : loc[t].bound[e] # Untouched => e \in asked'
    BY DEF PeopleBindAsked, Decline, Unlink, Answering
  <2> HIDE DEF IInv
  <2>2. PeopleBindAsked
    BY DEF IInv
  <2> QED
    BY <1>1, <2>1, <2>2 DEF PeopleBindAsked, AdvancePast
<1>8. \A o \in Occurrences : Accounted(o) => Accounted(o)'
  <2> SUFFICES ASSUME NEW o \in Occurrences, Accounted(o) PROVE Accounted(o)'
    OBVIOUS
  <2>1. freed \subseteq freed'
    BY DEF Decline, Unlink, history
  <2>2. CASE o \in freed \/ ph[o] > 0
    BY <1>1, <2>1, <2>2 DEF Accounted, HasRow
  <2>3. ASSUME NEW e \in rows, fulfils[e] = o
        PROVE  Accounted(o)'
    <3>1. e \in Charges
      BY DEF TypeOK
    <3>2. CASE e # c \/ Decline(c)
      BY <1>1, <1>2, <2>3, <3>1, <3>2 DEF Accounted, HasRow, Decline
    <3>3. CASE e = c /\ Unlink(c)
      BY <2>3, <3>3 DEF Accounted, Unlink
    <3> QED
      BY <3>2, <3>3
  <2> QED
    BY <2>2, <2>3 DEF Accounted, HasRow
<1>9. BeforeCursorsAccounted'
  BY <1>1, <1>8 DEF BeforeCursorsAccounted
<1> QED
  BY <1>3, <1>4, <1>5, <1>6, <1>7, <1>9

-----------------------------------------------------------------------------
LEMMA NextInvariant == IInv /\ [Next]_vars => IInv'
<1> SUFFICES ASSUME IInv, [Next]_vars PROVE IInv'
  OBVIOUS
<1>1. CASE Tick \/ \E c \in Charges : Post(c)
  BY <1>1, WorldInvariant
<1>2. CASE BeginImport \/ \E s \in Runs : BeginRun(s)
  BY <1>2, BeginInvariant
<1>3. ASSUME NEW s \in Runs, Materialize(s) \/ CommitRun(s)
      PROVE  IInv'
  BY <1>3, MaterializeInvariant, CommitRunInvariant
<1>4. ASSUME NEW c \in Charges, Bring(c) \/ Decline(c) \/ Unlink(c)
      PROVE  IInv'
  BY <1>4, BringInvariant, PersonInvariant
<1>5. CASE CommitImport
  BY <1>5, CommitImportInvariant
<1>6. CASE UNCHANGED vars
  BY <1>6 DEF vars, book, history, IInv, TypeOK, ClosedHoldsNothing, LoadedTogether,
     RowsArePosted, OnlyDemotedAsks, RunsBindRows, ImportBringsNew, PeopleBindAsked,
     WritesWhatItPasses, BeforeCursorsAccounted, Accounted, HasRow, InWindow, AdvancePast
<1>7. ASSUME NEW s \in People, CommitAccept(s) \/ \E c \in Charges : BeginAccept(s, c)
      PROVE  IInv'
  BY <1>7, BeginAcceptInvariant, CommitAcceptInvariant
<1> QED
  BY <1>1, <1>2, <1>3, <1>4, <1>5, <1>6, <1>7 DEF Next

(* The inductive invariant: in every state each cursor, the bill's and the *)
(* one each session has loaded, has only dealt-with occurrences before it. *)
THEOREM RecurringInvariant == Spec => []IInv
<1>1. Init => IInv
  BY InitInvariant
<1>2. IInv /\ [Next]_vars => IInv'
  BY NextInvariant
<1> QED
  BY <1>1, <1>2, PTL DEF Spec

(* The variables have their types; no placeholder is merged that is not    *)
(* there.                                                                  *)
THEOREM RecurringTypes == Spec => []TypeOK
<1>1. IInv => TypeOK
  BY DEF IInv
<1> QED
  BY <1>1, RecurringInvariant, PTL

(* Whatever sessions overlap, generate_pending, a sync or an import moves  *)
(* the cursor past no occurrence that has no row.                          *)
THEOREM NoOccurrenceIsSkipped == Spec => NothingIsSkipped
<1>1. IInv' => [\A o \in Occurrences : cursor <= o /\ o < cursor' =>
                  HasRow(o)' \/ o \in freed']_vars
  BY DEF IInv, BeforeCursorsAccounted, Accounted
<1> QED
  BY <1>1, RecurringInvariant, PTL DEF NothingIsSkipped
=============================================================================
