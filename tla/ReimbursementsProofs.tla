------------------------ MODULE ReimbursementsProofs ------------------------
(***************************************************************************)
(* Proofs about Reimbursements, for any rows, any amounts and any number   *)
(* of sessions and syncs.  What a sum of links is stays out of them: that  *)
(* a linked row is neither split nor paired, and in which order rows are   *)
(* waited for, depends on which links there are and who has which lock.    *)
(* ReimbursementAmountsProofs adds the sums.                               *)
(***************************************************************************)
EXTENDS Reimbursements, TLAPS, FiniteSetTheorems

(* A record of a job's fields.                                             *)
IsJob(j) == DOMAIN j = {"kind", "at", "row", "other", "want", "amt", "seen", "couples"}

(* The parts of the state the argument rests on are where they belong.     *)
Shape ==
    /\ job = [s \in Sessions |-> job[s]]
    /\ \A s \in Sessions : IsJob(job[s])
    /\ held \in [Sessions -> SUBSET Rows]
    /\ todo \in [Sessions -> SUBSET Rows]
    /\ pend = [s \in Sessions |-> pend[s]]
    /\ \A s \in Sessions :
          /\ DOMAIN pend[s] = {"amount", "link", "was", "pair"}
          /\ DOMAIN pend[s].link \subseteq Links
          /\ DOMAIN pend[s].was = DOMAIN pend[s].link
    /\ link = [l \in Links |-> link[l]]
    /\ pair = [r \in Rows |-> pair[r]]
    /\ \A r \in Rows : pair[r] # {} => r \in pair[r]

(* A row lock has one holder.                                              *)
LocksExclusive == \A s, t \in Sessions : s # t => held[s] \cap held[t] = {}

(* A session between two requests has nothing.                             *)
IdleHasNothing ==
    \A s \in Sessions :
        job[s] = NoJob => held[s] = {} /\ todo[s] = {} /\ pend[s] = NoWrites

(* lock_rows takes its rows in the order of their ids.                     *)
LocksAscend ==
    \A s \in Sessions : Ordered(s) => \A p \in held[s], q \in todo[s] : p < q

(* The rows of some couples.                                               *)
EndsOf(L) == UNION {Ends(l) : l \in L}

(* The rows a job is going to look at are among those it locks.            *)
Claim(j, R) ==
    /\ j.kind \in {"link", "accept"} => {j.row, j.other} \subseteq R
    /\ j.kind = "split" => j.seen \subseteq R
    /\ j.kind = "replace" /\ j.at = "lock" => {j.row} \cup Asks(j.want) \subseteq R
    /\ j.kind = "sync" /\ j.at \in {"take", "unpair"} => j.row \in R
    /\ j.kind = "sync" /\ j.at = "pairing" =>
          j.couples \subseteq Links /\ EndsOf(j.couples) \subseteq R

ClaimsLocked == \A s \in Sessions : Claim(job[s], held[s] \cup todo[s])

(* A link about to be made.                                                *)
Grows(s, l) == l \in DOMAIN pend[s].link /\ pend[s].link[l] > 0 /\ ~(pend[s].was[l] > 0)

(* Its ends are locked and stand alone.                                    *)
NewLinksStandAlone ==
    \A s \in Sessions, l \in Links :
        Grows(s, l) => \A r \in Ends(l) : r \in held[s] /\ ~Apart(r)

(* The writes w of a session that holds R pair rows of R that are not      *)
(* linked with each other.                                                 *)
PairsSoundly(w, R) ==
    \A r \in DOMAIN w.pair :
        /\ r \in R
        /\ w.pair[r] \subseteq DOMAIN w.pair
        /\ w.pair[r] # {} => r \in w.pair[r] /\ ~Linked(Over(w.link, link), r)

NewPairsStandAlone == \A s \in Sessions : PairsSoundly(pend[s], held[s])

(* Only a sync writes pairs it has not committed.                          *)
SyncsPair == \A s \in Sessions : job[s].kind # "sync" => DOMAIN pend[s].pair = {}

(* The inductive invariant.  That no link is made on a row that gets       *)
(* paired needs to know what either session has written and not committed, *)
(* and that both have locked the rows for it.                              *)
IInv ==
    /\ Shape
    /\ LocksExclusive
    /\ IdleHasNothing
    /\ LocksAscend
    /\ ClaimsLocked
    /\ NewLinksStandAlone
    /\ NewPairsStandAlone
    /\ SyncsPair
    /\ StandsAlone

-----------------------------------------------------------------------------
(* Facts about the helpers                                                 *)

(* Ids are numbers. *)
LEMMA RowsAreNumbers == Rows \subseteq Nat \ {0}
  BY ReimbursementAssumption DEF Rows

(* The ends of a link are rows. *)
LEMMA EndsAreRows == \A l \in Links : Ends(l) \subseteq Rows
  BY DEF Links, Ends, Rows

(* No job has a job's fields. *)
LEMMA NoJobType == IsJob(NoJob)
  BY DEF NoJob, IsJob

(* Having written nothing pairs nothing and makes no link. *)
LEMMA NothingWritten ==
    /\ DOMAIN NoWrites = {"amount", "link", "was", "pair"}
    /\ DOMAIN NoWrites.link = {}
    /\ DOMAIN NoWrites.was = {}
    /\ DOMAIN NoWrites.pair = {}
  BY DEF NoWrites

(* Fitting makes no link. *)
LEMMA FittingMakesNoLink ==
    ASSUME NEW lk, NEW r, NEW c, NEW l \in Links, Fitted(lk, r, c)[l] > 0
    PROVE  lk[l] > 0
  BY DEF Fitted

(* Writing whole pairs, or none, on the rows of W completes no pair on a   *)
(* row outside W.                                                          *)
LEMMA NoPairOutside ==
    ASSUME NEW f, NEW g, NEW W, NEW r \in Rows, r \notin W,
           \A o \in Rows : f[o] # {} => o \in f[o],
           \A o \in Rows : g[o] = f[o] \/ (o \in W /\ g[o] \subseteq W),
           ValidPair(g, r)
    PROVE  ValidPair(f, r)
  BY DEF ValidPair

-----------------------------------------------------------------------------
(* The initial states                                                      *)

(* Nobody has begun anything, and nothing is apart. *)
LEMMA InitIInv == Init => IInv
  <1> SUFFICES ASSUME Init PROVE IInv
    OBVIOUS
  <1>1. Shape
    BY NoJobType, NothingWritten DEF Init, Shape
  <1>2. LocksExclusive /\ IdleHasNothing /\ LocksAscend /\ SyncsPair
    BY NothingWritten DEF Init, LocksExclusive, IdleHasNothing, LocksAscend, SyncsPair
  <1>3. ClaimsLocked
    BY DEF Init, ClaimsLocked, Claim, NoJob
  <1>4. NewLinksStandAlone /\ NewPairsStandAlone
    BY NothingWritten DEF Init, NewLinksStandAlone, Grows, NewPairsStandAlone, PairsSoundly
  <1>5. StandsAlone
    BY DEF Init, StandsAlone, Apart, ValidPair
  <1> QED
    BY <1>1, <1>2, <1>3, <1>4, <1>5 DEF IInv

-----------------------------------------------------------------------------
(* Beginning, locking and ending                                           *)

(* Who begins claims rows it has yet to lock, and has written nothing. *)
LEMMA BeginKeeps ==
    ASSUME IInv, NEW s \in Sessions, NEW j, IsJob(j), NEW rows \in SUBSET Rows,
           Begin(s, j, rows), Claim(j, rows)
    PROVE  IInv'
  <1>1. job[s] = NoJob /\ held[s] = {} /\ pend[s] = NoWrites
    BY DEF IInv, IdleHasNothing, Begin
  <1>2. /\ job' = [job EXCEPT ![s] = j]
        /\ todo' = [todo EXCEPT ![s] = rows]
        /\ UNCHANGED <<amount, split, pair, link, held, pend>>
    BY DEF Begin, tables
  <1>3. j # NoJob
    BY ReimbursementAssumption DEF Begin, NoJob, Requests
  <1>4. Shape'
    BY <1>2 DEF IInv, Shape
  <1>5. LocksExclusive' /\ NewLinksStandAlone' /\ NewPairsStandAlone' /\ StandsAlone'
    BY <1>2 DEF IInv, LocksExclusive, NewLinksStandAlone, Grows, NewPairsStandAlone, PairsSoundly,
                StandsAlone, Apart, ValidPair, Linked, Over
  <1>6. IdleHasNothing' /\ LocksAscend'
    BY <1>1, <1>2, <1>3 DEF IInv, Shape, IdleHasNothing, LocksAscend, Ordered
  <1>7. ClaimsLocked'
    BY <1>1, <1>2 DEF IInv, Shape, ClaimsLocked, Claim
  <1>8. SyncsPair'
    BY <1>1, <1>2, NothingWritten DEF IInv, Shape, SyncsPair
  <1> QED
    BY <1>4, <1>5, <1>6, <1>7, <1>8 DEF IInv

(* Who ends keeps no lock and nothing written: whatever it did to the      *)
(* tables, its own part of the invariant is there again, and so is that of *)
(* the others if no row of theirs gets apart or, where they pair it,       *)
(* linked, and none is both.                                               *)
LEMMA EndKeeps ==
    ASSUME IInv, NEW s \in Sessions, End(s),
           link' = [l \in Links |-> link'[l]],
           pair' = [r \in Rows |-> pair'[r]],
           \A r \in Rows : pair'[r] # {} => r \in pair'[r],
           \A t \in Sessions \ {s} : \A l \in Links :
               Grows(t, l) => \A r \in Ends(l) : ~Apart(r)',
           \A t \in Sessions \ {s} : \A r \in DOMAIN pend[t].pair :
               pend[t].pair[r] # {} => ~Linked(Over(pend[t].link, link'), r),
           StandsAlone'
    PROVE  IInv'
  <1>1. /\ job' = [job EXCEPT ![s] = NoJob]
        /\ held' = [held EXCEPT ![s] = {}]
        /\ todo' = [todo EXCEPT ![s] = {}]
        /\ pend' = [pend EXCEPT ![s] = NoWrites]
    BY DEF End
  <1>2. Shape'
    BY <1>1, NoJobType, NothingWritten DEF IInv, Shape
  <1>3. /\ pend'[s] = NoWrites /\ held'[s] = {} /\ todo'[s] = {} /\ job'[s] = NoJob
        /\ \A t \in Sessions \ {s} : /\ pend'[t] = pend[t] /\ held'[t] = held[t]
                                      /\ todo'[t] = todo[t] /\ job'[t] = job[t]
    BY <1>1 DEF IInv, Shape
  <1>4. LocksExclusive' /\ IdleHasNothing' /\ LocksAscend'
    BY <1>3 DEF IInv, LocksExclusive, IdleHasNothing, LocksAscend, Ordered
  <1>5. ClaimsLocked'
    BY <1>3 DEF IInv, ClaimsLocked, Claim, NoJob
  <1>6. NewLinksStandAlone'
    BY <1>3, NothingWritten DEF IInv, NewLinksStandAlone, Grows
  <1>7. NewPairsStandAlone'
    BY <1>3, NothingWritten DEF IInv, NewPairsStandAlone, PairsSoundly
  <1>8. SyncsPair'
    BY <1>3, NothingWritten DEF IInv, SyncsPair
  <1> QED
    BY <1>2, <1>4, <1>5, <1>6, <1>7, <1>8 DEF IInv

(* A request that fails, for whatever reason, changes no table. *)
LEMMA FailKeeps ==
    ASSUME IInv, NEW s \in Sessions, Fail(s)
    PROVE  IInv'
  <1>1. End(s) /\ UNCHANGED <<amount, split, pair, link>>
    BY DEF Fail, tables
  <1> QED
    BY <1>1, EndKeeps DEF IInv, Shape, NewLinksStandAlone, NewPairsStandAlone, PairsSoundly,
                          StandsAlone, Apart, ValidPair, Linked, Grows

-----------------------------------------------------------------------------
(* The requests of one statement                                           *)

(* Removing a link makes none. *)
LEMMA DeleteKeeps ==
    ASSUME IInv, NEW l \in Links, DeleteReimbursement(l)
    PROVE  IInv'
  <1>1. /\ link' = [link EXCEPT ![l] = 0]
        /\ UNCHANGED <<amount, split, pair, job, held, todo, pend>>
    BY DEF DeleteReimbursement
  <1>2. \A k \in Links : link'[k] > 0 => link[k] > 0
    BY <1>1 DEF IInv, Shape
  <1>3. Shape'
    BY <1>1 DEF IInv, Shape
  <1>4. /\ LocksExclusive' /\ IdleHasNothing' /\ LocksAscend' /\ ClaimsLocked'
        /\ NewLinksStandAlone' /\ SyncsPair'
    BY <1>1 DEF IInv, LocksExclusive, IdleHasNothing, LocksAscend, Ordered, ClaimsLocked, Claim,
                NewLinksStandAlone, Grows, SyncsPair, Apart, ValidPair
  <1>5. NewPairsStandAlone'
    <2> SUFFICES ASSUME NEW s \in Sessions, NEW r \in DOMAIN pend[s].pair, pend[s].pair[r] # {},
                        Linked(Over(pend[s].link, link'), r)
                 PROVE  Linked(Over(pend[s].link, link), r)
      BY <1>1 DEF IInv, NewPairsStandAlone, PairsSoundly
    <2> QED
      BY <1>2, <1>3 DEF IInv, Shape, Linked, Over, LinksOf
  <1>6. StandsAlone'
    BY <1>1, <1>2 DEF IInv, StandsAlone, Linked, LinksOf, Apart, ValidPair
  <1> QED
    BY <1>3, <1>4, <1>5, <1>6 DEF IInv

(* With fewer splits no more rows are apart. *)
LEMMA ClearSplitsKeeps ==
    ASSUME IInv, NEW r \in Rows, ClearSplits(r)
    PROVE  IInv'
  <1>1. /\ split' = split \ {r}
        /\ UNCHANGED <<amount, pair, link, job, held, todo, pend>>
    BY DEF ClearSplits
  <1>2. \A q \in Rows : Apart(q)' => Apart(q)
    BY <1>1 DEF Apart, ValidPair
  <1>3. Shape' /\ LocksExclusive' /\ IdleHasNothing' /\ LocksAscend' /\ ClaimsLocked'
    BY <1>1 DEF IInv, Shape, LocksExclusive, IdleHasNothing, LocksAscend, Ordered, ClaimsLocked, Claim
  <1>4. NewLinksStandAlone'
    BY <1>1, <1>2, EndsAreRows DEF IInv, NewLinksStandAlone, Grows
  <1>5. NewPairsStandAlone' /\ SyncsPair'
    BY <1>1 DEF IInv, NewPairsStandAlone, PairsSoundly, SyncsPair, Linked, Over
  <1>6. StandsAlone'
    BY <1>1, <1>2 DEF IInv, StandsAlone, Linked
  <1> QED
    BY <1>3, <1>4, <1>5, <1>6 DEF IInv

(* A step that changes nothing the invariant speaks of. *)
LEMMA ElsewhereKeeps ==
    ASSUME IInv, UNCHANGED <<amount, split, pair, link, job, held, todo, pend>>
    PROVE  IInv'
  <1>1. Shape' /\ LocksExclusive' /\ IdleHasNothing' /\ LocksAscend' /\ ClaimsLocked'
    BY DEF IInv, Shape, LocksExclusive, IdleHasNothing, LocksAscend, Ordered, ClaimsLocked, Claim
  <1>2. NewLinksStandAlone' /\ NewPairsStandAlone' /\ SyncsPair' /\ StandsAlone'
    BY DEF IInv, NewLinksStandAlone, Grows, NewPairsStandAlone, PairsSoundly, SyncsPair,
           StandsAlone, Apart, ValidPair, Linked, Over
  <1> QED
    BY <1>1, <1>2 DEF IInv

-----------------------------------------------------------------------------
(* The commits of requests that pair, unpair and split                     *)

(* Pairing two locked rows that are not linked. *)
LEMMA MakePairKeeps ==
    ASSUME IInv, NEW s \in Sessions, NEW m, NEW o, {m, o} \subseteq held[s],
           \A r \in {m, o} : ~Linked(link, r), MakePair(m, o), End(s),
           UNCHANGED <<split, link>>
    PROVE  IInv'
  <1>1. pair' = [r \in Rows |-> IF r \in {m, o} THEN {m, o} ELSE pair[r]]
    BY DEF MakePair
  <1>2. \A r \in Rows \ {m, o} : Apart(r)' => Apart(r)
    <2> SUFFICES ASSUME NEW r \in Rows \ {m, o}, ValidPair(pair', r)
                 PROVE  ValidPair(pair, r)
      BY DEF Apart
    <2> QED
      BY <1>1, NoPairOutside DEF IInv, Shape
  <1>3. \A t \in Sessions \ {s} : \A l \in Links :
            Grows(t, l) => \A r \in Ends(l) : ~Apart(r)'
    BY <1>2, EndsAreRows DEF IInv, NewLinksStandAlone, LocksExclusive
  <1>4. \A t \in Sessions \ {s} : \A r \in DOMAIN pend[t].pair :
            pend[t].pair[r] # {} => ~Linked(Over(pend[t].link, link'), r)
    BY DEF IInv, NewPairsStandAlone, PairsSoundly
  <1>5. StandsAlone'
    BY <1>2 DEF IInv, StandsAlone, Linked
  <1>6. /\ link' = [l \in Links |-> link'[l]]
        /\ pair' = [r \in Rows |-> pair'[r]]
        /\ \A r \in Rows : pair'[r] # {} => r \in pair'[r]
    BY <1>1 DEF IInv, Shape
  <1> QED
    BY <1>3, <1>4, <1>5, <1>6, EndKeeps

(* link_existing_as_transfer pairs rows it found unlinked under their locks. *)
LEMMA LinkKeeps ==
    ASSUME IInv, NEW s \in Sessions, Link(s) \/ Accept(s)
    PROVE  IInv'
  <1>1. {job[s].row, job[s].other} \subseteq held[s]
    BY DEF IInv, ClaimsLocked, Claim, Link, Accept, At
  <1> QED
    BY <1>1, MakePairKeeps DEF Link, Accept

(* Taking a transfer apart. *)
LEMMA UnpairKeeps ==
    ASSUME IInv, NEW s \in Sessions, Unpair(s)
    PROVE  IInv'
  <1>1. /\ pair' = [r \in Rows |-> IF r \in held[s] THEN {} ELSE pair[r]]
        /\ End(s) /\ UNCHANGED <<split, link>>
    BY DEF Unpair
  <1>2. \A r \in Rows : Apart(r)' => Apart(r)
    BY <1>1 DEF Apart, ValidPair
  <1>3. \A t \in Sessions \ {s} : \A l \in Links :
            Grows(t, l) => \A r \in Ends(l) : ~Apart(r)'
    BY <1>2, EndsAreRows DEF IInv, NewLinksStandAlone
  <1>4. \A t \in Sessions \ {s} : \A r \in DOMAIN pend[t].pair :
            pend[t].pair[r] # {} => ~Linked(Over(pend[t].link, link'), r)
    BY <1>1 DEF IInv, NewPairsStandAlone, PairsSoundly
  <1>5. StandsAlone'
    BY <1>1, <1>2 DEF IInv, StandsAlone, Linked
  <1>6. /\ link' = [l \in Links |-> link'[l]]
        /\ pair' = [r \in Rows |-> pair'[r]]
        /\ \A r \in Rows : pair'[r] # {} => r \in pair'[r]
    BY <1>1 DEF IInv, Shape
  <1> QED
    BY <1>1, <1>3, <1>4, <1>5, <1>6, EndKeeps

(* Splitting locked rows that are not linked. *)
LEMMA SplitKeeps ==
    ASSUME IInv, NEW s \in Sessions, Split(s)
    PROVE  IInv'
  <1> DEFINE new == {r \in job[s].seen : ~Linked(link, r)}
  <1>1. split' = split \cup new /\ End(s) /\ UNCHANGED <<pair, link>>
    BY DEF Split
  <1>2. new \subseteq held[s] /\ \A r \in new : ~Linked(link, r)
    BY DEF IInv, ClaimsLocked, Claim, Split, At
  <1> HIDE DEF new
  <1>3. \A r \in Rows : Apart(r)' => Apart(r) \/ r \in new
    BY <1>1 DEF Apart, ValidPair
  <1>4. \A t \in Sessions \ {s} : \A l \in Links :
            Grows(t, l) => \A r \in Ends(l) : ~Apart(r)'
    BY <1>2, <1>3, EndsAreRows DEF IInv, NewLinksStandAlone, LocksExclusive
  <1>5. \A t \in Sessions \ {s} : \A r \in DOMAIN pend[t].pair :
            pend[t].pair[r] # {} => ~Linked(Over(pend[t].link, link'), r)
    BY <1>1 DEF IInv, NewPairsStandAlone, PairsSoundly
  <1>6. StandsAlone'
    BY <1>1, <1>2, <1>3 DEF IInv, StandsAlone, Linked
  <1>7. /\ link' = [l \in Links |-> link'[l]]
        /\ pair' = [r \in Rows |-> pair'[r]]
        /\ \A r \in Rows : pair'[r] # {} => r \in pair'[r]
    BY <1>1 DEF IInv, Shape
  <1> QED
    BY <1>1, <1>4, <1>5, <1>6, <1>7, EndKeeps

-----------------------------------------------------------------------------
(* The commit of a replace, an edit or a sync                              *)

(* A commit links what was linked, or what the session was to link. *)
LEMMA CommitLinks ==
    ASSUME IInv, NEW s \in Sessions, ~Missed(s), NEW l \in Links,
           Over(pend[s].link, link)[l] > 0
    PROVE  link[l] > 0 \/ Grows(s, l)
  <1>1. CASE l \in DOMAIN pend[s].link
    BY <1>1 DEF IInv, Shape, Over, Missed, Grows
  <1>2. CASE l \notin DOMAIN pend[s].link
    BY <1>2 DEF IInv, Shape, Over
  <1> QED
    BY <1>1, <1>2

(* What is committed was sound to write, and the locks kept it sound. *)
LEMMA CommitKeeps ==
    ASSUME IInv, NEW s \in Sessions, Commit(s)
    PROVE  IInv'
  <1> DEFINE W == DOMAIN pend[s].pair
  <1>1. /\ link' = Over(pend[s].link, link)
        /\ pair' = Over(pend[s].pair, pair)
        /\ ~Missed(s) /\ End(s) /\ UNCHANGED split
    BY DEF Commit
  <1>2. \A l \in Links : link'[l] > 0 => link[l] > 0 \/ Grows(s, l)
    BY <1>1, CommitLinks
  <1>3. /\ \A r \in W : r \in held[s] /\ pend[s].pair[r] \subseteq W
        /\ \A r \in W : pend[s].pair[r] # {} =>
                          r \in pend[s].pair[r] /\ ~Linked(link', r)
    BY <1>1 DEF IInv, NewPairsStandAlone, PairsSoundly
  <1>4. \A r \in Rows : pair'[r] = IF r \in W THEN pend[s].pair[r] ELSE pair[r]
    BY <1>1 DEF IInv, Shape, Over
  <1>5. /\ link' = [l \in Links |-> link'[l]]
        /\ pair' = [r \in Rows |-> pair'[r]]
        /\ \A r \in Rows : pair'[r] # {} => r \in pair'[r]
    BY <1>1, <1>3, <1>4 DEF IInv, Shape, Over
  <1>6. \A r \in Rows \ W : Apart(r)' => Apart(r)
    <2> SUFFICES ASSUME NEW r \in Rows \ W, ValidPair(pair', r)
                 PROVE  ValidPair(pair, r)
      BY <1>1 DEF Apart
    <2>1. \A o \in Rows : pair'[o] = pair[o] \/ (o \in W /\ pair'[o] \subseteq W)
      BY <1>3, <1>4
    <2>2. \A o \in Rows : pair[o] # {} => o \in pair[o]
      BY DEF IInv, Shape
    <2> QED
      BY <2>1, <2>2, NoPairOutside
  <1>7. \A r \in Rows : Apart(r)' /\ Linked(link', r) => Apart(r)
    <2> SUFFICES ASSUME NEW r \in W, r \in Rows, Apart(r)', Linked(link', r)
                 PROVE  Apart(r)
      BY <1>6
    <2>1. pair'[r] = {}
      BY <1>3, <1>4
    <2> QED
      BY <1>1, <2>1 DEF Apart, ValidPair
  <1>8. \A t \in Sessions \ {s} : \A l \in Links :
            Grows(t, l) => \A r \in Ends(l) : ~Apart(r)'
    BY <1>3, <1>6, EndsAreRows DEF IInv, NewLinksStandAlone, LocksExclusive
  <1>9. \A t \in Sessions \ {s} : \A r \in DOMAIN pend[t].pair :
            pend[t].pair[r] # {} => ~Linked(Over(pend[t].link, link'), r)
    <2> SUFFICES ASSUME NEW t \in Sessions \ {s}, NEW r \in DOMAIN pend[t].pair,
                        pend[t].pair[r] # {},
                        NEW l \in LinksOf(r), Over(pend[t].link, link')[l] > 0
                 PROVE  FALSE
      BY DEF Linked
    <2>1. l \in Links /\ r \in Ends(l)
      BY DEF LinksOf
    <2>2. r \in held[t] /\ ~(Over(pend[t].link, link)[l] > 0)
      BY DEF IInv, NewPairsStandAlone, PairsSoundly, Linked
    <2>3. ~Grows(s, l)
      BY <2>1, <2>2 DEF IInv, NewLinksStandAlone, LocksExclusive
    <2>4. ~(link[l] > 0) \/ l \in DOMAIN pend[t].link
      BY <2>1, <2>2 DEF IInv, Shape, Over
    <2> QED
      BY <1>2, <1>5, <2>1, <2>2, <2>3, <2>4 DEF IInv, Shape, Over
  <1>10. StandsAlone'
    <2> SUFFICES ASSUME NEW r \in Rows, NEW l \in LinksOf(r), link'[l] > 0, Apart(r)'
                 PROVE  FALSE
      BY DEF StandsAlone, Linked
    <2>1. l \in Links /\ r \in Ends(l) /\ Apart(r)
      BY <1>7 DEF LinksOf, Linked
    <2>2. CASE link[l] > 0
      BY <2>1, <2>2 DEF IInv, StandsAlone, Linked
    <2>3. CASE Grows(s, l)
      BY <2>1, <2>3 DEF IInv, NewLinksStandAlone
    <2> QED
      BY <1>2, <2>1, <2>2, <2>3
  <1> QED
    BY <1>1, <1>5, <1>8, <1>9, <1>10, EndKeeps

-----------------------------------------------------------------------------
(* The steps of a session between its beginning and its commit             *)

(* A lock goes from the rows to lock to the rows locked. *)
LEMMA LockNextKeeps ==
    ASSUME IInv, NEW s \in Sessions, LockNext(s)
    PROVE  IInv'
  <1> PICK r \in todo[s] :
          /\ \A q \in todo[s] : r <= q
          /\ Free(s, r)
          /\ held' = [held EXCEPT ![s] = @ \cup {r}]
          /\ todo' = [todo EXCEPT ![s] = @ \ {r}]
    BY DEF LockNext
  <1>1. UNCHANGED <<split, pair, link, job, pend>>
    BY DEF LockNext, tables
  <1>2. /\ held'[s] = held[s] \cup {r} /\ todo'[s] = todo[s] \ {r}
        /\ \A t \in Sessions \ {s} : held'[t] = held[t] /\ todo'[t] = todo[t]
    BY DEF IInv, Shape
  <1>3. Shape'
    BY <1>1 DEF IInv, Shape
  <1>4. LocksExclusive'
    BY <1>2 DEF IInv, LocksExclusive, Free
  <1>5. IdleHasNothing'
    BY <1>1, <1>2 DEF IInv, IdleHasNothing
  <1>6. LocksAscend'
    <2> SUFFICES ASSUME NEW t \in Sessions, Ordered(t), NEW p \in held'[t], NEW q \in todo'[t]
                 PROVE  p < q
      BY <1>1 DEF LocksAscend, Ordered
    <2>1. p \in Nat /\ q \in Nat
      BY <1>3, RowsAreNumbers DEF Shape
    <2>2. CASE t = s /\ p = r
      BY <1>2, <2>1, <2>2
    <2>3. CASE ~(t = s /\ p = r)
      BY <1>2, <2>3 DEF IInv, LocksAscend
    <2> QED
      BY <2>2, <2>3
  <1>7. ClaimsLocked'
    BY <1>1, <1>2 DEF IInv, ClaimsLocked, Claim
  <1>8. NewLinksStandAlone' /\ SyncsPair' /\ StandsAlone'
    BY <1>1, <1>2 DEF IInv, NewLinksStandAlone, Grows, SyncsPair, StandsAlone, Apart, ValidPair, Linked
  <1>9. NewPairsStandAlone'
    BY <1>1, <1>2 DEF IInv, NewPairsStandAlone, PairsSoundly, Linked, Over
  <1> QED
    BY <1>3, <1>4, <1>5, <1>6, <1>7, <1>8, <1>9 DEF IInv

(* Writes that a session may have under the locks it has.                  *)
SoundWrites(s, w) ==
    /\ DOMAIN w = {"amount", "link", "was", "pair"}
    /\ DOMAIN w.link \subseteq Links
    /\ DOMAIN w.was = DOMAIN w.link
    /\ \A l \in DOMAIN w.link :
          w.link[l] > 0 /\ ~(w.was[l] > 0) => \A r \in Ends(l) : r \in held[s] /\ ~Apart(r)
    /\ PairsSoundly(w, held[s])

(* A session goes on to job j, with the rows R to lock and the writes w,   *)
(* under the locks it has.                                                 *)
LEMMA StepKeeps ==
    ASSUME IInv, NEW s \in Sessions, NEW j, IsJob(j), NEW R \in SUBSET Rows, NEW w,
           job' = [job EXCEPT ![s] = j],
           todo' = [todo EXCEPT ![s] = R],
           pend' = [pend EXCEPT ![s] = w],
           UNCHANGED <<split, pair, link, held>>,
           j # NoJob, j.kind = job[s].kind,
           R # {} => j.kind \in {"edit", "sync"},
           Claim(j, held[s] \cup R),
           SoundWrites(s, w),
           j.kind # "sync" => DOMAIN w.pair = {}
    PROVE  IInv'
  <1>1. /\ pend'[s] = w /\ todo'[s] = R /\ job'[s] = j
        /\ \A t \in Sessions \ {s} : pend'[t] = pend[t] /\ todo'[t] = todo[t] /\ job'[t] = job[t]
    BY DEF IInv, Shape
  <1>2. Shape'
    BY <1>1 DEF IInv, Shape, SoundWrites
  <1>3. LocksExclusive' /\ IdleHasNothing'
    BY <1>1 DEF IInv, LocksExclusive, IdleHasNothing
  <1>4. LocksAscend'
    BY <1>1 DEF IInv, LocksAscend, Ordered
  <1>5. ClaimsLocked'
    BY <1>1 DEF IInv, ClaimsLocked, Claim
  <1>6. NewLinksStandAlone'
    BY <1>1 DEF IInv, NewLinksStandAlone, Grows, Apart, ValidPair, SoundWrites
  <1>7. NewPairsStandAlone'
    <2> SUFFICES ASSUME NEW t \in Sessions PROVE PairsSoundly(pend[t], held[t])'
      BY DEF NewPairsStandAlone
    <2>1. PairsSoundly(pend'[t], held[t])
      BY <1>1 DEF IInv, NewPairsStandAlone, SoundWrites
    <2>2. link' = link /\ held' = held
      OBVIOUS
    <2> QED
      BY <2>1, <2>2 DEF PairsSoundly
  <1>8. SyncsPair' /\ StandsAlone'
    BY <1>1 DEF IInv, SyncsPair, StandsAlone, Apart, ValidPair, Linked
  <1> QED
    BY <1>2, <1>3, <1>4, <1>5, <1>6, <1>7, <1>8 DEF IInv

(* What StepKeeps asks of the writes holds of those the session had. *)
LEMMA WritesSoFar ==
    ASSUME IInv, NEW s \in Sessions
    PROVE  /\ SoundWrites(s, pend[s])
           /\ job[s].kind # "sync" => DOMAIN pend[s].pair = {}
           /\ pend = [pend EXCEPT ![s] = pend[s]] /\ todo = [todo EXCEPT ![s] = todo[s]]
  BY DEF IInv, Shape, NewLinksStandAlone, Grows, NewPairsStandAlone, SyncsPair, SoundWrites

(* Going on drops the arguments, and with them the claim on their rows. *)
Onward(s, a) == [NoJob EXCEPT !.kind = job[s].kind, !.at = a]

LEMMA NextJob ==
    ASSUME NEW s \in Sessions, job[s].kind \in {"replace", "edit", "sync"},
           NEW a \in {"feed", "write"}
    PROVE  /\ IsJob(Onward(s, a)) /\ Onward(s, a) # NoJob
           /\ Onward(s, a).kind = job[s].kind
           /\ \A R : Claim(Onward(s, a), R)
  <1>1. IsJob(Onward(s, a))
    BY DEF Onward, NoJob, IsJob
  <1>2. Onward(s, a).kind = job[s].kind /\ Onward(s, a).at = a
    BY DEF Onward, NoJob
  <1>3. Onward(s, a) # NoJob
    BY <1>2 DEF NoJob
  <1> QED
    BY <1>1, <1>2, <1>3 DEF Claim

(* A replace that may go on links eligible rows, which are locked. *)
LEMMA ReplaceKeeps ==
    ASSUME IInv, NEW s \in Sessions, Replace(s)
    PROVE  IInv'
  <1> DEFINE c == job[s].row
             want == job[s].want
             changed == {l \in Links : l[1] = c /\ link[l] # want[l[2]]}
             w == [pend[s] EXCEPT !.link = [l \in changed |-> want[l[2]]],
                                  !.was = [l \in changed |-> link[l]]]
  <1>1. /\ At(s, "replace", "lock") /\ MayReplace(c, want)
        /\ pend' = [pend EXCEPT ![s] = w]
        /\ job' = [job EXCEPT ![s] = Onward(s, "write")]
        /\ UNCHANGED <<split, pair, link, held, todo>>
    BY DEF Replace, Goto, Onward, tables
  <1>2. /\ DOMAIN w = {"amount", "link", "was", "pair"}
        /\ w.link = [l \in changed |-> want[l[2]]]
        /\ w.was = [l \in changed |-> link[l]]
        /\ DOMAIN w.pair = {}
    BY <1>1, WritesSoFar DEF At, SoundWrites
  <1>3. todo[s] = {} /\ {c} \cup Asks(want) \subseteq held[s]
    BY <1>1 DEF At, IInv, ClaimsLocked, Claim
  <1>4. \A l \in changed : want[l[2]] > 0 /\ ~(link[l] > 0) =>
                               \A r \in Ends(l) : r \in held[s] /\ ~Apart(r)
    <2> SUFFICES ASSUME NEW l \in changed, want[l[2]] > 0, ~(link[l] > 0), NEW r \in Ends(l)
                 PROVE  r \in held[s] /\ ~Apart(r)
      OBVIOUS
    <2>1. l = <<c, l[2]>> /\ l[2] \in Expenses
      BY DEF Links
    <2>2. l[2] \in {e \in Asks(want) : ~(link[<<c, e>>] > 0)}
      BY <2>1 DEF Asks
    <2>3. r \in {c, l[2]}
      BY DEF Ends
    <2> QED
      BY <1>1, <1>3, <2>2, <2>3 DEF MayReplace
  <1>5. PairsSoundly(w, held[s])
    BY <1>2 DEF PairsSoundly
  <1>6. /\ IsJob(Onward(s, "write")) /\ Onward(s, "write") # NoJob
        /\ Onward(s, "write").kind = "replace"
        /\ \A R : Claim(Onward(s, "write"), R)
    BY <1>1, NextJob DEF At
  <1>7. SoundWrites(s, w)
    BY <1>2, <1>4, <1>5 DEF SoundWrites
  <1>8. todo' = [todo EXCEPT ![s] = {}] /\ job[s].kind = "replace"
    BY <1>1, <1>3, WritesSoFar DEF At
  <1> HIDE DEF w
  <1> QED
    BY <1>1, <1>2, <1>6, <1>7, <1>8, StepKeeps

(* An edit goes on to lock the other leg of its transfer. *)
LEMMA EditKeeps ==
    ASSUME IInv, NEW s \in Sessions, Edit(s)
    PROVE  IInv'
  <1>1. PICK F \in SUBSET Rows :
          /\ At(s, "edit", "lock")
          /\ pend' = [pend EXCEPT ![s].amount = [q \in {job[s].row} \cup F |-> job[s].amt]]
          /\ todo' = [todo EXCEPT ![s] = F]
          /\ job' = [job EXCEPT ![s] = Onward(s, "write")]
          /\ UNCHANGED <<split, pair, link, held>>
    BY DEF Edit, Goto, Onward, tables
  <1> DEFINE w == [pend[s] EXCEPT !.amount = [q \in {job[s].row} \cup F |-> job[s].amt]]
  <1>2. /\ pend' = [pend EXCEPT ![s] = w]
        /\ DOMAIN w = {"amount", "link", "was", "pair"}
        /\ w.link = pend[s].link /\ w.was = pend[s].was /\ w.pair = pend[s].pair
    BY <1>1, WritesSoFar DEF SoundWrites
  <1>3. /\ IsJob(Onward(s, "write")) /\ Onward(s, "write") # NoJob
        /\ Onward(s, "write").kind = "edit"
        /\ \A R : Claim(Onward(s, "write"), R)
    BY <1>1, NextJob DEF At
  <1>4. SoundWrites(s, w)
    BY <1>2, WritesSoFar DEF SoundWrites, PairsSoundly
  <1> HIDE DEF w
  <1> QED
    BY <1>1, <1>2, <1>3, <1>4, StepKeeps, WritesSoFar DEF At

(* A sync goes on to a row its source reports. *)
LEMMA ReportKeeps ==
    ASSUME IInv, NEW s \in Sessions, Report(s)
    PROVE  IInv'
  <1>1. PICK r \in Rows, a \in Amounts :
          /\ job' = [job EXCEPT ![s].at = "take", ![s].row = r, ![s].amt = a, ![s].seen = pair[r]]
          /\ todo' = [todo EXCEPT ![s] = {r} \ held[s]]
    BY DEF Report
  <1>2. job[s].kind = "sync" /\ UNCHANGED <<split, pair, link, held, pend>>
    BY DEF Report, At, tables
  <1> DEFINE j == [job[s] EXCEPT !.at = "take", !.row = r, !.amt = a, !.seen = pair[r]]
  <1>3. IsJob(j) /\ j.kind = "sync" /\ j.at = "take" /\ j.row = r
    BY <1>2 DEF IInv, Shape, IsJob
  <1>4. job' = [job EXCEPT ![s] = j]
    BY <1>1
  <1> HIDE DEF j
  <1> DEFINE R == {r} \ held[s]
  <1>5. j # NoJob /\ Claim(j, held[s] \cup R)
    BY <1>3 DEF NoJob, Claim
  <1>6. todo' = [todo EXCEPT ![s] = R] /\ R \in SUBSET Rows
    BY <1>1
  <1>7. SoundWrites(s, pend[s]) /\ pend' = [pend EXCEPT ![s] = pend[s]]
    BY <1>2, WritesSoFar
  <1> HIDE DEF R
  <1> QED
    BY <1>2, <1>3, <1>4, <1>5, <1>6, <1>7, StepKeeps

(* A sync goes on to couples of rows that look like transfers. *)
LEMMA DetectKeeps ==
    ASSUME IInv, NEW s \in Sessions, Detect(s)
    PROVE  IInv'
  <1>0. \A L : UNION {Ends(l) : l \in L} = EndsOf(L)
    BY DEF EndsOf
  <1>1. PICK couples \in SUBSET Links :
          /\ job' = [job EXCEPT ![s].at = "pairing", ![s].couples = couples]
          /\ todo' = [todo EXCEPT ![s] = EndsOf(couples) \ held[s]]
    BY <1>0 DEF Detect
  <1>2. job[s].kind = "sync" /\ UNCHANGED <<split, pair, link, held, pend>>
    BY DEF Detect, At, tables
  <1> DEFINE j == [job[s] EXCEPT !.at = "pairing", !.couples = couples]
  <1>3. IsJob(j) /\ j.kind = "sync" /\ j.at = "pairing" /\ j.couples = couples
    BY <1>2 DEF IInv, Shape, IsJob
  <1>4. job' = [job EXCEPT ![s] = j]
    BY <1>1
  <1> HIDE DEF j
  <1> DEFINE R == EndsOf(couples) \ held[s]
  <1>5. j # NoJob /\ Claim(j, held[s] \cup R)
    BY <1>3 DEF NoJob, Claim
  <1>6. todo' = [todo EXCEPT ![s] = R] /\ R \in SUBSET Rows
    BY <1>1, EndsAreRows DEF EndsOf
  <1>7. SoundWrites(s, pend[s]) /\ pend' = [pend EXCEPT ![s] = pend[s]]
    BY <1>2, WritesSoFar
  <1> HIDE DEF R
  <1> QED
    BY <1>2, <1>3, <1>4, <1>5, <1>6, <1>7, StepKeeps

(* The end of the feed. *)
LEMMA EndFeedKeeps ==
    ASSUME IInv, NEW s \in Sessions, EndFeed(s)
    PROVE  IInv'
  <1>1. /\ job' = [job EXCEPT ![s] = Onward(s, "write")]
        /\ job[s].kind = "sync" /\ todo[s] = {}
        /\ UNCHANGED <<split, pair, link, held, todo, pend>>
    BY DEF EndFeed, Goto, Onward, At, tables
  <1>2. /\ IsJob(Onward(s, "write")) /\ Onward(s, "write") # NoJob
        /\ Onward(s, "write").kind = "sync"
        /\ \A R : Claim(Onward(s, "write"), R)
    BY <1>1, NextJob
  <1>3. todo' = [todo EXCEPT ![s] = {}]
    BY <1>1, WritesSoFar
  <1> QED
    BY <1>1, <1>2, <1>3, StepKeeps, WritesSoFar

(* A sync whose legs are locked takes their transfer apart. *)
LEMMA TakeApartKeeps ==
    ASSUME IInv, NEW s \in Sessions, TakeApart(s)
    PROVE  IInv'
  <1> DEFINE legs == {job[s].row} \cup {o \in held[s] : pair[o] = job[s].seen}
                         \cup DOMAIN pend[s].pair
             w == [pend[s] EXCEPT !.pair = [o \in legs |-> {}]]
  <1>1. /\ At(s, "sync", "unpair")
        /\ pend' = [pend EXCEPT ![s] = w]
        /\ job' = [job EXCEPT ![s] = Onward(s, "feed")]
        /\ UNCHANGED <<split, pair, link, held, todo>>
    BY DEF TakeApart, Goto, Onward, tables
  <1>2. legs \subseteq held[s]
    BY <1>1 DEF At, IInv, ClaimsLocked, Claim, NewPairsStandAlone, PairsSoundly
  <1>3. /\ DOMAIN w = {"amount", "link", "was", "pair"}
        /\ w.link = pend[s].link /\ w.was = pend[s].was /\ w.pair = [o \in legs |-> {}]
    BY WritesSoFar DEF SoundWrites
  <1>4. SoundWrites(s, w)
    BY <1>2, <1>3, WritesSoFar DEF SoundWrites, PairsSoundly
  <1>5. /\ IsJob(Onward(s, "feed")) /\ Onward(s, "feed") # NoJob
        /\ Onward(s, "feed").kind = "sync"
        /\ \A R : Claim(Onward(s, "feed"), R)
    BY <1>1, NextJob DEF At
  <1>6. todo' = [todo EXCEPT ![s] = {}] /\ job[s].kind = "sync"
    BY <1>1, WritesSoFar DEF At
  <1> HIDE DEF w
  <1> QED
    BY <1>1, <1>4, <1>5, <1>6, StepKeeps

(* A sync pairs rows it has locked and found unlinked. *)
LEMMA PairDetectedKeeps ==
    ASSUME IInv, NEW s \in Sessions, PairDetected(s)
    PROVE  IInv'
  <1> DEFINE sound == {l \in job[s].couples :
                         \A r \in Ends(l) : ~Linked(Over(pend[s].link, link), r)}
             legs == UNION {Ends(l) : l \in sound}
             old == pend[s].pair
             of(r) == CHOOSE l \in sound : r \in Ends(l)
             new == [r \in DOMAIN old \cup legs |-> IF r \in legs THEN Ends(of(r)) ELSE old[r]]
             w == [pend[s] EXCEPT !.pair = new]
  <1>1. /\ At(s, "sync", "pairing")
        /\ pend' = [pend EXCEPT ![s] = w]
        /\ job' = [job EXCEPT ![s] = Onward(s, "write")]
        /\ UNCHANGED <<split, pair, link, held, todo>>
    BY DEF PairDetected, Goto, Onward, tables
  <1>2. /\ IsJob(Onward(s, "write")) /\ Onward(s, "write") # NoJob
        /\ Onward(s, "write").kind = "sync"
        /\ \A R : Claim(Onward(s, "write"), R)
    BY <1>1, NextJob DEF At
  <1>3. todo' = [todo EXCEPT ![s] = {}] /\ job[s].kind = "sync"
    BY <1>1, WritesSoFar DEF At
  <1>4. /\ DOMAIN w = {"amount", "link", "was", "pair"}
        /\ w.link = pend[s].link /\ w.was = pend[s].was /\ w.pair = new
    BY WritesSoFar DEF SoundWrites
  <1>5. legs \subseteq held[s]
    BY <1>1 DEF At, IInv, ClaimsLocked, Claim, EndsOf
  <1>6. \A r \in legs : of(r) \in sound /\ r \in Ends(of(r))
    <2> HIDE DEF sound
    <2> QED
      OBVIOUS
  <1>7. /\ DOMAIN new = DOMAIN old \cup legs
        /\ \A r \in legs : new[r] = Ends(of(r))
        /\ \A r \in DOMAIN old \ legs : new[r] = old[r]
    OBVIOUS
  <1>8. \A l \in sound : /\ Ends(l) \subseteq legs
                         /\ \A r \in Ends(l) : ~Linked(Over(pend[s].link, link), r)
    OBVIOUS
  <1>9. \A r \in DOMAIN old : /\ r \in held[s] /\ old[r] \subseteq DOMAIN old
                              /\ old[r] # {} => /\ r \in old[r]
                                                /\ ~Linked(Over(pend[s].link, link), r)
    BY WritesSoFar DEF SoundWrites, PairsSoundly
  <1> HIDE DEF new, old, of, sound, legs
  <1>10. PairsSoundly(w, held[s])
    <2> SUFFICES ASSUME NEW r \in DOMAIN new
                 PROVE  /\ r \in held[s]
                        /\ new[r] \subseteq DOMAIN new
                        /\ new[r] # {} => /\ r \in new[r]
                                          /\ ~Linked(Over(pend[s].link, link), r)
      BY <1>4 DEF PairsSoundly
    <2>1. CASE r \in legs
      BY <1>5, <1>6, <1>7, <1>8, <2>1
    <2>2. CASE r \notin legs
      BY <1>7, <1>9, <2>2
    <2> QED
      BY <2>1, <2>2
  <1>11. SoundWrites(s, w)
    BY <1>4, <1>10, WritesSoFar DEF SoundWrites
  <1> HIDE DEF w
  <1> QED
    BY <1>1, <1>2, <1>3, <1>11, StepKeeps

(* A sync takes an amount: the links it fits were links before, for it or  *)
(* for everybody.                                                          *)
LEMMA TakeKeeps ==
    ASSUME IInv, NEW s \in Sessions, Take(s)
    PROVE  IInv'
  <1> DEFINE r == job[s].row
             read == Over(pend[s].link, link)
             fitted == Fitted(read, r, job[s].amt)
             dirty == {l \in Links : l \in DOMAIN pend[s].link \/ fitted[l] # read[l]}
             legs == {o \in Rows : pair[o] = job[s].seen} \ held[s]
             w == [pend[s] EXCEPT
                      !.amount = [q \in DOMAIN pend[s].amount \cup {r} |->
                                     IF q = r THEN job[s].amt ELSE pend[s].amount[q]],
                      !.link = [l \in dirty |-> fitted[l]],
                      !.was = [l \in dirty |-> Over(pend[s].was, link)[l]]]
             j == [job[s] EXCEPT !.at = "unpair"]
  <1>1. /\ At(s, "sync", "take")
        /\ pend' = [pend EXCEPT ![s] = w]
        /\ \/ job' = [job EXCEPT ![s] = Onward(s, "feed")] /\ UNCHANGED todo
           \/ job' = [job EXCEPT ![s] = j] /\ todo' = [todo EXCEPT ![s] = legs]
        /\ UNCHANGED <<split, pair, link, held>>
    BY DEF Take, Goto, Onward, tables
  <1>2. /\ DOMAIN w = {"amount", "link", "was", "pair"}
        /\ w.link = [l \in dirty |-> fitted[l]]
        /\ w.was = [l \in dirty |-> Over(pend[s].was, link)[l]]
        /\ w.pair = pend[s].pair
    BY WritesSoFar DEF SoundWrites
  <1>3. \A l \in Links : fitted[l] > 0 => read[l] > 0
    BY FittingMakesNoLink
  <1>4. \A l \in Links : /\ l \in DOMAIN pend[s].link =>
                                read[l] = pend[s].link[l] /\ Over(pend[s].was, link)[l] = pend[s].was[l]
                         /\ l \notin DOMAIN pend[s].link =>
                                read[l] = link[l] /\ Over(pend[s].was, link)[l] = link[l]
    BY DEF IInv, Shape, Over
  <1>5. DOMAIN pend[s].link \subseteq dirty
    BY DEF IInv, Shape
  <1>6. \A l \in Links : Over(w.link, link)[l] > 0 => read[l] > 0
    <2> SUFFICES ASSUME NEW l \in Links, Over(w.link, link)[l] > 0
                 PROVE  read[l] > 0
      OBVIOUS
    <2>1. CASE l \in dirty
      BY <1>2, <1>3, <2>1 DEF IInv, Shape, Over
    <2>2. CASE l \notin dirty
      BY <1>2, <1>4, <1>5, <2>2 DEF IInv, Shape, Over
    <2> QED
      BY <2>1, <2>2
  <1> HIDE DEF fitted, read
  <1>7. PairsSoundly(w, held[s])
    <2>1. \A q \in DOMAIN pend[s].pair : ~Linked(read, q) => ~Linked(Over(w.link, link), q)
      BY <1>6 DEF Linked, LinksOf
    <2> QED
      BY <1>2, <2>1, WritesSoFar DEF SoundWrites, PairsSoundly, read
  <1>8. SoundWrites(s, w)
    <2>1. \A l \in dirty : fitted[l] > 0 /\ ~(Over(pend[s].was, link)[l] > 0) =>
                               l \in DOMAIN pend[s].link /\ pend[s].link[l] > 0 /\ ~(pend[s].was[l] > 0)
      BY <1>3, <1>4
    <2>2. \A l \in DOMAIN w.link : w.link[l] > 0 /\ ~(w.was[l] > 0) =>
                               \A q \in Ends(l) : q \in held[s] /\ ~Apart(q)
      BY <1>2, <2>1, WritesSoFar DEF SoundWrites
    <2> QED
      BY <1>2, <1>7, <2>2 DEF SoundWrites
  <1>9. job[s].kind = "sync" /\ todo[s] = {} /\ r \in held[s]
    BY <1>1 DEF At, IInv, ClaimsLocked, Claim
  <1> HIDE DEF w
  <1>10. CASE job' = [job EXCEPT ![s] = Onward(s, "feed")] /\ UNCHANGED todo
    <2>1. /\ IsJob(Onward(s, "feed")) /\ Onward(s, "feed") # NoJob
          /\ Onward(s, "feed").kind = "sync"
          /\ \A R : Claim(Onward(s, "feed"), R)
      BY <1>9, NextJob
    <2>2. todo' = [todo EXCEPT ![s] = {}]
      BY <1>9, <1>10, WritesSoFar
    <2> QED
      BY <1>1, <1>8, <1>9, <1>10, <2>1, <2>2, StepKeeps
  <1>11. CASE job' = [job EXCEPT ![s] = j] /\ todo' = [todo EXCEPT ![s] = legs]
    <2>1. IsJob(j) /\ j.kind = "sync" /\ j.at = "unpair" /\ j.row = r
      BY <1>9 DEF IInv, Shape, IsJob
    <2> HIDE DEF j
    <2>2. j # NoJob /\ Claim(j, held[s] \cup legs)
      BY <1>9, <2>1 DEF NoJob, Claim
    <2>3. legs \in SUBSET Rows
      OBVIOUS
    <2> HIDE DEF legs
    <2> QED
      BY <1>1, <1>8, <1>9, <1>11, <2>1, <2>2, <2>3, StepKeeps
  <1> QED
    BY <1>1, <1>10, <1>11

-----------------------------------------------------------------------------
(* Every request claims the rows it begins to lock. *)
LEMMA RequestKeeps ==
    ASSUME IInv, NEW s \in Sessions, Request(s)
    PROVE  IInv'
  <1>1. CASE BeginReplace(s)
    <2> PICK c \in Credits, want \in [Expenses -> 0 .. MaxAmount] :
           Begin(s, [NoJob EXCEPT !.kind = "replace", !.at = "lock", !.row = c, !.want = want],
                 {c} \cup Asks(want))
      BY <1>1 DEF BeginReplace
    <2> DEFINE j == [NoJob EXCEPT !.kind = "replace", !.at = "lock", !.row = c, !.want = want]
    <2>1. /\ IsJob(j) /\ j.kind = "replace" /\ j.at = "lock" /\ j.row = c /\ j.want = want
          /\ {c} \cup Asks(want) \in SUBSET Rows
      BY DEF IsJob, NoJob, Asks, Rows
    <2> HIDE DEF j
    <2>2. Claim(j, {c} \cup Asks(want))
      BY <2>1 DEF Claim
    <2> QED
      BY <2>1, <2>2, BeginKeeps DEF j
  <1>2. CASE BeginLink(s)
    <2> PICK l \in Links :
           Begin(s, [NoJob EXCEPT !.kind = "link", !.at = "lock", !.row = l[1], !.other = l[2]], Ends(l))
      BY <1>2 DEF BeginLink
    <2> DEFINE j == [NoJob EXCEPT !.kind = "link", !.at = "lock", !.row = l[1], !.other = l[2]]
    <2>1. /\ IsJob(j) /\ j.kind = "link" /\ j.row = l[1] /\ j.other = l[2]
          /\ Ends(l) \in SUBSET Rows
      BY EndsAreRows DEF IsJob, NoJob
    <2> HIDE DEF j
    <2>2. Claim(j, Ends(l))
      BY <2>1 DEF Claim, Ends
    <2> QED
      BY <2>1, <2>2, BeginKeeps DEF j
  <1>3. CASE BeginAccept(s)
    <2> PICK m \in Rows, o \in Rows :
           Begin(s, [NoJob EXCEPT !.kind = "accept", !.at = "lock", !.row = m, !.other = o], {m, o})
      BY <1>3 DEF BeginAccept
    <2> DEFINE j == [NoJob EXCEPT !.kind = "accept", !.at = "lock", !.row = m, !.other = o]
    <2>1. IsJob(j) /\ j.kind = "accept" /\ j.row = m /\ j.other = o /\ {m, o} \in SUBSET Rows
      BY DEF IsJob, NoJob
    <2> HIDE DEF j
    <2>2. Claim(j, {m, o})
      BY <2>1 DEF Claim
    <2> QED
      BY <2>1, <2>2, BeginKeeps DEF j
  <1>4. CASE BeginUnpair(s)
    <2> PICK p \in PairIds \ {{}} :
           Begin(s, [NoJob EXCEPT !.kind = "unpair", !.at = "lock", !.seen = p],
                 {r \in Rows : pair[r] = p})
      BY <1>4 DEF BeginUnpair
    <2> DEFINE j == [NoJob EXCEPT !.kind = "unpair", !.at = "lock", !.seen = p]
               R == {r \in Rows : pair[r] = p}
    <2>1. IsJob(j) /\ j.kind = "unpair" /\ R \in SUBSET Rows
      BY DEF IsJob, NoJob
    <2> HIDE DEF j, R
    <2>2. Claim(j, R)
      BY <2>1 DEF Claim
    <2> QED
      BY <2>1, <2>2, BeginKeeps DEF j, R
  <1>5. CASE BeginSplit(s)
    <2> PICK r \in Rows : Begin(s, [NoJob EXCEPT !.kind = "split", !.at = "lock", !.seen = {r}], {r})
      BY <1>5 DEF BeginSplit
    <2> DEFINE j == [NoJob EXCEPT !.kind = "split", !.at = "lock", !.seen = {r}]
    <2>1. IsJob(j) /\ j.kind = "split" /\ j.seen = {r} /\ {r} \in SUBSET Rows
      BY DEF IsJob, NoJob
    <2> HIDE DEF j
    <2>2. Claim(j, {r})
      BY <2>1 DEF Claim
    <2> QED
      BY <2>1, <2>2, BeginKeeps DEF j
  <1>6. CASE BeginEdit(s)
    <2> PICK r \in Rows, a \in Amounts :
           Begin(s, [NoJob EXCEPT !.kind = "edit", !.at = "lock", !.row = r, !.amt = a,
                                  !.seen = pair[r]], {r})
      BY <1>6 DEF BeginEdit
    <2> DEFINE j == [NoJob EXCEPT !.kind = "edit", !.at = "lock", !.row = r, !.amt = a,
                                  !.seen = pair[r]]
    <2>1. IsJob(j) /\ j.kind = "edit" /\ {r} \in SUBSET Rows
      BY DEF IsJob, NoJob
    <2> HIDE DEF j
    <2>2. Claim(j, {r})
      BY <2>1 DEF Claim
    <2> QED
      BY <2>1, <2>2, BeginKeeps DEF j
  <1>7. CASE BeginSync(s)
    <2> DEFINE j == [NoJob EXCEPT !.kind = "sync", !.at = "feed"]
    <2>1. IsJob(j) /\ j.kind = "sync" /\ j.at = "feed" /\ Begin(s, j, {})
      BY <1>7 DEF IsJob, NoJob, BeginSync
    <2> HIDE DEF j
    <2>2. Claim(j, {})
      BY <2>1 DEF Claim
    <2> QED
      BY <2>1, <2>2, BeginKeeps
  <1>8. CASE BeginBulkSplit(s)
    <2> PICK rows \in SUBSET Rows :
           Begin(s, [NoJob EXCEPT !.kind = "split", !.at = "lock",
                                  !.seen = {r \in rows : pair[r] = {} /\ r \notin split}], rows)
      BY <1>8 DEF BeginBulkSplit
    <2> DEFINE seen == {r \in rows : pair[r] = {} /\ r \notin split}
               j == [NoJob EXCEPT !.kind = "split", !.at = "lock", !.seen = seen]
    <2>1. IsJob(j) /\ j.kind = "split" /\ j.seen = seen
      BY DEF IsJob, NoJob
    <2> HIDE DEF j
    <2>2. Claim(j, rows)
      BY <2>1 DEF Claim
    <2> QED
      BY <2>1, <2>2, BeginKeeps DEF j
  <1> QED
    BY <1>1, <1>2, <1>3, <1>4, <1>5, <1>6, <1>7, <1>8 DEF Request

(* The invariant is inductive. *)
LEMMA NextIInv == IInv /\ [Next]_vars => IInv'
  <1> SUFFICES ASSUME IInv, [Next]_vars PROVE IInv'
    OBVIOUS
  <1>1. ASSUME NEW s \in Sessions, Request(s) PROVE IInv'
    BY <1>1, RequestKeeps
  <1>2. ASSUME NEW s \in Sessions, Step(s) PROVE IInv'
    <2>1. CASE Refusal(s)
      BY <2>1, FailKeeps DEF Refusal
    <2> QED
      BY <1>2, <2>1, LockNextKeeps, ReplaceKeeps, LinkKeeps, UnpairKeeps, SplitKeeps, EditKeeps,
         TakeKeeps, TakeApartKeeps, PairDetectedKeeps, EndFeedKeeps, CommitKeeps DEF Step
  <1>3. ASSUME NEW s \in Sessions, Fail(s) \/ Victim(s) PROVE IInv'
    BY <1>3, FailKeeps DEF Victim
  <1>4. ASSUME NEW s \in Sessions, Report(s) \/ Detect(s) PROVE IInv'
    BY <1>4, ReportKeeps, DetectKeeps
  <1>5. ASSUME NEW l \in Links, DeleteReimbursement(l) PROVE IInv'
    BY <1>5, DeleteKeeps
  <1>6. ASSUME NEW l \in Links, Decline(l) \/ Ask(l) PROVE IInv'
    BY <1>6, ElsewhereKeeps DEF Decline, Ask
  <1>7. ASSUME NEW r \in Rows, ClearSplits(r) PROVE IInv'
    BY <1>7, ClearSplitsKeeps
  <1>8. CASE UNCHANGED vars
    BY <1>8, ElsewhereKeeps DEF vars, tables
  <1> QED
    BY <1>1, <1>2, <1>3, <1>4, <1>5, <1>6, <1>7, <1>8 DEF Next

(* Every reachable state satisfies the inductive invariant. *)
THEOREM Invariant == Spec => []IInv
  BY InitIInv, NextIInv, PTL DEF Spec

(* A reimbursement is never counted beside a split or a transfer of the    *)
(* same row, whatever requests and syncs run at once.                      *)
THEOREM ReimbursementsStandAlone == Spec => []StandsAlone
  <1>1. IInv => StandsAlone
    BY DEF IInv
  <1> QED
    BY Invariant, <1>1, PTL

(* lock_rows makes no deadlock: a chain of waits climbs through the ids.   *)
THEOREM WaitsClimb == Spec => []WaitsAscend
  <1>1. IInv => WaitsAscend
    <2> SUFFICES ASSUME IInv, NEW s \in Sessions, NEW t \in Sessions, NEW u \in Sessions,
                        Ordered(t), WaitsFor(s, t),
                        NEW p \in todo[s], NEW q \in todo[t], \A x \in todo[s] : p <= x
                 PROVE  p < q
      BY DEF WaitsAscend
    <2>1. PICK r \in todo[s] : r \in held[t] /\ \A x \in todo[s] : r <= x
      BY DEF WaitsFor
    <2>2. p \in Nat /\ r \in Nat /\ q \in Nat
      BY RowsAreNumbers DEF IInv, Shape
    <2>3. p = r
      BY <2>1, <2>2
    <2> QED
      BY <2>1, <2>3 DEF IInv, LocksAscend
  <1> QED
    BY Invariant, <1>1, PTL

-----------------------------------------------------------------------------
(* No deadlock among the requests that lock with lock_rows                 *)

(* A collection of subsets of a finite set has a smallest one. *)
LEMMA SmallestSubset ==
    ASSUME NEW S, IsFiniteSet(S), NEW T, T \subseteq SUBSET S, T # {}
    PROVE  \E s \in T : \A t \in T : t \subseteq s => t = s
<1>1. IsWellFoundedOn(StrictSubsetOrdering(S), SUBSET S)
    BY FS_StrictSubsetOrderingWellFounded, FS_FiniteSubsetsOfFinite
<1>2. PICK s \in T : \A t \in T : <<t, s>> \notin StrictSubsetOrdering(S)
    BY <1>1, WFMin
<1>. QED
    BY <1>2 DEF StrictSubsetOrdering

(* A set of sessions in which each waits for one of them. *)
Deadlocked(D) == D # {} /\ \A s \in D : \E t \in D : WaitsFor(s, t)

DeadlocksNeedAnother ==
    \A D \in SUBSET Sessions : Deadlocked(D) => \E s \in D : ~Ordered(s)

(* The row a session waits for.                                            *)
Awaits(s, r) == r \in todo[s] /\ \A q \in todo[s] : r <= q

(* However many sessions wait for each other in a circle, one of them is   *)
(* an edit, a sync or an import, which lock more than one lock_rows does:  *)
(* allocations, pairings, splits and accepts alone never need the          *)
(* database's deadlock detection.  Of the rows that are waited for there   *)
(* is a last one, and who holds it waits for a later one.                  *)
THEOREM NoDeadlockOfRequests == Spec => []DeadlocksNeedAnother
  <1>1. ASSUME IInv, WaitsAscend, NEW D \in SUBSET Sessions, Deadlocked(D), \A s \in D : Ordered(s)
        PROVE  FALSE
    <2> DEFINE Above(p) == {x \in Rows : x > p}
               T == {Above(p) : p \in {r \in Rows : \E s \in D : Awaits(s, r)}}
    <2>1. \A s \in D : \E t \in D, r \in Rows : Awaits(s, r) /\ WaitsFor(s, t)
      BY <1>1 DEF Deadlocked, WaitsFor, Awaits, IInv, Shape
    <2>2. T \subseteq SUBSET Rows /\ T # {}
      BY <1>1, <2>1 DEF Deadlocked
    <2>3. IsFiniteSet(Rows)
      BY ReimbursementAssumption, FS_Union DEF Rows
    <2>4. PICK S \in T : \A R \in T : R \subseteq S => R = S
      <3> HIDE DEF T
      <3> QED
        BY <2>2, <2>3, SmallestSubset
    <2>5. PICK p \in Rows, s \in D : Awaits(s, p) /\ S = Above(p)
      OBVIOUS
    <2>6. PICK t \in D : WaitsFor(s, t)
      BY <2>1
    <2>7. PICK u \in D, q \in Rows : Awaits(t, q) /\ WaitsFor(t, u)
      BY <2>1
    <2>8. p < q
      BY <1>1, <2>5, <2>6, <2>7 DEF WaitsAscend, Awaits
    <2>9. p \in Nat /\ q \in Nat /\ \A x \in Rows : x \in Nat
      BY RowsAreNumbers
    <2>10. Above(q) \in T
      BY <2>7
    <2>11. Above(q) \subseteq Above(p)
      <3>1. ASSUME NEW x \in Rows, x > q PROVE x > p
        <4>1. x \in Nat /\ q \in Nat /\ p \in Nat
          BY <2>9
        <4> QED
          BY <2>8, <3>1, <4>1
      <3> QED
        BY <3>1
    <2>12. q \in Above(p) /\ q \notin Above(q)
      <3>1. ~(q > q)
        BY <2>9
      <3> QED
        BY <2>8, <3>1
    <2> HIDE DEF T, Above
    <2> QED
      BY <2>4, <2>5, <2>10, <2>11, <2>12
  <1>2. IInv /\ WaitsAscend => DeadlocksNeedAnother
    BY <1>1 DEF DeadlocksNeedAnother
  <1> QED
    BY Invariant, WaitsClimb, <1>2, PTL
=============================================================================
