--------------------- MODULE ReimbursementAmountsProofs ---------------------
(***************************************************************************)
(* Proofs that reimbursement links stay within the amounts of their rows.  *)
(* First what a sum over a finite set is, by way of a smallest subset that *)
(* would be an exception; then the type invariant; then, per session, that *)
(* what it is about to commit fits, and that nothing another session does  *)
(* meanwhile takes that away; and last the refinement of the book.         *)
(***************************************************************************)
EXTENDS ReimbursementsProofs

-----------------------------------------------------------------------------
(* Sums over a finite set.  MapThenSumSet picks one element of the set      *)
(* after the other.                                                        *)
Total(f, S) == MapThenSumSet(LAMBDA x : f[x], S)

Pick(s) == CHOOSE x \in s : TRUE

(* The sum over s, given those over its subsets.                           *)
Grow(f, g, s) == IF s = {} THEN 0 ELSE f[Pick(s)] + g[s \ {Pick(s)}]

(* g has the sums of f over the subsets of S.                              *)
IsTally(f, g, S) == g = [s \in SUBSET S |-> Grow(f, g, s)]

LEMMA TotalIsTally ==
    ASSUME NEW f, NEW S
    PROVE  Total(f, S) = (CHOOSE g : IsTally(f, g, S))[S]
BY DEF Total, MapThenSumSet, MapThenFoldSet, IsTally, Grow, Pick

LEMMA LinkedTotalIs ==
    ASSUME NEW lk, NEW r
    PROVE  LinkedTotal(lk, r) = Total(lk, LinksOf(r))
BY DEF LinkedTotal, Total

(* Two tallies agree wherever both are defined. *)
LEMMA TalliesAgree ==
    ASSUME NEW f, NEW g, NEW h, NEW S, NEW R, IsTally(f, g, S), IsTally(f, h, R),
           IsFiniteSet(S), NEW t \in SUBSET (S \cap R)
    PROVE  g[t] = h[t]
<1> DEFINE T == {u \in SUBSET S : u \subseteq R /\ g[u] # h[u]}
<1>. SUFFICES ASSUME g[t] # h[t] PROVE FALSE
    OBVIOUS
<1>1. PICK s \in T : \A u \in T : u \subseteq s => u = s
    <2>1. T \subseteq SUBSET S /\ t \in T
        OBVIOUS
    <2>. HIDE DEF T
    <2>. QED
        BY <2>1, SmallestSubset
<1> DEFINE r == s \ {Pick(s)}
<1>2. g[s] = Grow(f, g, s) /\ h[s] = Grow(f, h, s)
    BY DEF IsTally
<1>3. s # {}
    BY <1>2 DEF Grow
<1>4. Pick(s) \in s
    BY <1>3 DEF Pick
<1>5. g[r] = h[r]
    BY <1>1, <1>4
<1>. QED
    BY <1>2, <1>3, <1>5 DEF Grow

(* Every finite set has a tally. *)
LEMMA TallyExists ==
    ASSUME NEW f, NEW S, IsFiniteSet(S)
    PROVE  \E g : IsTally(f, g, S)
<1> DEFINE T == {s \in SUBSET S : ~\E g : IsTally(f, g, s)}
<1>. SUFFICES ASSUME ~\E g : IsTally(f, g, S) PROVE FALSE
    OBVIOUS
<1>1. PICK s \in T : \A u \in T : u \subseteq s => u = s
    <2>1. T \subseteq SUBSET S /\ S \in T
        OBVIOUS
    <2>. HIDE DEF T
    <2>. QED
        BY <2>1, SmallestSubset
<1> DEFINE tally(u) == CHOOSE g : IsTally(f, g, u)
           sum(u) == tally(u)[u]
<1>2. \A u \in SUBSET s : u # s => IsTally(f, tally(u), u) /\ IsFiniteSet(u)
    BY <1>1, FS_Subset
<1>3. \A u \in SUBSET s : u # s /\ u # {} => sum(u) = f[Pick(u)] + sum(u \ {Pick(u)})
    <2>. SUFFICES ASSUME NEW u \in SUBSET s, u # s, u # {}
                  PROVE  sum(u) = f[Pick(u)] + sum(u \ {Pick(u)})
        OBVIOUS
    <2> DEFINE r == u \ {Pick(u)}
    <2>1. IsTally(f, tally(u), u) /\ IsTally(f, tally(r), r) /\ IsFiniteSet(u)
        BY <1>2
    <2>2. sum(u) = f[Pick(u)] + tally(u)[r]
        <3>. HIDE DEF tally
        <3>. QED
            BY <2>1 DEF IsTally, Grow
    <2>3. tally(u)[r] = tally(r)[r]
        <3>. r \in SUBSET (u \cap r)
            OBVIOUS
        <3>. HIDE DEF tally, r
        <3>. QED
            BY <2>1, TalliesAgree
    <2>. QED
        BY <2>2, <2>3
<1>4. s # {} => sum({}) = 0
    <2>. HIDE DEF tally
    <2>. QED
        BY <1>2 DEF IsTally, Grow
<1> DEFINE g == [u \in SUBSET s |-> IF u = {} THEN 0 ELSE f[Pick(u)] + sum(u \ {Pick(u)})]
<1>5. \A u \in SUBSET s : u # s => g[u] = sum(u)
    <2>. HIDE DEF sum
    <2>. QED
        BY <1>3, <1>4
<1>6. \A u \in SUBSET s : g[u] = Grow(f, g, u)
    <2>. SUFFICES ASSUME NEW u \in SUBSET s PROVE g[u] = Grow(f, g, u)
        OBVIOUS
    <2>1. CASE u = {}
        BY <2>1 DEF Grow
    <2>2. CASE u # {}
        <3>1. Pick(u) \in u
            BY <2>2 DEF Pick
        <3>2. g[u \ {Pick(u)}] = sum(u \ {Pick(u)})
            <4>. HIDE DEF sum, g
            <4>. QED
                BY <3>1, <1>5
        <3>3. g[u] = f[Pick(u)] + sum(u \ {Pick(u)})
            <4>. HIDE DEF sum
            <4>. QED
                BY <2>2
        <3>. HIDE DEF sum, g
        <3>. QED
            BY <2>2, <3>2, <3>3 DEF Grow
    <2>. QED
        BY <2>1, <2>2
<1>7. IsTally(f, g, s)
    <2>1. g = [u \in SUBSET s |-> g[u]]
        OBVIOUS
    <2>. HIDE DEF g
    <2>. QED
        BY <2>1, <1>6 DEF IsTally
<1>. QED
    BY <1>7

(* The sum of nothing is zero; another is one element and the sum of the    *)
(* rest.                                                                   *)
LEMMA TotalUnfolds ==
    ASSUME NEW f, NEW S, IsFiniteSet(S)
    PROVE  /\ S = {} => Total(f, S) = 0
           /\ S # {} => /\ Pick(S) \in S
                        /\ Total(f, S) = f[Pick(S)] + Total(f, S \ {Pick(S)})
<1> DEFINE tally(u) == CHOOSE g : IsTally(f, g, u)
           r == S \ {Pick(S)}
<1>1. IsFiniteSet(r)
    BY FS_Subset
<1>2. IsTally(f, tally(S), S) /\ IsTally(f, tally(r), r)
    BY <1>1, TallyExists
<1>3. Total(f, S) = tally(S)[S] /\ Total(f, r) = tally(r)[r]
    BY TotalIsTally
<1>4. tally(S)[r] = tally(r)[r]
    <2>. r \in SUBSET (S \cap r)
        OBVIOUS
    <2>. HIDE DEF tally, r
    <2>. QED
        BY <1>2, TalliesAgree
<1>5. tally(S)[S] = Grow(f, tally(S), S)
    <2>. HIDE DEF tally
    <2>. QED
        BY <1>2 DEF IsTally
<1>6. S # {} => Pick(S) \in S
    BY DEF Pick
<1>. HIDE DEF tally
<1>. QED
    BY <1>3, <1>4, <1>5, <1>6 DEF Grow


(* A sum of natural numbers is one. *)
LEMMA TotalNat ==
    ASSUME NEW f, NEW S, IsFiniteSet(S), \A x \in S : f[x] \in Nat
    PROVE  Total(f, S) \in Nat
<1> DEFINE T == {u \in SUBSET S : Total(f, u) \notin Nat}
<1>. SUFFICES ASSUME Total(f, S) \notin Nat PROVE FALSE
    OBVIOUS
<1>1. T \subseteq SUBSET S /\ S \in T
    OBVIOUS
<1>2. PICK s \in T : \A u \in T : u \subseteq s => u = s
    <2>. HIDE DEF T
    <2>. QED
        BY <1>1, SmallestSubset
<1>3. IsFiniteSet(s)
    BY FS_Subset
<1>4. s # {} /\ Pick(s) \in s /\ Total(f, s) = f[Pick(s)] + Total(f, s \ {Pick(s)})
    <2>1. s # {}
        <3>. s = {} => Total(f, s) = 0
            BY <1>3, TotalUnfolds
        <3>. QED
            OBVIOUS
    <2>. QED
        BY <1>3, <2>1, TotalUnfolds
<1>5. Total(f, s \ {Pick(s)}) \in Nat
    BY <1>2, <1>4
<1>. QED
    BY <1>4, <1>5

(* Any element of the set can be taken out of its sum. *)
LEMMA TotalWithout ==
    ASSUME NEW f, NEW S, IsFiniteSet(S), \A x \in S : f[x] \in Nat, NEW y \in S
    PROVE  Total(f, S) = f[y] + Total(f, S \ {y})
<1> DEFINE T == {u \in SUBSET S : \E z \in u : Total(f, u) # f[z] + Total(f, u \ {z})}
<1>. SUFFICES ASSUME Total(f, S) # f[y] + Total(f, S \ {y}) PROVE FALSE
    OBVIOUS
<1>1. T \subseteq SUBSET S /\ S \in T
    OBVIOUS
<1>2. PICK s \in T : \A u \in T : u \subseteq s => u = s
    <2>. HIDE DEF T
    <2>. QED
        BY <1>1, SmallestSubset
<1>3. PICK z \in s : Total(f, s) # f[z] + Total(f, s \ {z})
    OBVIOUS
<1>4. \A u \in SUBSET S : IsFiniteSet(u) /\ Total(f, u) \in Nat
    BY FS_Subset, TotalNat
<1>5. s \in SUBSET S /\ IsFiniteSet(s)
    BY <1>4
<1>6. PICK p \in s : Total(f, s) = f[p] + Total(f, s \ {p})
    BY <1>5, TotalUnfolds
<1>7. p # z
    BY <1>3, <1>6
<1>8. Total(f, s \ {p}) = f[z] + Total(f, (s \ {p}) \ {z})
    <2>1. s \ {p} \in SUBSET S /\ s \ {p} # s /\ z \in s \ {p}
        BY <1>5, <1>7
    <2>. QED
        BY <1>2, <2>1
<1>9. Total(f, s \ {z}) = f[p] + Total(f, (s \ {p}) \ {z})
    <2>1. s \ {z} \in SUBSET S /\ s \ {z} # s /\ p \in s \ {z}
        BY <1>5, <1>7
    <2>2. Total(f, s \ {z}) = f[p] + Total(f, (s \ {z}) \ {p})
        BY <1>2, <2>1
    <2>3. (s \ {p}) \ {z} = (s \ {z}) \ {p}
        OBVIOUS
    <2>. QED
        BY <2>2, <2>3
<1> DEFINE q == (s \ {p}) \ {z}
<1>10. f[p] \in Nat /\ f[z] \in Nat /\ Total(f, q) \in Nat
    BY <1>4, <1>5
<1>. QED
    BY <1>3, <1>6, <1>8, <1>9, <1>10

(* If one summand is no more than another in a proportion, so is the sum. *)
LEMMA TotalScales ==
    ASSUME NEW f, NEW g, NEW a \in Nat, NEW b \in Nat, NEW S, IsFiniteSet(S),
           \A x \in S : f[x] \in Nat /\ g[x] \in Nat /\ f[x] * a <= g[x] * b
    PROVE  Total(f, S) * a <= Total(g, S) * b
<1> DEFINE T == {u \in SUBSET S : ~(Total(f, u) * a <= Total(g, u) * b)}
<1>. SUFFICES ASSUME ~(Total(f, S) * a <= Total(g, S) * b) PROVE FALSE
    OBVIOUS
<1>1. T \subseteq SUBSET S /\ S \in T
    OBVIOUS
<1>2. PICK s \in T : \A u \in T : u \subseteq s => u = s
    <2>. HIDE DEF T
    <2>. QED
        BY <1>1, SmallestSubset
<1>3. \A u \in SUBSET S : IsFiniteSet(u) /\ Total(f, u) \in Nat /\ Total(g, u) \in Nat
    BY FS_Subset, TotalNat
<1>4. s \in SUBSET S /\ IsFiniteSet(s)
    BY <1>3
<1>5. s # {}
    <2>. SUFFICES ASSUME s = {} PROVE FALSE
        OBVIOUS
    <2>1. Total(f, s) = 0 /\ Total(g, s) = 0
        BY <1>4, TotalUnfolds
    <2>2. Total(f, s) * a = 0 /\ Total(g, s) * b = 0
        BY <2>1
    <2>. QED
        BY <2>2
<1>6. PICK p \in s : /\ Total(f, s) = f[p] + Total(f, s \ {p})
                     /\ Total(g, s) = g[p] + Total(g, s \ {p})
    BY <1>4, <1>5, TotalUnfolds
<1> DEFINE x == Total(f, s \ {p})
           y == Total(g, s \ {p})
<1>7. x * a <= y * b
    BY <1>2, <1>4
<1>8. f[p] \in Nat /\ g[p] \in Nat /\ f[p] * a <= g[p] * b /\ x \in Nat /\ y \in Nat
    BY <1>3, <1>4
<1>9. ~((f[p] + x) * a <= (g[p] + y) * b)
    BY <1>6
<1>. HIDE DEF x, y
<1>. QED
    BY <1>7, <1>8, <1>9

(* A sum only grows with its summands. *)
LEMMA TotalGrows ==
    ASSUME NEW f, NEW g, NEW S, IsFiniteSet(S),
           \A x \in S : f[x] \in Nat /\ g[x] \in Nat /\ f[x] <= g[x]
    PROVE  Total(f, S) <= Total(g, S)
<1>1. \A x \in S : f[x] * 1 <= g[x] * 1
    OBVIOUS
<1>2. Total(f, S) * 1 <= Total(g, S) * 1
    BY <1>1, TotalScales
<1>3. Total(f, S) \in Nat /\ Total(g, S) \in Nat
    BY TotalNat
<1>. QED
    BY <1>2, <1>3

(* What is zero does not count. *)
LEMMA TotalOfSome ==
    ASSUME NEW f, NEW S, IsFiniteSet(S), \A x \in S : f[x] \in Nat,
           NEW R \in SUBSET S, \A x \in S \ R : f[x] = 0
    PROVE  Total(f, S) = Total(f, R)
<1> DEFINE T == {u \in SUBSET S : R \subseteq u /\ Total(f, u) # Total(f, R)}
<1>. SUFFICES ASSUME Total(f, S) # Total(f, R) PROVE FALSE
    OBVIOUS
<1>1. T \subseteq SUBSET S /\ S \in T
    OBVIOUS
<1>2. PICK s \in T : \A u \in T : u \subseteq s => u = s
    <2>. HIDE DEF T
    <2>. QED
        BY <1>1, SmallestSubset
<1>3. PICK p \in s : p \notin R
    <2>. R \subseteq s /\ s # R
        OBVIOUS
    <2>. HIDE DEF T
    <2>. QED
        OBVIOUS
<1>4. IsFiniteSet(s) /\ (\A x \in s : f[x] \in Nat) /\ f[p] = 0
    BY <1>3, FS_Subset
<1>5. Total(f, s) = 0 + Total(f, s \ {p})
    BY <1>4, TotalWithout
<1>6. Total(f, s \ {p}) = Total(f, R)
    <2>1. s \ {p} \in SUBSET S /\ R \subseteq s \ {p} /\ s \ {p} # s
        BY <1>3
    <2>. QED
        BY <1>2, <2>1
<1>7. Total(f, s \ {p}) \in Nat
    <2>. IsFiniteSet(s \ {p}) /\ \A x \in s \ {p} : f[x] \in Nat
        BY <1>4, FS_Subset
    <2>. QED
        BY TotalNat
<1>. QED
    BY <1>2, <1>5, <1>6, <1>7

(* The links of c with the expenses of S.                                  *)
LinksWith(c, S) == {c} \X S

(* A sum over links of one credit is a sum over expenses. *)
LEMMA TotalOverExpenses ==
    ASSUME NEW f, NEW g, NEW c, NEW S, IsFiniteSet(S),
           \A e \in S : g[e] \in Nat /\ f[<<c, e>>] = g[e]
    PROVE  Total(f, LinksWith(c, S)) = Total(g, S)
<1> DEFINE I(u) == {c} \X u
           T == {u \in SUBSET S : Total(f, I(u)) # Total(g, u)}
<1>. SUFFICES ASSUME Total(f, I(S)) # Total(g, S) PROVE FALSE
    BY DEF LinksWith
<1>1. T \subseteq SUBSET S /\ S \in T
    OBVIOUS
<1>2. PICK s \in T : \A u \in T : u \subseteq s => u = s
    <2>. HIDE DEF T
    <2>. QED
        BY <1>1, SmallestSubset
<1>3. s \in SUBSET S /\ IsFiniteSet(s) /\ IsFiniteSet(I(s))
    <2>1. IsFiniteSet(s)
        BY FS_Subset
    <2>2. IsFiniteSet(I(s))
        BY <2>1, FS_Singleton, FS_Product
    <2>. QED
        BY <2>1, <2>2
<1>4. s # {}
    <2>. SUFFICES ASSUME s = {} PROVE FALSE
        OBVIOUS
    <2>1. I(s) = {}
        OBVIOUS
    <2>2. Total(f, I(s)) = 0 /\ Total(g, s) = 0
        <3>. HIDE DEF I
        <3>. QED
            BY <1>3, <2>1, TotalUnfolds
    <2>. QED
        BY <2>2
<1>5. PICK p \in s : TRUE
    BY <1>4
<1>6. Total(g, s) = g[p] + Total(g, s \ {p})
    <2>. \A x \in s : g[x] \in Nat
        OBVIOUS
    <2>. QED
        BY <1>3, TotalWithout
<1>7. Total(f, I(s)) = f[<<c, p>>] + Total(f, I(s \ {p}))
    <2>1. \A x \in I(s) : f[x] \in Nat
        OBVIOUS
    <2>2. <<c, p>> \in I(s)
        BY <1>5
    <2>3. I(s \ {p}) = I(s) \ {<<c, p>>}
        OBVIOUS
    <2> DEFINE J == I(s)
    <2>4. Total(f, J) = f[<<c, p>>] + Total(f, J \ {<<c, p>>})
        <3>. HIDE DEF I
        <3>1. IsFiniteSet(J) /\ (\A x \in J : f[x] \in Nat) /\ <<c, p>> \in J
            BY <1>3, <2>1, <2>2
        <3>. HIDE DEF J
        <3>. QED
            BY <3>1, TotalWithout
    <2>. HIDE DEF I
    <2>. QED
        BY <2>3, <2>4
<1>8. Total(f, I(s \ {p})) = Total(g, s \ {p})
    BY <1>2, <1>3, <1>5
<1>9. g[p] = f[<<c, p>>]
    BY <1>3, <1>5
<1>. HIDE DEF I
<1>. QED
    BY <1>2, <1>6, <1>7, <1>8, <1>9

-----------------------------------------------------------------------------
(* What the operators of the model do to links                             *)

(* There are finitely many rows and links. *)
LEMMA RowsAreFinite == IsFiniteSet(Rows) /\ \A r : IsFiniteSet(LinksOf(r))
<1>1. IsFiniteSet(Rows) /\ IsFiniteSet(Links)
    BY ReimbursementAssumption, FS_Union, FS_Product DEF Rows, Links
<1>2. \A r : LinksOf(r) \subseteq Links
    BY DEF LinksOf
<1>. QED
    BY <1>1, <1>2, FS_Subset

(* Links of amounts.                                                       *)
Amounting(lk) == \A l \in Links : lk[l] \in Nat

LEMMA LinkedTotalNat ==
    ASSUME NEW lk, Amounting(lk), NEW r
    PROVE  LinkedTotal(lk, r) \in Nat
<1>1. \A l \in LinksOf(r) : lk[l] \in Nat
    BY DEF LinksOf, Amounting
<1>. QED
    BY <1>1, LinkedTotalIs, RowsAreFinite, TotalNat

(* Where no link of a row grows, what is linked to the row does not. *)
LEMMA LinkedTotalGrows ==
    ASSUME NEW f, NEW g, Amounting(f), Amounting(g), NEW r,
           \A l \in LinksOf(r) : f[l] <= g[l]
    PROVE  LinkedTotal(f, r) <= LinkedTotal(g, r)
<1>1. \A l \in LinksOf(r) : f[l] \in Nat /\ g[l] \in Nat
    BY DEF LinksOf, Amounting
<1>. QED
    BY <1>1, LinkedTotalIs, RowsAreFinite, TotalGrows

(* The rest of the links of a row, beside one of them. *)
LEMMA LinkedTotalWithout ==
    ASSUME NEW lk, Amounting(lk), NEW r, NEW l \in LinksOf(r)
    PROVE  /\ LinkedTotal(lk, r) = lk[l] + Total(lk, LinksOf(r) \ {l})
           /\ Total(lk, LinksOf(r) \ {l}) \in Nat
<1>1. \A k \in LinksOf(r) : lk[k] \in Nat
    BY DEF LinksOf, Amounting
<1>2. IsFiniteSet(LinksOf(r)) /\ IsFiniteSet(LinksOf(r) \ {l})
    BY RowsAreFinite, FS_Subset
<1>3. Total(lk, LinksOf(r)) = lk[l] + Total(lk, LinksOf(r) \ {l})
    BY <1>1, <1>2, TotalWithout
<1>4. Total(lk, LinksOf(r) \ {l}) \in Nat
    BY <1>1, <1>2, TotalNat
<1>. QED
    BY <1>3, <1>4, LinkedTotalIs

(* A row without a link has a total of zero. *)
LEMMA UnlinkedTotal ==
    ASSUME NEW lk, Amounting(lk), NEW r, ~Linked(lk, r)
    PROVE  LinkedTotal(lk, r) = 0
<1>1. \A l \in LinksOf(r) : lk[l] \in Nat /\ lk[l] = 0
    BY DEF LinksOf, Linked, Amounting
<1>2. Total(lk, LinksOf(r)) = Total(lk, {})
    BY <1>1, RowsAreFinite, TotalOfSome
<1>3. Total(lk, {}) = 0
    BY FS_EmptySet, TotalUnfolds
<1>. QED
    BY <1>2, <1>3, LinkedTotalIs

(* Rounding a share down. *)
LEMMA ShareRoundsDown ==
    ASSUME NEW a \in Nat, NEW c \in Nat, NEW t \in Nat \ {0}, c <= t
    PROVE  /\ (a * c) \div t \in Nat
           /\ ((a * c) \div t) * t <= a * c
           /\ (a * c) \div t <= a
<1> DEFINE x == a * c
           q == x \div t
<1>1. x \in Nat /\ x <= a * t
    OBVIOUS
<1>2. q \in Nat /\ q * t <= x
    <2>. HIDE DEF x
    <2>. QED
        BY <1>1
<1>3. q <= a
    <2>. SUFFICES ASSUME q > a PROVE FALSE
        BY <1>2
    <2>. HIDE DEF x, q
    <2>1. q * t >= (a + 1) * t
        BY <1>2
    <2>2. (a + 1) * t = a * t + t /\ a * t \in Nat
        OBVIOUS
    <2>. QED
        BY <1>1, <1>2, <2>1, <2>2
<1>. QED
    BY <1>2, <1>3

(* Fitted links are no larger than before, and fit.                        *)
LEMMA FittedFits ==
    ASSUME NEW lk, Amounting(lk), NEW r, NEW c \in Nat
    PROVE  /\ DOMAIN Fitted(lk, r, c) = Links
           /\ \A l \in Links : Fitted(lk, r, c)[l] \in 0 .. lk[l]
           /\ LinkedTotal(Fitted(lk, r, c), r) <= c
<1> DEFINE t == LinkedTotal(lk, r)
           f == Fitted(lk, r, c)
<1>1. t \in Nat
    BY LinkedTotalNat
<1>2. /\ DOMAIN f = Links
      /\ \A l \in Links : f[l] = IF l \in LinksOf(r) /\ lk[l] > 0 /\ t > c
                                 THEN (lk[l] * c) \div t ELSE lk[l]
    BY DEF Fitted
<1>. HIDE DEF t, f
<1>3. \A l \in Links : lk[l] \in Nat
    BY DEF Amounting
<1>4. \A l \in Links : f[l] \in 0 .. lk[l]
    <2>. SUFFICES ASSUME NEW l \in Links PROVE f[l] \in 0 .. lk[l]
        OBVIOUS
    <2>1. CASE l \in LinksOf(r) /\ lk[l] > 0 /\ t > c
        <3>1. f[l] \in Nat /\ f[l] <= lk[l]
            BY <1>1, <1>2, <1>3, <2>1, ShareRoundsDown
        <3>. QED
            BY <1>3, <3>1
    <2>2. CASE ~(l \in LinksOf(r) /\ lk[l] > 0 /\ t > c)
        <3>1. f[l] = lk[l]
            BY <1>2, <2>2
        <3>. QED
            BY <1>3, <3>1
    <2>. QED
        BY <2>1, <2>2
<1>5. Amounting(f)
    BY <1>3, <1>4 DEF Amounting
<1>6. LinkedTotal(f, r) \in Nat
    BY <1>5, LinkedTotalNat
<1>7. CASE t <= c
    <2>1. \A l \in LinksOf(r) : f[l] <= lk[l]
        BY <1>3, <1>4 DEF LinksOf
    <2>2. LinkedTotal(f, r) <= t
        BY <1>5, <2>1, LinkedTotalGrows DEF t
    <2>. QED
        BY <1>1, <1>6, <1>7, <1>2, <1>4, <2>2 DEF f
<1>8. CASE t > c
    <2>1. \A l \in LinksOf(r) : f[l] \in Nat /\ lk[l] \in Nat /\ f[l] * t <= lk[l] * c
        <3>. SUFFICES ASSUME NEW l \in LinksOf(r)
                      PROVE  f[l] \in Nat /\ lk[l] \in Nat /\ f[l] * t <= lk[l] * c
            OBVIOUS
        <3>1. l \in Links /\ lk[l] \in Nat
            BY <1>3 DEF LinksOf
        <3>2. CASE lk[l] > 0
            <4>1. f[l] = (lk[l] * c) \div t
                BY <1>2, <1>8, <3>1, <3>2
            <4>2. t \in Nat \ {0} /\ c <= t
                BY <1>1, <1>8
            <4>3. /\ (lk[l] * c) \div t \in Nat
                  /\ ((lk[l] * c) \div t) * t <= lk[l] * c
                BY <3>1, <4>2, ShareRoundsDown
            <4>. QED
                BY <3>1, <4>1, <4>3
        <3>3. CASE lk[l] = 0
            <4>1. f[l] = 0
                BY <1>2, <3>1, <3>3
            <4>. QED
                BY <1>1, <3>3, <4>1
        <3>. QED
            BY <3>1, <3>2, <3>3
    <2>2. LinkedTotal(f, r) * t <= t * c
        <3>1. Total(f, LinksOf(r)) * t <= Total(lk, LinksOf(r)) * c
            BY <1>1, <2>1, RowsAreFinite, TotalScales
        <3>. QED
            BY <3>1, LinkedTotalIs DEF t
    <2>3. LinkedTotal(f, r) <= c
        <3> DEFINE x == LinkedTotal(f, r)
        <3>1. x \in Nat /\ x * t <= t * c
            BY <1>6, <2>2
        <3>. SUFFICES ASSUME x > c PROVE FALSE
            BY <3>1
        <3>. HIDE DEF x
        <3>2. x * t >= (c + 1) * t
            BY <1>1, <3>1
        <3>3. (c + 1) * t = t * c + t /\ t * c \in Nat /\ x * t \in Nat
            BY <1>1, <3>1
        <3>. QED
            BY <1>1, <1>8, <3>1, <3>2, <3>3
    <2>. QED
        BY <1>2, <1>4, <2>3 DEF f
<1>. QED
    BY <1>1, <1>7, <1>8

-----------------------------------------------------------------------------
(* The type invariant                                                      *)

(* A function is a partial one if it is defined within the domain and has  *)
(* its values in the range.                                                *)
LEMMA PartialFcnsAre ==
    ASSUME NEW D, NEW R, NEW f
    PROVE  f \in PartialFcns(D, R) <=> DOMAIN f \subseteq D /\ f \in [DOMAIN f -> R]
BY DEF PartialFcns

LEMMA PartialFcnsYield ==
    ASSUME NEW D, NEW R, NEW f, f \in PartialFcns(D, R)
    PROVE  \A x \in DOMAIN f : f[x] \in R
<1>1. f \in [DOMAIN f -> R]
    BY PartialFcnsAre
<1>. QED
    BY <1>1

LEMMA OverTyped ==
    ASSUME NEW D, NEW R, NEW f \in [D -> R], NEW w \in PartialFcns(D, R)
    PROVE  Over(w, f) \in [D -> R]
BY PartialFcnsAre DEF Over

(* What a session is about to do has the rows and the amount for it.       *)
JobTyped(j) ==
    /\ j.kind \in {"link", "accept"} => \E l \in Links : {j.row, j.other} = Ends(l)
    /\ j.kind = "replace" /\ j.at = "lock" => j.row \in Credits
    /\ j.kind = "edit" /\ j.at = "lock" => j.row \in Rows /\ j.amt \in Amounts
    /\ j.at = "take" => j.row \in Rows /\ j.amt \in Amounts
    /\ j.at = "unpair" => j.row \in Rows
    /\ j.at = "write" => j.kind \in {"replace", "edit", "sync"}

JobsTyped == \A s \in Sessions : JobTyped(job[s])

(* The type invariant is inductive with what jobs know of their rows.      *)
TypeInv == TypeOK /\ JobsTyped

LEMMA NoJobTyped == NoJob \in Jobs /\ JobTyped(NoJob) /\ NoWrites \in Writes
<1>1. 0 \in 0 .. MaxAmount
    BY ReimbursementAssumption
<1>2. NoJob \in Jobs
    BY <1>1 DEF NoJob, Jobs
<1>3. JobTyped(NoJob)
    BY DEF NoJob, JobTyped
<1>4. \A D, R : <<>> \in PartialFcns(D, R)
    BY DEF PartialFcns
<1>. QED
    BY <1>2, <1>3, <1>4 DEF NoWrites, Writes

(* A job of one kind, at one point and with no arguments.                  *)
LEMMA BareJobTyped ==
    ASSUME NEW k \in {"replace", "edit", "sync"}, NEW a \in {"feed", "write"}
    PROVE  LET j == [NoJob EXCEPT !.kind = k, !.at = a]
           IN  j \in Jobs /\ JobTyped(j) /\ j.kind = k /\ j.at = a
<1> DEFINE j == [NoJob EXCEPT !.kind = k, !.at = a]
<1>1. j \in Jobs
    BY NoJobTyped DEF Jobs, Requests
<1>2. j.kind = k /\ j.at = a
    BY DEF NoJob
<1>. QED
    BY <1>1, <1>2 DEF JobTyped

LEMMA InitTypeInv == Init => TypeInv
<1>. SUFFICES ASSUME Init PROVE TypeInv
    OBVIOUS
<1>1. TypeOK
    <2>0. {} \in PairIds /\ "none" \in Questions
        BY DEF PairIds, Questions
    <2>1. /\ split \in SUBSET Rows /\ pair \in [Rows -> PairIds]
          /\ question \in [Links -> Questions] /\ begun \in 0 .. MaxRequests
        BY <2>0, ReimbursementAssumption DEF Init
    <2>3. crossed \in BOOLEAN
        BY DEF Init
    <2>2. /\ job \in [Sessions -> Jobs] /\ held \in [Sessions -> SUBSET Rows]
          /\ todo \in [Sessions -> SUBSET Rows] /\ pend \in [Sessions -> Writes]
        BY NoJobTyped DEF Init
    <2>. QED
        BY <2>1, <2>2, <2>3 DEF Init, TypeOK
<1>2. JobsTyped
    BY NoJobTyped DEF Init, JobsTyped
<1>. QED
    BY <1>1, <1>2 DEF TypeInv

(* A session goes from job to job with well-typed locks and writes. *)
LEMMA StepTyped ==
    ASSUME TypeInv, NEW s \in Sessions, NEW j \in Jobs, JobTyped(j), NEW R \in SUBSET Rows,
           NEW w \in Writes,
           job' = [job EXCEPT ![s] = j], todo' = [todo EXCEPT ![s] = R],
           pend' = [pend EXCEPT ![s] = w], UNCHANGED <<tables, held, crossed>>,
           begun' \in 0 .. MaxRequests
    PROVE  TypeInv'
<1>1. TypeOK'
    BY DEF TypeInv, TypeOK, tables
<1>2. JobsTyped'
    BY DEF TypeInv, TypeOK, JobsTyped
<1>. QED
    BY <1>1, <1>2 DEF TypeInv

(* So it begins. *)
LEMMA BeginTyped ==
    ASSUME TypeInv, NEW s \in Sessions, NEW j \in Jobs, JobTyped(j), NEW R \in SUBSET Rows,
           Begin(s, j, R)
    PROVE  TypeInv'
<1>1. /\ job' = [job EXCEPT ![s] = j] /\ todo' = [todo EXCEPT ![s] = R]
      /\ UNCHANGED <<tables, held, pend, crossed>> /\ begun' = begun + 1 /\ begun < MaxRequests
    BY DEF Begin
<1>2. pend' = [pend EXCEPT ![s] = pend[s]] /\ pend[s] \in Writes
    BY <1>1 DEF TypeInv, TypeOK
<1>3. begun' \in 0 .. MaxRequests
    BY <1>1, ReimbursementAssumption DEF TypeInv, TypeOK
<1>. QED
    BY <1>1, <1>2, <1>3, StepTyped

(* And it ends, whatever well-typed tables it leaves. *)
LEMMA EndTyped ==
    ASSUME TypeInv, NEW s \in Sessions, End(s),
           amount' \in [Rows -> Amounts], split' \in SUBSET Rows, pair' \in [Rows -> PairIds],
           link' \in [Links -> 0 .. MaxAmount], question' \in [Links -> Questions],
           crossed' \in BOOLEAN
    PROVE  TypeInv'
<1>1. /\ job' = [job EXCEPT ![s] = NoJob] /\ held' = [held EXCEPT ![s] = {}]
      /\ todo' = [todo EXCEPT ![s] = {}] /\ pend' = [pend EXCEPT ![s] = NoWrites]
      /\ UNCHANGED begun
    BY DEF End
<1>2. TypeOK'
    BY <1>1, NoJobTyped DEF TypeInv, TypeOK
<1>3. JobsTyped'
    BY <1>1, NoJobTyped DEF TypeInv, TypeOK, JobsTyped
<1>. QED
    BY <1>2, <1>3 DEF TypeInv

LEMMA FailTyped ==
    ASSUME TypeInv, NEW s \in Sessions, Fail(s)
    PROVE  TypeInv'
<1>1. End(s) /\ UNCHANGED <<amount, split, pair, link, question, crossed>>
    BY DEF Fail, tables
<1>. QED
    BY <1>1, EndTyped DEF TypeInv, TypeOK

(* A pair id names rows. *)
LEMMA PairIdsAreRows == PairIds \subseteq SUBSET Rows
BY EndsAreRows DEF PairIds

(* The job a request begins with, and the rows it is going to lock.        *)
Begun(s, j, R) ==
    /\ j \in Jobs
    /\ JobTyped(j)
    /\ R \in SUBSET Rows
    /\ j.at = IF j.kind = "sync" THEN "feed" ELSE "lock"
    /\ j.kind = "edit" => j.row \in R
    /\ Begin(s, j, R)

LEMMA RequestBegins ==
    ASSUME TypeInv, IInv, NEW s \in Sessions, Request(s)
    PROVE  \E j, R : Begun(s, j, R)
<1>1. CASE BeginReplace(s)
    <2>. PICK c \in Credits, want \in [Expenses -> 0 .. MaxAmount] :
            Begin(s, [NoJob EXCEPT !.kind = "replace", !.at = "lock", !.row = c, !.want = want],
                  {c} \cup Asks(want))
        BY <1>1 DEF BeginReplace
    <2> DEFINE j == [NoJob EXCEPT !.kind = "replace", !.at = "lock", !.row = c, !.want = want]
    <2>1. j \in Jobs
        BY NoJobTyped DEF Jobs, Requests, Rows
    <2>2. j.kind = "replace" /\ j.at = "lock" /\ j.row = c
        BY DEF NoJob
    <2>3. {c} \cup Asks(want) \in SUBSET Rows
        BY DEF Asks, Rows
    <2>. HIDE DEF j
    <2>4. JobTyped(j)
        BY <2>2 DEF JobTyped
    <2>. QED
        BY <2>1, <2>2, <2>3, <2>4 DEF Begun, j
<1>2. CASE BeginLink(s)
    <2>. PICK l \in Links :
            Begin(s, [NoJob EXCEPT !.kind = "link", !.at = "lock", !.row = l[1], !.other = l[2]],
                  Ends(l))
        BY <1>2 DEF BeginLink
    <2> DEFINE j == [NoJob EXCEPT !.kind = "link", !.at = "lock", !.row = l[1], !.other = l[2]]
    <2>0. l[1] \in Rows /\ l[2] \in Rows /\ Ends(l) \in SUBSET Rows
        BY EndsAreRows DEF Ends, Links, Rows
    <2>1. j \in Jobs
        BY <2>0, NoJobTyped DEF Jobs, Requests
    <2>2. j.kind = "link" /\ j.at = "lock" /\ {j.row, j.other} = Ends(l)
        BY DEF NoJob, Ends
    <2>. HIDE DEF j
    <2>4. JobTyped(j)
        BY <2>2 DEF JobTyped
    <2>. QED
        BY <2>0, <2>1, <2>2, <2>4 DEF Begun, j
<1>3. CASE BeginAccept(s)
    <2>. PICK m \in Rows, o \in Rows :
            /\ Asked(m, o)
            /\ Begin(s, [NoJob EXCEPT !.kind = "accept", !.at = "lock", !.row = m, !.other = o],
                     {m, o})
        BY <1>3 DEF BeginAccept
    <2> DEFINE j == [NoJob EXCEPT !.kind = "accept", !.at = "lock", !.row = m, !.other = o]
    <2>0. \E l \in Links : {m, o} = Ends(l)
        BY DEF Asked, Ends
    <2>1. j \in Jobs
        BY NoJobTyped DEF Jobs, Requests
    <2>2. j.kind = "accept" /\ j.at = "lock" /\ j.row = m /\ j.other = o
        BY DEF NoJob
    <2>. HIDE DEF j
    <2>4. JobTyped(j)
        BY <2>0, <2>2 DEF JobTyped
    <2>. QED
        BY <2>1, <2>2, <2>4 DEF Begun, j
<1>4. CASE BeginUnpair(s)
    <2>. PICK p \in PairIds \ {{}} :
            Begin(s, [NoJob EXCEPT !.kind = "unpair", !.at = "lock", !.seen = p],
                  {r \in Rows : pair[r] = p})
        BY <1>4 DEF BeginUnpair
    <2> DEFINE j == [NoJob EXCEPT !.kind = "unpair", !.at = "lock", !.seen = p]
    <2>1. j \in Jobs
        BY NoJobTyped, PairIdsAreRows DEF Jobs, Requests
    <2>2. j.kind = "unpair" /\ j.at = "lock"
        BY DEF NoJob
    <2>. HIDE DEF j
    <2>4. JobTyped(j)
        BY <2>2 DEF JobTyped
    <2>. QED
        BY <2>1, <2>2, <2>4 DEF Begun, j
<1>5. CASE BeginSplit(s)
    <2>. PICK r \in Rows : Begin(s, [NoJob EXCEPT !.kind = "split", !.at = "lock", !.seen = {r}], {r})
        BY <1>5 DEF BeginSplit
    <2> DEFINE j == [NoJob EXCEPT !.kind = "split", !.at = "lock", !.seen = {r}]
    <2>1. j \in Jobs
        BY NoJobTyped DEF Jobs, Requests
    <2>2. j.kind = "split" /\ j.at = "lock"
        BY DEF NoJob
    <2>. HIDE DEF j
    <2>4. JobTyped(j)
        BY <2>2 DEF JobTyped
    <2>. QED
        BY <2>1, <2>2, <2>4 DEF Begun, j
<1>8. CASE BeginBulkSplit(s)
    <2>. PICK rows \in SUBSET Rows :
            Begin(s, [NoJob EXCEPT !.kind = "split", !.at = "lock",
                                   !.seen = {r \in rows : pair[r] = {} /\ r \notin split}], rows)
        BY <1>8 DEF BeginBulkSplit
    <2> DEFINE seen == {r \in rows : pair[r] = {} /\ r \notin split}
               j == [NoJob EXCEPT !.kind = "split", !.at = "lock", !.seen = seen]
    <2>0. seen \in SUBSET Rows
        OBVIOUS
    <2>1. j \in Jobs
        <3>. HIDE DEF seen
        <3>. QED
            BY <2>0, NoJobTyped DEF Jobs, Requests
    <2>2. j.kind = "split" /\ j.at = "lock"
        BY DEF NoJob
    <2>3. Begin(s, j, rows)
        OBVIOUS
    <2>. HIDE DEF j
    <2>4. JobTyped(j)
        BY <2>2 DEF JobTyped
    <2>. QED
        BY <2>1, <2>2, <2>3, <2>4 DEF Begun
<1>6. CASE BeginEdit(s)
    <2>. PICK r \in Rows, a \in Amounts :
            Begin(s, [NoJob EXCEPT !.kind = "edit", !.at = "lock", !.row = r, !.amt = a,
                                   !.seen = pair[r]], {r})
        BY <1>6 DEF BeginEdit
    <2> DEFINE j == [NoJob EXCEPT !.kind = "edit", !.at = "lock", !.row = r, !.amt = a,
                                  !.seen = pair[r]]
    <2>0. pair[r] \in SUBSET Rows /\ a \in 0 .. MaxAmount
        BY PairIdsAreRows DEF TypeInv, TypeOK, Amounts
    <2>1. j \in Jobs
        BY <2>0, NoJobTyped DEF Jobs, Requests
    <2>2. j.kind = "edit" /\ j.at = "lock" /\ j.row = r /\ j.amt = a
        BY DEF NoJob
    <2>. HIDE DEF j
    <2>4. JobTyped(j)
        BY <2>2 DEF JobTyped
    <2>. QED
        BY <2>1, <2>2, <2>4 DEF Begun, j
<1>7. CASE BeginSync(s)
    <2> DEFINE j == [NoJob EXCEPT !.kind = "sync", !.at = "feed"]
    <2>1. j \in Jobs /\ JobTyped(j) /\ j.kind = "sync" /\ j.at = "feed"
        BY BareJobTyped
    <2>2. Begin(s, j, {})
        BY <1>7 DEF BeginSync
    <2>. HIDE DEF j
    <2>. QED
        BY <2>1, <2>2 DEF Begun
<1>. QED
    BY <1>1, <1>2, <1>3, <1>4, <1>5, <1>6, <1>7, <1>8 DEF Request

LEMMA RequestTyped ==
    ASSUME TypeInv, IInv, NEW s \in Sessions, Request(s)
    PROVE  TypeInv'
BY RequestBegins, BeginTyped DEF Begun

LEMMA LockNextTyped ==
    ASSUME TypeInv, NEW s \in Sessions, LockNext(s)
    PROVE  TypeInv'
<1>. PICK r \in todo[s] :
        /\ held' = [held EXCEPT ![s] = @ \cup {r}]
        /\ todo' = [todo EXCEPT ![s] = @ \ {r}]
    BY DEF LockNext
<1>1. UNCHANGED <<tables, job, pend, begun, crossed>>
    BY DEF LockNext
<1>2. TypeOK'
    BY <1>1 DEF TypeInv, TypeOK, tables
<1>. QED
    BY <1>1, <1>2 DEF TypeInv, JobsTyped

(* What a request has asked for, and the writes so far, are well typed. *)
LEMMA TypesOf ==
    ASSUME TypeInv, NEW s \in Sessions
    PROVE  /\ job[s] \in Jobs /\ JobTyped(job[s]) /\ pend[s] \in Writes
           /\ held[s] \in SUBSET Rows /\ todo[s] \in SUBSET Rows
           /\ pend = [pend EXCEPT ![s] = pend[s]] /\ todo = [todo EXCEPT ![s] = todo[s]]
           /\ begun \in 0 .. MaxRequests
BY DEF TypeInv, TypeOK, JobsTyped

(* A replace, edit or sync goes on without arguments. *)
LEMMA GotoTyped ==
    ASSUME TypeInv, NEW s \in Sessions, job[s].kind \in {"replace", "edit", "sync"},
           NEW a \in {"feed", "write"}, Goto(s, a), NEW R \in SUBSET Rows, NEW w \in Writes,
           todo' = [todo EXCEPT ![s] = R], pend' = [pend EXCEPT ![s] = w],
           UNCHANGED <<tables, held, begun, crossed>>
    PROVE  TypeInv'
<1> DEFINE j == [NoJob EXCEPT !.kind = job[s].kind, !.at = a]
<1>1. j \in Jobs /\ JobTyped(j) /\ job' = [job EXCEPT ![s] = j]
    BY BareJobTyped DEF Goto
<1>2. begun' \in 0 .. MaxRequests
    BY TypesOf
<1>. HIDE DEF j
<1>. QED
    BY <1>1, <1>2, StepTyped

LEMMA ReplaceTyped ==
    ASSUME TypeInv, NEW s \in Sessions, Replace(s)
    PROVE  TypeInv'
<1> DEFINE c == job[s].row
           want == job[s].want
           changed == {l \in Links : l[1] = c /\ link[l] # want[l[2]]}
           lw == [l \in changed |-> want[l[2]]]
           ww == [l \in changed |-> link[l]]
           w == [pend[s] EXCEPT !.link = lw, !.was = ww]
<1>1. /\ job[s].kind = "replace" /\ Goto(s, "write")
      /\ pend' = [pend EXCEPT ![s].link = lw, ![s].was = ww]
      /\ UNCHANGED <<tables, held, todo, begun, crossed>>
    BY DEF Replace, At
<1>2. want \in [Expenses -> 0 .. MaxAmount] /\ link \in [Links -> 0 .. MaxAmount]
    BY TypesOf DEF Jobs, TypeInv, TypeOK
<1>3. \A l \in Links : l[2] \in Expenses
    BY DEF Links
<1>4. lw \in PartialFcns(Links, 0 .. MaxAmount) /\ ww \in PartialFcns(Links, 0 .. MaxAmount)
    <2>1. changed \subseteq Links /\ \A l \in changed : want[l[2]] \in 0 .. MaxAmount /\ link[l] \in 0 .. MaxAmount
        BY <1>2, <1>3
    <2>. HIDE DEF changed, want
    <2>2. DOMAIN lw = changed /\ lw \in [changed -> 0 .. MaxAmount]
          /\ DOMAIN ww = changed /\ ww \in [changed -> 0 .. MaxAmount]
        BY <2>1
    <2>. HIDE DEF lw, ww
    <2>. QED
        BY <2>1, <2>2, PartialFcnsAre
<1>. HIDE DEF lw, ww
<1>5. w \in Writes
    BY <1>4, TypesOf DEF Writes
<1>6. pend' = [pend EXCEPT ![s] = w]
    BY <1>1
<1>7. todo' = [todo EXCEPT ![s] = todo[s]] /\ todo[s] \in SUBSET Rows
    BY <1>1, TypesOf
<1>. HIDE DEF w
<1>. QED
    BY <1>1, <1>5, <1>6, <1>7, GotoTyped

LEMMA EndsArePairIds == \A l \in Links : Ends(l) \in PairIds /\ Ends(l) # {}
BY DEF PairIds, Ends

LEMMA LinkTyped ==
    ASSUME TypeInv, NEW s \in Sessions, Link(s) \/ Accept(s)
    PROVE  TypeInv'
<1> DEFINE m == job[s].row
           o == job[s].other
<1>1. /\ MakePair(m, o) /\ End(s) /\ UNCHANGED <<amount, split, link, crossed>>
      /\ job[s].kind \in {"link", "accept"}
      /\ question' = question \/ question' =
            [l \in Links |-> IF Ends(l) = {m, o} THEN "answered" ELSE question[l]]
    BY DEF Link, Accept, At
<1>2. {m, o} \in PairIds
    BY <1>1, TypesOf, EndsArePairIds DEF JobTyped
<1>3. pair' \in [Rows -> PairIds]
    BY <1>1, <1>2 DEF MakePair, TypeInv, TypeOK
<1>4. question' \in [Links -> Questions]
    BY <1>1 DEF TypeInv, TypeOK, Questions
<1>. QED
    BY <1>1, <1>3, <1>4, EndTyped DEF TypeInv, TypeOK

LEMMA UnpairTyped ==
    ASSUME TypeInv, NEW s \in Sessions, Unpair(s)
    PROVE  TypeInv'
<1>1. pair' \in [Rows -> PairIds]
    BY DEF Unpair, TypeInv, TypeOK, PairIds
<1>2. End(s) /\ UNCHANGED <<amount, split, link, question, crossed>>
    BY DEF Unpair
<1>. QED
    BY <1>1, <1>2, EndTyped DEF TypeInv, TypeOK

LEMMA SplitTyped ==
    ASSUME TypeInv, NEW s \in Sessions, Split(s)
    PROVE  TypeInv'
<1>1. split' \in SUBSET Rows
    BY TypesOf DEF Split, Jobs, TypeInv, TypeOK
<1>2. End(s) /\ UNCHANGED <<amount, pair, link, question, crossed>>
    BY DEF Split
<1>. QED
    BY <1>1, <1>2, EndTyped DEF TypeInv, TypeOK

LEMMA EditTyped ==
    ASSUME TypeInv, NEW s \in Sessions, Edit(s)
    PROVE  TypeInv'
<1>0. PICK F \in SUBSET Rows :
        /\ pend' = [pend EXCEPT ![s].amount = [q \in {job[s].row} \cup F |-> job[s].amt]]
        /\ todo' = [todo EXCEPT ![s] = F]
    BY DEF Edit
<1> DEFINE D == {job[s].row} \cup F
           aw == [q \in D |-> job[s].amt]
           w == [pend[s] EXCEPT !.amount = aw]
<1>1. /\ job[s].kind = "edit" /\ job[s].at = "lock" /\ Goto(s, "write")
      /\ UNCHANGED <<tables, held, begun, crossed>>
    BY DEF Edit, At
<1>2. job[s].row \in Rows /\ job[s].amt \in Amounts
    BY <1>1, TypesOf DEF JobTyped
<1>3. aw \in PartialFcns(Rows, Amounts)
    <2>1. D \subseteq Rows /\ DOMAIN aw = D /\ aw \in [D -> Amounts]
        BY <1>2
    <2>. HIDE DEF aw, D
    <2>. QED
        BY <2>1, PartialFcnsAre
<1>. HIDE DEF aw
<1>4. w \in Writes
    BY <1>3, TypesOf DEF Writes
<1>5. pend' = [pend EXCEPT ![s] = w]
    BY <1>0 DEF aw
<1>. HIDE DEF w
<1>. QED
    BY <1>0, <1>1, <1>4, <1>5, GotoTyped


(* The links as a session sees them are well typed. *)
LEMMA ReadTyped ==
    ASSUME TypeInv, NEW s \in Sessions
    PROVE  /\ Over(pend[s].link, link) \in [Links -> 0 .. MaxAmount]
           /\ Over(pend[s].was, link) \in [Links -> 0 .. MaxAmount]
           /\ Amounting(Over(pend[s].link, link)) /\ Amounting(link)
<1>1. /\ pend[s].link \in PartialFcns(Links, 0 .. MaxAmount)
      /\ pend[s].was \in PartialFcns(Links, 0 .. MaxAmount)
      /\ link \in [Links -> 0 .. MaxAmount]
    BY TypesOf DEF Writes, TypeInv, TypeOK
<1>2. /\ Over(pend[s].link, link) \in [Links -> 0 .. MaxAmount]
      /\ Over(pend[s].was, link) \in [Links -> 0 .. MaxAmount]
    BY <1>1, OverTyped
<1>3. \A lk \in [Links -> 0 .. MaxAmount] : Amounting(lk)
    BY ReimbursementAssumption DEF Amounting
<1>. QED
    BY <1>1, <1>2, <1>3

LEMMA ReportTyped ==
    ASSUME TypeInv, NEW s \in Sessions, Report(s)
    PROVE  TypeInv'
<1>. PICK r \in Rows, a \in Amounts :
        /\ job' = [job EXCEPT ![s].at = "take", ![s].row = r, ![s].amt = a, ![s].seen = pair[r]]
        /\ todo' = [todo EXCEPT ![s] = {r} \ held[s]]
    BY DEF Report
<1> DEFINE j == [job[s] EXCEPT !.at = "take", !.row = r, !.amt = a, !.seen = pair[r]]
<1>1. job[s].kind = "sync" /\ UNCHANGED <<tables, held, pend, begun, crossed>>
    BY DEF Report, At
<1>2. pair[r] \in SUBSET Rows /\ a \in 0 .. MaxAmount
    BY PairIdsAreRows DEF TypeInv, TypeOK, Amounts
<1>3. j \in Jobs /\ j.kind = "sync" /\ j.at = "take" /\ j.row = r /\ j.amt = a
    BY <1>1, <1>2, TypesOf DEF Jobs
<1>4. job' = [job EXCEPT ![s] = j]
    OBVIOUS
<1>. HIDE DEF j
<1>5. JobTyped(j)
    BY <1>3 DEF JobTyped
<1>6. /\ {r} \ held[s] \in SUBSET Rows /\ pend[s] \in Writes /\ begun' \in 0 .. MaxRequests
      /\ pend' = [pend EXCEPT ![s] = pend[s]] /\ UNCHANGED <<tables, held, crossed>>
    BY <1>1, TypesOf
<1>. QED
    BY <1>3, <1>4, <1>5, <1>6, StepTyped

LEMMA DetectTyped ==
    ASSUME TypeInv, NEW s \in Sessions, Detect(s)
    PROVE  TypeInv'
<1>0. \A L : UNION {Ends(l) : l \in L} = EndsOf(L)
    BY DEF EndsOf
<1>. PICK couples \in SUBSET Links :
        /\ job' = [job EXCEPT ![s].at = "pairing", ![s].couples = couples]
        /\ todo' = [todo EXCEPT ![s] = EndsOf(couples) \ held[s]]
    BY <1>0 DEF Detect
<1> DEFINE j == [job[s] EXCEPT !.at = "pairing", !.couples = couples]
           R == EndsOf(couples) \ held[s]
<1>1. job[s].kind = "sync" /\ UNCHANGED <<tables, held, pend, begun, crossed>>
    BY DEF Detect, At
<1>2. EndsOf(couples) \subseteq Rows
    BY EndsAreRows DEF EndsOf
<1>3. j \in Jobs /\ j.kind = "sync" /\ j.at = "pairing"
    BY <1>1, TypesOf DEF Jobs
<1>4. job' = [job EXCEPT ![s] = j]
    OBVIOUS
<1>. HIDE DEF j
<1>5. JobTyped(j)
    BY <1>3 DEF JobTyped
<1>6. /\ R \in SUBSET Rows /\ pend[s] \in Writes /\ begun' \in 0 .. MaxRequests
      /\ pend' = [pend EXCEPT ![s] = pend[s]] /\ UNCHANGED <<tables, held, crossed>>
    BY <1>1, <1>2, TypesOf
<1>7. todo' = [todo EXCEPT ![s] = R]
    OBVIOUS
<1>. HIDE DEF R
<1>. QED
    BY <1>3, <1>4, <1>5, <1>6, <1>7, StepTyped

LEMMA EndFeedTyped ==
    ASSUME TypeInv, NEW s \in Sessions, EndFeed(s)
    PROVE  TypeInv'
<1>1. job[s].kind = "sync" /\ Goto(s, "write") /\ UNCHANGED <<tables, held, todo, pend, begun, crossed>>
    BY DEF EndFeed, At
<1>. QED
    BY <1>1, TypesOf, GotoTyped

LEMMA TakeApartTyped ==
    ASSUME TypeInv, NEW s \in Sessions, TakeApart(s)
    PROVE  TypeInv'
<1> DEFINE legs == {job[s].row} \cup {o \in held[s] : pair[o] = job[s].seen} \cup DOMAIN pend[s].pair
           pw == [o \in legs |-> {}]
           w == [pend[s] EXCEPT !.pair = pw]
<1>1. /\ job[s].kind = "sync" /\ job[s].at = "unpair" /\ Goto(s, "feed")
      /\ pend' = [pend EXCEPT ![s].pair = pw] /\ UNCHANGED <<tables, held, todo, begun, crossed>>
    BY DEF TakeApart, At
<1>2. legs \subseteq Rows
    <2>1. job[s].row \in Rows /\ held[s] \subseteq Rows
        BY <1>1, TypesOf DEF JobTyped
    <2>2. pend[s].pair \in PartialFcns(Rows, PairIds)
        BY TypesOf DEF Writes
    <2>. QED
        BY <2>1, <2>2, PartialFcnsAre
<1>3. pw \in PartialFcns(Rows, PairIds)
    <2>1. DOMAIN pw = legs /\ pw \in [legs -> PairIds]
        BY DEF PairIds
    <2>. HIDE DEF pw, legs
    <2>. QED
        BY <1>2, <2>1, PartialFcnsAre
<1>. HIDE DEF pw
<1>4. w \in Writes
    <2>1. pend[s] \in Writes
        BY TypesOf
    <2>. QED
        BY <1>3, <2>1 DEF Writes
<1>5. pend' = [pend EXCEPT ![s] = w]
    BY <1>1
<1>6. todo' = [todo EXCEPT ![s] = todo[s]] /\ todo[s] \in SUBSET Rows
    BY <1>1, TypesOf
<1>7. UNCHANGED <<tables, held, begun, crossed>>
    BY <1>1
<1>. HIDE DEF w, legs
<1>. QED
    BY <1>1, <1>4, <1>5, <1>6, <1>7, GotoTyped

LEMMA PairDetectedTyped ==
    ASSUME TypeInv, NEW s \in Sessions, PairDetected(s)
    PROVE  TypeInv'
<1> DEFINE sound == {l \in job[s].couples :
                       \A r \in Ends(l) : ~Linked(Over(pend[s].link, link), r)}
           legs == UNION {Ends(l) : l \in sound}
           old == pend[s].pair
           of(r) == CHOOSE l \in sound : r \in Ends(l)
           pw == [r \in DOMAIN old \cup legs |-> IF r \in legs THEN Ends(of(r)) ELSE old[r]]
           w == [pend[s] EXCEPT !.pair = pw]
<1>1. /\ job[s].kind = "sync" /\ Goto(s, "write")
      /\ pend' = [pend EXCEPT ![s].pair = pw]
      /\ UNCHANGED <<tables, held, todo, begun, crossed>>
    BY DEF PairDetected, At
<1>2. sound \subseteq Links
    BY TypesOf DEF Jobs
<1>3. pw \in PartialFcns(Rows, PairIds)
    <2> DEFINE D == DOMAIN old \cup legs
    <2>1. old \in PartialFcns(Rows, PairIds)
        BY TypesOf DEF Writes
    <2>2. DOMAIN old \subseteq Rows /\ \A r \in DOMAIN old : old[r] \in PairIds
        BY <2>1, PartialFcnsAre
    <2>3. legs \subseteq Rows
        <3>. HIDE DEF sound
        <3>. QED
            BY <1>2, EndsAreRows
    <2>4. \A r \in legs : Ends(of(r)) \in PairIds
        <3>1. \A r \in legs : of(r) \in sound
            <4>. HIDE DEF sound
            <4>. QED
                OBVIOUS
        <3>. HIDE DEF sound, of, legs
        <3>. QED
            BY <1>2, <3>1, EndsArePairIds
    <2>. HIDE DEF sound, of, legs, old
    <2>5. D \subseteq Rows /\ DOMAIN pw = D /\ pw \in [D -> PairIds]
        BY <2>2, <2>3, <2>4
    <2>. HIDE DEF pw, D
    <2>. QED
        BY <2>5, PartialFcnsAre
<1>. HIDE DEF pw
<1>4. w \in Writes
    BY <1>3, TypesOf DEF Writes
<1>5. pend' = [pend EXCEPT ![s] = w]
    BY <1>1
<1>6. todo' = [todo EXCEPT ![s] = todo[s]] /\ todo[s] \in SUBSET Rows
    BY <1>1, TypesOf
<1>. HIDE DEF w
<1>. QED
    BY <1>1, <1>4, <1>5, <1>6, GotoTyped

LEMMA TakeTyped ==
    ASSUME TypeInv, NEW s \in Sessions, Take(s)
    PROVE  TypeInv'
<1> DEFINE r == job[s].row
           read == Over(pend[s].link, link)
           wasRead == Over(pend[s].was, link)
           fitted == Fitted(read, r, job[s].amt)
           dirty == {l \in Links : l \in DOMAIN pend[s].link \/ fitted[l] # read[l]}
           legs == {o \in Rows : pair[o] = job[s].seen} \ held[s]
           A == DOMAIN pend[s].amount \cup {r}
           aw == [q \in A |-> IF q = r THEN job[s].amt ELSE pend[s].amount[q]]
           lw == [l \in dirty |-> fitted[l]]
           ww == [l \in dirty |-> wasRead[l]]
           w == [pend[s] EXCEPT !.amount = aw, !.link = lw, !.was = ww]
<1>1. /\ job[s].kind = "sync" /\ job[s].at = "take" /\ UNCHANGED <<tables, held, begun, crossed>>
      /\ pend' = [pend EXCEPT ![s].amount = aw, ![s].link = lw, ![s].was = ww]
      /\ \/ Goto(s, "feed") /\ UNCHANGED todo
         \/ job' = [job EXCEPT ![s].at = "unpair"] /\ todo' = [todo EXCEPT ![s] = legs]
    BY DEF Take, At
<1>2. r \in Rows /\ job[s].amt \in Amounts
    BY <1>1, TypesOf DEF JobTyped
<1>3. aw \in PartialFcns(Rows, Amounts)
    <2>1. pend[s].amount \in PartialFcns(Rows, Amounts)
        BY TypesOf DEF Writes
    <2>2. DOMAIN pend[s].amount \subseteq Rows
          /\ \A q \in DOMAIN pend[s].amount : pend[s].amount[q] \in Amounts
        BY <2>1, PartialFcnsAre
    <2>3. A \subseteq Rows /\ DOMAIN aw = A /\ aw \in [A -> Amounts]
        BY <1>2, <2>2
    <2>. HIDE DEF aw, A
    <2>. QED
        BY <2>3, PartialFcnsAre
<1>4. lw \in PartialFcns(Links, 0 .. MaxAmount) /\ ww \in PartialFcns(Links, 0 .. MaxAmount)
    <2>1. read \in [Links -> 0 .. MaxAmount] /\ wasRead \in [Links -> 0 .. MaxAmount]
          /\ Amounting(read)
        BY ReadTyped
    <2>2. job[s].amt \in Nat
        BY <1>2, ReimbursementAssumption DEF Amounts
    <2>3. \A l \in Links : fitted[l] \in 0 .. read[l]
        <3>. HIDE DEF read
        <3>. QED
            BY <2>1, <2>2, FittedFits
    <2>4. \A l \in Links : fitted[l] \in 0 .. MaxAmount /\ wasRead[l] \in 0 .. MaxAmount
        <3>. HIDE DEF read, fitted, wasRead
        <3>. QED
            BY <2>1, <2>3, ReimbursementAssumption
    <2>5. dirty \subseteq Links
        OBVIOUS
    <2>. HIDE DEF read, fitted, wasRead, dirty
    <2>6. /\ DOMAIN lw = dirty /\ lw \in [dirty -> 0 .. MaxAmount]
          /\ DOMAIN ww = dirty /\ ww \in [dirty -> 0 .. MaxAmount]
        BY <2>4, <2>5
    <2>. HIDE DEF lw, ww
    <2>. QED
        BY <2>5, <2>6, PartialFcnsAre
<1>5. w \in Writes
    <2>. HIDE DEF aw, lw, ww
    <2>. QED
        BY <1>3, <1>4, TypesOf DEF Writes
<1>6. pend' = [pend EXCEPT ![s] = w]
    <2>. HIDE DEF aw, lw, ww
    <2>. QED
        BY <1>1
<1>. HIDE DEF w
<1>7. CASE Goto(s, "feed") /\ UNCHANGED todo
    <2>1. todo' = [todo EXCEPT ![s] = todo[s]] /\ todo[s] \in SUBSET Rows
        BY <1>7, TypesOf
    <2>2. job[s].kind = "sync" /\ UNCHANGED <<tables, held, begun, crossed>>
        BY <1>1
    <2>. QED
        BY <1>5, <1>6, <1>7, <2>1, <2>2, GotoTyped
<1>8. CASE job' = [job EXCEPT ![s].at = "unpair"] /\ todo' = [todo EXCEPT ![s] = legs]
    <2> DEFINE j == [job[s] EXCEPT !.at = "unpair"]
    <2>1. job' = [job EXCEPT ![s] = j] /\ legs \in SUBSET Rows
        BY <1>8
    <2>2. j \in Jobs /\ j.kind = "sync" /\ j.at = "unpair" /\ j.row = r
        BY <1>1, TypesOf DEF Jobs
    <2>. HIDE DEF j
    <2>3. JobTyped(j)
        BY <1>2, <2>2 DEF JobTyped
    <2>4. UNCHANGED <<tables, held, crossed>> /\ begun' \in 0 .. MaxRequests
        BY <1>1, TypesOf
    <2>5. todo' = [todo EXCEPT ![s] = legs]
        BY <1>8
    <2>. HIDE DEF legs
    <2>. QED
        BY <1>5, <1>6, <2>1, <2>2, <2>3, <2>4, <2>5, StepTyped
<1>. QED
    BY <1>1, <1>7, <1>8

LEMMA CommitTyped ==
    ASSUME TypeInv, NEW s \in Sessions, Commit(s)
    PROVE  TypeInv'
<1>1. /\ amount' = Over(pend[s].amount, amount) /\ link' = Over(pend[s].link, link)
      /\ pair' = Over(pend[s].pair, pair) /\ End(s) /\ UNCHANGED <<split, question>>
      /\ crossed' \in BOOLEAN
    BY DEF Commit, Crosses, TypeInv, TypeOK
<1>2. /\ pend[s].amount \in PartialFcns(Rows, Amounts)
      /\ pend[s].link \in PartialFcns(Links, 0 .. MaxAmount)
      /\ pend[s].pair \in PartialFcns(Rows, PairIds)
    BY TypesOf DEF Writes
<1>3. /\ amount \in [Rows -> Amounts] /\ link \in [Links -> 0 .. MaxAmount]
      /\ pair \in [Rows -> PairIds] /\ split \in SUBSET Rows /\ question \in [Links -> Questions]
    BY DEF TypeInv, TypeOK
<1>4. /\ amount' \in [Rows -> Amounts] /\ link' \in [Links -> 0 .. MaxAmount]
      /\ pair' \in [Rows -> PairIds]
    BY <1>1, <1>2, <1>3, OverTyped
<1>. QED
    BY <1>1, <1>3, <1>4, EndTyped

(* The requests of one statement change one table each. *)
LEMMA AtOnceTyped ==
    ASSUME TypeInv, AtOnce, UNCHANGED <<amount, pair, job, held, todo, pend, crossed>>,
           split' \in SUBSET Rows, link' \in [Links -> 0 .. MaxAmount],
           question' \in [Links -> Questions]
    PROVE  TypeInv'
<1>1. begun' \in 0 .. MaxRequests
    BY ReimbursementAssumption DEF AtOnce, TypeInv, TypeOK
<1>. QED
    BY <1>1 DEF TypeInv, TypeOK, JobsTyped

LEMMA OneStatementTyped ==
    ASSUME TypeInv,
           \/ \E l \in Links : DeleteReimbursement(l) \/ Decline(l) \/ Ask(l)
           \/ \E r \in Rows : ClearSplits(r)
    PROVE  TypeInv'
<1>0. /\ link \in [Links -> 0 .. MaxAmount] /\ split \in SUBSET Rows
      /\ question \in [Links -> Questions] /\ 0 \in 0 .. MaxAmount
    BY ReimbursementAssumption DEF TypeInv, TypeOK
<1>1. ASSUME NEW l \in Links, DeleteReimbursement(l) PROVE TypeInv'
    <2>1. link' \in [Links -> 0 .. MaxAmount]
        BY <1>0, <1>1 DEF DeleteReimbursement
    <2>. QED
        BY <1>0, <1>1, <2>1, AtOnceTyped DEF DeleteReimbursement
<1>2. ASSUME NEW l \in Links, Decline(l) \/ Ask(l) PROVE TypeInv'
    <2>1. question' \in [Links -> Questions]
        BY <1>0, <1>2 DEF Decline, Ask, Questions
    <2>. QED
        BY <1>0, <1>2, <2>1, AtOnceTyped DEF Decline, Ask
<1>3. ASSUME NEW r \in Rows, ClearSplits(r) PROVE TypeInv'
    BY <1>0, <1>3, AtOnceTyped DEF ClearSplits
<1>. QED
    BY <1>1, <1>2, <1>3

LEMMA NextTypeInv == TypeInv /\ IInv /\ [Next]_vars => TypeInv'
<1>. SUFFICES ASSUME TypeInv, IInv, [Next]_vars PROVE TypeInv'
    OBVIOUS
<1>1. ASSUME NEW s \in Sessions, Request(s) PROVE TypeInv'
    BY <1>1, RequestTyped
<1>2. ASSUME NEW s \in Sessions, Step(s) PROVE TypeInv'
    <2>1. CASE Refusal(s)
        BY <2>1, FailTyped DEF Refusal
    <2>. QED
        BY <1>2, <2>1, LockNextTyped, ReplaceTyped, LinkTyped, UnpairTyped, SplitTyped, EditTyped,
           TakeTyped, TakeApartTyped, PairDetectedTyped, EndFeedTyped, CommitTyped DEF Step
<1>3. ASSUME NEW s \in Sessions, Fail(s) \/ Victim(s) PROVE TypeInv'
    BY <1>3, FailTyped DEF Victim
<1>4. ASSUME NEW s \in Sessions, Report(s) \/ Detect(s) PROVE TypeInv'
    BY <1>4, ReportTyped, DetectTyped
<1>5. CASE UNCHANGED vars
    BY <1>5 DEF vars, tables, TypeInv, TypeOK, JobsTyped
<1>. QED
    BY <1>1, <1>2, <1>3, <1>4, <1>5, OneStatementTyped DEF Next

LEMMA TypeInvariant == Spec => []TypeInv
BY InitTypeInv, NextTypeInv, Invariant, PTL DEF Spec

(* Every table, job, lock and uncommitted write has its type, the links a  *)
(* sync has fitted to a smaller amount included, which are a product and a *)
(* quotient of amounts.                                                    *)
THEOREM TypeCorrect == Spec => []TypeOK
<1>1. TypeInv => TypeOK
    BY DEF TypeInv
<1>. QED
    BY <1>1, TypeInvariant, PTL

-----------------------------------------------------------------------------
(* Links fit                                                               *)

Writing(s, k) == job[s].kind = k /\ job[s].at = "write"

(* What a job of each kind may have written, and which rows its amounts    *)
(* are of.                                                                 *)
WritesOf(s) ==
    /\ job[s].kind = "edit" /\ job[s].at = "lock" => job[s].row \in held[s] \cup todo[s]
    /\ job[s].kind \notin {"replace", "sync"} => DOMAIN pend[s].link = {}
    /\ job[s].kind \notin {"edit", "sync"} => DOMAIN pend[s].amount = {}
    /\ job[s].at = "lock" => pend[s] = NoWrites
    /\ DOMAIN pend[s].amount \subseteq held[s] \cup todo[s]
    /\ job[s].kind = "sync" => DOMAIN pend[s].amount \subseteq held[s]
    /\ Writing(s, "replace") => todo[s] = {}

(* A replace writes links of one credit, grows only links whose ends it    *)
(* has locked, and fits the rows it has locked.                            *)
ReplaceFits(s) ==
    Writing(s, "replace") =>
        /\ \E c \in Credits : \A l \in DOMAIN pend[s].link : l[1] = c
        /\ \A l \in DOMAIN pend[s].link : pend[s].link[l] > 0 => Ends(l) \subseteq held[s]
        /\ \A r \in held[s] : LinkedTotal(Over(pend[s].link, link), r) <= amount[r]

(* A sync fits the rows it has written an amount of.                       *)
SyncFits(s) ==
    job[s].kind = "sync" =>
        \A r \in DOMAIN pend[s].amount :
            LinkedTotal(Over(pend[s].link, link), r) <= pend[s].amount[r]

(* It makes no link larger than it was when the sync read it.              *)
SyncShrinks(s) ==
    job[s].kind = "sync" =>
        /\ DOMAIN pend[s].was = DOMAIN pend[s].link
        /\ \A l \in DOMAIN pend[s].link : pend[s].link[l] <= pend[s].was[l]

(* An edit fits the row it is of.                                          *)
EditFits(s) ==
    Writing(s, "edit") =>
        \E r \in held[s] \cap DOMAIN pend[s].amount :
            LinkedTotal(link, r) <= pend[s].amount[r]

Kept(s) == WritesOf(s) /\ ReplaceFits(s) /\ SyncFits(s) /\ SyncShrinks(s) /\ EditFits(s)

(* Links fit, and so does whatever is going to be committed.               *)
FitInv == LinksFit /\ \A s \in Sessions : Kept(s)

(* The invariant that is inductive: a commit that crosses another ends it. *)
UncrossedInv == ~crossed => FitInv

(* The links a session sees are numbers. *)
LEMMA OverAmounting ==
    ASSUME NEW lk \in [Links -> 0 .. MaxAmount], NEW w \in PartialFcns(Links, 0 .. MaxAmount)
    PROVE  /\ Amounting(lk) /\ Amounting(Over(w, lk)) /\ DOMAIN Over(w, lk) = Links
           /\ \A l \in Links : Over(w, lk)[l] = IF l \in DOMAIN w THEN w[l] ELSE lk[l]
<1>1. Over(w, lk) \in [Links -> 0 .. MaxAmount]
    BY OverTyped
<1>2. \A f \in [Links -> 0 .. MaxAmount] : Amounting(f)
    BY ReimbursementAssumption DEF Amounting
<1>. QED
    BY <1>1, <1>2 DEF Over

LEMMA InitFitInv == Init => FitInv
<1>. SUFFICES ASSUME Init PROVE FitInv
    OBVIOUS
<1>1. LinksFit
    BY DEF Init, LinksFit
<1>2. ASSUME NEW s \in Sessions PROVE Kept(s)
    <2>1. job[s] = NoJob /\ held[s] = {} /\ todo[s] = {} /\ pend[s] = NoWrites
        BY DEF Init
    <2>. QED
        BY <2>1, NothingWritten
           DEF Kept, WritesOf, ReplaceFits, SyncFits, SyncShrinks, EditFits, Writing,
               NoJob, NoWrites
<1>. QED
    BY <1>1, <1>2 DEF FitInv

(* A session that has nothing keeps it. *)
LEMMA NothingKept ==
    ASSUME NEW s, job'[s] = NoJob, pend'[s] = NoWrites
    PROVE  Kept(s)'
BY NothingWritten
   DEF Kept, WritesOf, ReplaceFits, SyncFits, SyncShrinks, EditFits, Writing, NoJob, NoWrites

(* What another session does leaves a session's part as it is, if its      *)
(* locks keep the amounts of their rows, and their links do not grow.      *)
LEMMA OthersKept ==
    ASSUME TypeInv, TypeInv', NEW t \in Sessions, Kept(t),
           job'[t] = job[t], held'[t] = held[t], todo'[t] = todo[t], pend'[t] = pend[t],
           \A r \in held[t] : amount'[r] = amount[r],
           \A l \in Links : Ends(l) \cap held[t] # {} => link'[l] <= link[l]
    PROVE  Kept(t)'
<1> DEFINE w == pend[t].link
<1>1. /\ link \in [Links -> 0 .. MaxAmount] /\ link' \in [Links -> 0 .. MaxAmount]
      /\ w \in PartialFcns(Links, 0 .. MaxAmount)
      /\ held[t] \subseteq Rows
      /\ DOMAIN w \subseteq Links
      /\ pend[t].amount \in PartialFcns(Rows, Amounts)
      /\ amount \in [Rows -> Amounts]
    <2>1. /\ link \in [Links -> 0 .. MaxAmount] /\ link' \in [Links -> 0 .. MaxAmount]
          /\ amount \in [Rows -> Amounts]
        BY DEF TypeInv, TypeOK
    <2>2. w \in PartialFcns(Links, 0 .. MaxAmount) /\ pend[t].amount \in PartialFcns(Rows, Amounts)
        BY TypesOf DEF Writes
    <2>. QED
        BY <2>1, <2>2, TypesOf, PartialFcnsAre
<1>2. ASSUME NEW r \in held[t]
      PROVE  /\ LinkedTotal(Over(w, link'), r) <= LinkedTotal(Over(w, link), r)
             /\ LinkedTotal(link', r) <= LinkedTotal(link, r)
             /\ LinkedTotal(Over(w, link'), r) \in Nat /\ LinkedTotal(Over(w, link), r) \in Nat
             /\ LinkedTotal(link', r) \in Nat /\ LinkedTotal(link, r) \in Nat
    <2>1. \A l \in LinksOf(r) : l \in Links /\ link'[l] <= link[l]
        BY <1>2 DEF LinksOf
    <2> DEFINE f == Over(w, link')
               g == Over(w, link)
    <2>2. /\ Amounting(f) /\ Amounting(g) /\ Amounting(link) /\ Amounting(link')
          /\ \A l \in Links : f[l] = IF l \in DOMAIN w THEN w[l] ELSE link'[l]
          /\ \A l \in Links : g[l] = IF l \in DOMAIN w THEN w[l] ELSE link[l]
        BY <1>1, OverAmounting
    <2>. HIDE DEF f, g, w
    <2>3. \A l \in LinksOf(r) : f[l] <= g[l]
        <3>. SUFFICES ASSUME NEW l \in LinksOf(r) PROVE f[l] <= g[l]
            OBVIOUS
        <3>1. l \in Links /\ g[l] \in Nat
            BY <2>1, <2>2 DEF Amounting
        <3>. QED
            BY <2>1, <2>2, <3>1
    <2>. QED
        BY <2>1, <2>2, <2>3, LinkedTotalGrows, LinkedTotalNat DEF f, g
<1>3. WritesOf(t)'
    BY DEF Kept, WritesOf, Writing
<1>4. ReplaceFits(t)'
    <2>. SUFFICES ASSUME Writing(t, "replace")
                  PROVE  \A r \in held[t] : LinkedTotal(Over(w, link'), r) <= amount[r]
        BY DEF Kept, ReplaceFits, Writing
    <2>1. \A r \in held[t] : LinkedTotal(Over(w, link), r) <= amount[r] /\ amount[r] \in Nat
        BY <1>1, ReimbursementAssumption DEF Kept, ReplaceFits, Amounts
    <2>. HIDE DEF w
    <2>. QED
        BY <1>2, <2>1
<1>5. SyncFits(t)'
    <2>. SUFFICES ASSUME job[t].kind = "sync"
                  PROVE  \A r \in DOMAIN pend[t].amount :
                             LinkedTotal(Over(w, link'), r) <= pend[t].amount[r]
        BY DEF Kept, SyncFits
    <2>2. \A r \in DOMAIN pend[t].amount :
             /\ LinkedTotal(Over(w, link), r) <= pend[t].amount[r]
             /\ r \in held[t]
             /\ pend[t].amount[r] \in Amounts
        BY <1>1, PartialFcnsAre DEF Kept, SyncFits, WritesOf
    <2>3. \A r \in DOMAIN pend[t].amount : pend[t].amount[r] \in Nat
        BY <2>2, ReimbursementAssumption DEF Amounts
    <2>. HIDE DEF w
    <2>. QED
        BY <1>2, <2>2, <2>3
<1>6. EditFits(t)'
    <2>. SUFFICES ASSUME Writing(t, "edit")
                  PROVE  \E r \in held[t] \cap DOMAIN pend[t].amount :
                             LinkedTotal(link', r) <= pend[t].amount[r]
        BY DEF EditFits, Writing
    <2>1. PICK r \in held[t] \cap DOMAIN pend[t].amount :
             LinkedTotal(link, r) <= pend[t].amount[r]
        BY DEF Kept, EditFits
    <2>2. pend[t].amount[r] \in Nat
        <3>1. pend[t].amount[r] \in Amounts
            BY <1>1, PartialFcnsAre
        <3>. QED
            BY <3>1, ReimbursementAssumption DEF Amounts
    <2>3. LinkedTotal(link', r) <= pend[t].amount[r]
        BY <1>2, <2>1, <2>2
    <2>. QED
        BY <2>1, <2>3
<1>7. SyncShrinks(t)'
    BY DEF Kept, SyncShrinks
<1>. QED
    BY <1>3, <1>4, <1>5, <1>6, <1>7 DEF Kept

(* The other sessions are where they were.                                 *)
OnlyMoves(s) ==
    \A t \in Sessions \ {s} : /\ job'[t] = job[t] /\ held'[t] = held[t]
                              /\ todo'[t] = todo[t] /\ pend'[t] = pend[t]

(* A step that changes no table leaves the invariant to its session. *)
LEMMA StepFits ==
    ASSUME FitInv, TypeInv, TypeInv', NEW s \in Sessions, OnlyMoves(s),
           UNCHANGED <<amount, link>>, Kept(s)'
    PROVE  FitInv'
<1>1. LinksFit'
    BY DEF FitInv, LinksFit, Fits
<1>2. \A l \in Links : link[l] \in Nat
    BY ReimbursementAssumption DEF TypeInv, TypeOK
<1>3. ASSUME NEW t \in Sessions \ {s} PROVE Kept(t)'
    <2>1. Kept(t) /\ job'[t] = job[t] /\ held'[t] = held[t] /\ todo'[t] = todo[t] /\ pend'[t] = pend[t]
        BY DEF FitInv, OnlyMoves
    <2>2. \A l \in Links : link'[l] <= link[l]
        BY <1>2
    <2>. QED
        BY <2>1, <2>2, OthersKept
<1>. QED
    BY <1>1, <1>3 DEF FitInv

LEMMA BeginFits ==
    ASSUME FitInv, TypeInv, TypeInv', IInv, NEW s \in Sessions, NEW j, NEW R, Begun(s, j, R)
    PROVE  FitInv'
<1>1. job[s] = NoJob /\ pend[s] = NoWrites
    BY DEF Begun, Begin, IInv, IdleHasNothing
<1>2. /\ job' = [job EXCEPT ![s] = j] /\ todo' = [todo EXCEPT ![s] = R]
      /\ UNCHANGED <<amount, pair, link, held, pend>>
    BY DEF Begun, Begin, tables
<1>3. job'[s] = j /\ todo'[s] = R /\ pend'[s] = NoWrites /\ OnlyMoves(s)
    BY <1>1, <1>2 DEF OnlyMoves, TypeInv, TypeOK
<1>4. j.at # "write" /\ (j.kind = "edit" => j.row \in R)
    BY DEF Begun
<1>5. WritesOf(s)'
    BY <1>3, <1>4, NothingWritten DEF WritesOf, Writing, NoWrites
<1>6. ReplaceFits(s)' /\ EditFits(s)'
    BY <1>3, <1>4 DEF ReplaceFits, EditFits, Writing
<1>7. SyncFits(s)'
    BY <1>3, NothingWritten DEF SyncFits, NoWrites
<1>8. SyncShrinks(s)'
    BY <1>3, NothingWritten DEF SyncShrinks, NoWrites
<1>. QED
    BY <1>2, <1>3, <1>5, <1>6, <1>7, <1>8, StepFits DEF Kept

LEMMA LockNextFits ==
    ASSUME FitInv, TypeInv, TypeInv', NEW s \in Sessions, LockNext(s)
    PROVE  FitInv'
<1>1. PICK r \in todo[s] :
        /\ held' = [held EXCEPT ![s] = @ \cup {r}]
        /\ todo' = [todo EXCEPT ![s] = @ \ {r}]
        /\ UNCHANGED <<amount, pair, link, job, pend>>
    BY DEF LockNext, tables
<1>2. /\ held'[s] = held[s] \cup {r} /\ todo'[s] = todo[s] \ {r}
      /\ OnlyMoves(s)
    BY <1>1 DEF OnlyMoves, TypeInv, TypeOK
<1>3. Kept(s)
    BY DEF FitInv
<1>4. WritesOf(s)' /\ ~Writing(s, "replace")
    BY <1>1, <1>2, <1>3 DEF Kept, WritesOf, Writing
<1>5. ReplaceFits(s)'
    BY <1>1, <1>4 DEF ReplaceFits, Writing
<1>6. SyncFits(s)'
    BY <1>1, <1>2, <1>3 DEF Kept, SyncFits
<1>7. EditFits(s)'
    BY <1>1, <1>2, <1>3 DEF Kept, EditFits, Writing
<1>8. SyncShrinks(s)'
    BY <1>1, <1>2, <1>3 DEF Kept, SyncShrinks
<1>. QED
    BY <1>1, <1>2, <1>4, <1>5, <1>6, <1>7, <1>8, StepFits DEF Kept

(* A sync that goes on with the links and amounts it has written. *)
LEMMA SyncGoesOn ==
    ASSUME FitInv, TypeInv, TypeInv', NEW s \in Sessions, job[s].kind = "sync",
           job'[s].kind = "sync", job'[s].at # "lock", OnlyMoves(s),
           UNCHANGED <<amount, pair, link, held>>,
           pend'[s].link = pend[s].link, pend'[s].was = pend[s].was,
           pend'[s].amount = pend[s].amount
    PROVE  FitInv'
<1>1. Kept(s)
    BY DEF FitInv
<1>2. WritesOf(s)'
    BY <1>1 DEF Kept, WritesOf, Writing
<1>3. ReplaceFits(s)' /\ EditFits(s)'
    BY DEF ReplaceFits, EditFits, Writing
<1>4. SyncFits(s)'
    BY <1>1 DEF Kept, SyncFits
<1>5. SyncShrinks(s)'
    BY <1>1 DEF Kept, SyncShrinks
<1>. QED
    BY <1>2, <1>3, <1>4, <1>5, StepFits DEF Kept

LEMMA SyncStepFits ==
    ASSUME FitInv, TypeInv, TypeInv', NEW s \in Sessions,
           Report(s) \/ Detect(s) \/ EndFeed(s) \/ TakeApart(s) \/ PairDetected(s)
    PROVE  FitInv'
<1>1. /\ job[s].kind = "sync" /\ job'[s].kind = "sync" /\ job'[s].at # "lock"
      /\ \A t \in Sessions \ {s} : job'[t] = job[t]
    <2>1. job = [t \in Sessions |-> job[t]] /\ job[s] \in Jobs
        BY DEF TypeInv, TypeOK
    <2>2. CASE Report(s)
        <3>1. PICK r \in Rows, a \in Amounts :
                 job' = [job EXCEPT ![s].at = "take", ![s].row = r, ![s].amt = a, ![s].seen = pair[r]]
            BY <2>2 DEF Report
        <3> DEFINE j == [job[s] EXCEPT !.at = "take", !.row = r, !.amt = a, !.seen = pair[r]]
        <3>2. job[s].kind = "sync"
            BY <2>2 DEF Report, At
        <3>4. job' = [job EXCEPT ![s] = j]
            BY <3>1
        <3>3. j.kind = job[s].kind /\ j.at = "take"
            BY <2>1 DEF Jobs
        <3>. HIDE DEF j
        <3>. QED
            BY <2>1, <3>2, <3>3, <3>4
    <2>3. CASE Detect(s)
        <3>1. PICK couples \in SUBSET Links :
                 job' = [job EXCEPT ![s].at = "pairing", ![s].couples = couples]
            BY <2>3 DEF Detect
        <3> DEFINE j == [job[s] EXCEPT !.at = "pairing", !.couples = couples]
        <3>2. job[s].kind = "sync"
            BY <2>3 DEF Detect, At
        <3>4. job' = [job EXCEPT ![s] = j]
            BY <3>1
        <3>3. j.kind = job[s].kind /\ j.at = "pairing"
            BY <2>1 DEF Jobs
        <3>. HIDE DEF j
        <3>. QED
            BY <2>1, <3>2, <3>3, <3>4
    <2>4. CASE EndFeed(s) \/ TakeApart(s) \/ PairDetected(s)
        BY <2>1, <2>4 DEF EndFeed, TakeApart, PairDetected, At, Goto, NoJob
    <2>. QED
        BY <2>2, <2>3, <2>4
<1>2. UNCHANGED <<amount, pair, link, held>>
    BY DEF Report, Detect, EndFeed, TakeApart, PairDetected, tables
<1>3. \A t \in Sessions \ {s} : todo'[t] = todo[t]
    BY DEF Report, Detect, EndFeed, TakeApart, PairDetected, TypeInv, TypeOK
<1>4. /\ pend'[s].link = pend[s].link /\ pend'[s].was = pend[s].was
      /\ pend'[s].amount = pend[s].amount
      /\ \A t \in Sessions \ {s} : pend'[t] = pend[t]
    <2>1. pend = [t \in Sessions |-> pend[t]] /\ pend[s] \in Writes
        BY DEF TypeInv, TypeOK
    <2>2. CASE Report(s) \/ Detect(s) \/ EndFeed(s)
        BY <2>2 DEF Report, Detect, EndFeed
    <2>3. CASE TakeApart(s) \/ PairDetected(s)
        <3>1. UNCHANGED pend \/ \E f : pend' = [pend EXCEPT ![s].pair = f]
            BY <2>3 DEF TakeApart, PairDetected
        <3>. QED
            BY <2>1, <3>1 DEF Writes
    <2>. QED
        BY <2>2, <2>3
<1>. QED
    BY <1>1, <1>2, <1>3, <1>4, SyncGoesOn DEF OnlyMoves

(* What a row has linked depends on its links. *)
LEMMA SameLinks ==
    ASSUME NEW f, NEW g, NEW S, IsFiniteSet(S), \A l \in S : f[l] \in Nat /\ g[l] = f[l]
    PROVE  Total(f, S) = Total(g, S)
<1>1. \A l \in S : f[l] \in Nat /\ g[l] \in Nat /\ f[l] <= g[l] /\ g[l] <= f[l]
    OBVIOUS
<1>2. Total(f, S) <= Total(g, S) /\ Total(g, S) <= Total(f, S)
    BY <1>1, TotalGrows
<1>3. Total(f, S) \in Nat /\ Total(g, S) \in Nat
    BY <1>1, TotalNat
<1>. QED
    BY <1>2, <1>3

(* The links of a credit that is given new allocations add up to them. *)
LEMMA CreditTotal ==
    ASSUME NEW c \in Credits, NEW want, NEW f,
           \A e \in Expenses : want[e] \in Nat /\ f[<<c, e>>] = want[e]
    PROVE  LinkedTotal(f, c) = AskedTotal(want)
<1>1. \A e \in Expenses : want[e] \in Nat
    OBVIOUS
<1>2. LinksOf(c) = LinksWith(c, Expenses)
    BY ReimbursementAssumption DEF LinksOf, Links, Ends, LinksWith
<1>3. Total(f, LinksOf(c)) = Total(want, Expenses)
    <2>1. IsFiniteSet(Expenses)
        BY ReimbursementAssumption
    <2>2. Total(f, LinksWith(c, Expenses)) = Total(want, Expenses)
        BY <2>1, TotalOverExpenses
    <2>. QED
        BY <1>2, <2>2
<1>4. Total(want, Expenses) = Total(want, Asks(want))
    <2>1. Asks(want) \in SUBSET Expenses /\ \A e \in Expenses \ Asks(want) : want[e] = 0
        BY <1>1 DEF Asks
    <2>. QED
        BY <1>1, <2>1, ReimbursementAssumption, TotalOfSome
<1>5. AskedTotal(want) = Total(want, Asks(want))
    BY DEF AskedTotal, Total
<1>. QED
    BY <1>3, <1>4, <1>5, LinkedTotalIs

(* Those of an expense add up to its allocation and what the other credits *)
(* repay.                                                                  *)
LEMMA ExpenseTotal ==
    ASSUME NEW c \in Credits, NEW e \in Expenses, NEW f, Amounting(f), Amounting(link),
           \A l \in LinksOf(e) : l[1] # c => f[l] = link[l]
    PROVE  /\ LinkedTotal(f, e) = f[<<c, e>>] + ClaimedElsewhere(c, e)
           /\ ClaimedElsewhere(c, e) \in Nat
<1> DEFINE S == {l \in LinksOf(e) : l[1] # c}
<1>1. <<c, e>> \in LinksOf(e) /\ LinksOf(e) \ {<<c, e>>} = S
    BY ReimbursementAssumption DEF LinksOf, Links, Ends
<1>2. /\ LinkedTotal(f, e) = f[<<c, e>>] + Total(f, LinksOf(e) \ {<<c, e>>})
      /\ Total(f, LinksOf(e) \ {<<c, e>>}) \in Nat
    BY <1>1, LinkedTotalWithout
<1>3. Total(f, S) = Total(link, S)
    <2>1. IsFiniteSet(S)
        BY RowsAreFinite, FS_Subset
    <2>2. \A l \in S : f[l] \in Nat /\ link[l] = f[l]
        BY DEF LinksOf, Amounting
    <2>. HIDE DEF S
    <2>. QED
        BY <2>1, <2>2, SameLinks
<1>4. ClaimedElsewhere(c, e) = Total(link, S)
    BY DEF ClaimedElsewhere, Total
<1>. QED
    BY <1>1, <1>2, <1>3, <1>4

LEMMA ReplaceStepFits ==
    ASSUME FitInv, TypeInv, TypeInv', IInv, NEW s \in Sessions, Replace(s)
    PROVE  FitInv'
<1> DEFINE c == job[s].row
           want == job[s].want
           changed == {l \in Links : l[1] = c /\ link[l] # want[l[2]]}
           lw == [l \in changed |-> want[l[2]]]
           ww == [l \in changed |-> link[l]]
           f == Over(lw, link)
<1>1. /\ job[s].kind = "replace" /\ job[s].at = "lock" /\ todo[s] = {} /\ Goto(s, "write")
      /\ MayReplace(c, want)
      /\ pend' = [pend EXCEPT ![s].link = lw, ![s].was = ww]
      /\ UNCHANGED <<amount, split, pair, link, held, todo>>
    BY DEF Replace, At, tables
<1>2. c \in Credits /\ want \in [Expenses -> 0 .. MaxAmount]
    BY <1>1, TypesOf DEF JobTyped, Jobs
<1>3. {c} \cup Asks(want) \subseteq held[s]
    BY <1>1 DEF IInv, ClaimsLocked, Claim
<1>4. pend[s] = NoWrites /\ Kept(s)
    BY <1>1 DEF FitInv, Kept, WritesOf
<1>5. /\ job'[s].kind = "replace" /\ job'[s].at = "write"
      /\ held'[s] = held[s] /\ todo'[s] = {}
      /\ OnlyMoves(s)
    <2>1. job = [t \in Sessions |-> job[t]] /\ pend = [t \in Sessions |-> pend[t]]
        BY DEF TypeInv, TypeOK
    <2>. HIDE DEF lw, ww
    <2>. QED
        BY <1>1, <2>1 DEF Goto, NoJob, OnlyMoves
<1>6. pend'[s].link = lw /\ pend'[s].amount = pend[s].amount
    <2>1. pend = [t \in Sessions |-> pend[t]] /\ pend[s] \in Writes
        BY DEF TypeInv, TypeOK
    <2>. HIDE DEF lw, ww
    <2>. QED
        BY <1>1, <2>1 DEF Writes
<1>7. /\ link \in [Links -> 0 .. MaxAmount] /\ amount \in [Rows -> Amounts]
      /\ Amounting(link) /\ Amounting(f)
      /\ \A r \in Rows : LinkedTotal(link, r) <= amount[r] /\ LinkedTotal(link, r) \in Nat
                         /\ amount[r] \in Nat
    <2>1. link \in [Links -> 0 .. MaxAmount] /\ amount \in [Rows -> Amounts]
        BY DEF TypeInv, TypeOK
    <2>2. Amounting(link)
        BY <2>1, ReimbursementAssumption DEF Amounting
    <2>3. \A l \in Links : f[l] = link[l] \/ f[l] = want[l[2]]
        BY <2>1 DEF Over
    <2>4. Amounting(f)
        <3>1. \A l \in Links : want[l[2]] \in Nat
            <4>1. \A l \in Links : l[2] \in Expenses
                BY DEF Links
            <4>2. \A e \in Expenses : want[e] \in 0 .. MaxAmount
                BY <1>2
            <4>. HIDE DEF want
            <4>. QED
                BY <4>1, <4>2
        <3>. HIDE DEF f, want
        <3>. QED
            BY <2>2, <2>3, <3>1 DEF Amounting
    <2>5. \A r \in Rows : amount[r] \in Nat
        BY <2>1, ReimbursementAssumption DEF Amounts
    <2>. QED
        BY <2>1, <2>2, <2>4, <2>5, LinkedTotalNat DEF FitInv, LinksFit, Fits
<1>8. \A l \in Links : f[l] = IF l[1] = c THEN want[l[2]] ELSE link[l]
    BY <1>7 DEF Over
<1>9. ASSUME NEW r \in held[s] PROVE LinkedTotal(f, r) <= amount[r]
    <2>0. r \in Rows
        BY TypesOf
    <2>1. CASE r = c
        <3>1. \A e \in Expenses : want[e] \in Nat /\ f[<<c, e>>] = want[e]
            <4>1. \A e \in Expenses : <<c, e>> \in Links
                BY <1>2 DEF Links
            <4>2. \A e \in Expenses : want[e] \in 0 .. MaxAmount
                BY <1>2
            <4>. HIDE DEF f, want, c
            <4>3. \A e \in Expenses : f[<<c, e>>] = want[e]
                BY <1>8, <4>1
            <4>. QED
                BY <4>2, <4>3
        <3>2. LinkedTotal(f, c) = AskedTotal(want)
            <4>. HIDE DEF f, want, c
            <4>. QED
                BY <1>2, <3>1, CreditTotal
        <3>. QED
            BY <1>1, <2>1, <3>2 DEF MayReplace
    <2>2. CASE r \in Asks(want)
        <3>1. r \in Expenses
            BY <2>2 DEF Asks
        <3>2. \A l \in LinksOf(r) : l[1] # c => f[l] = link[l]
            BY <1>8 DEF LinksOf
        <3>3. f[<<c, r>>] = want[r]
            BY <1>2, <1>8, <3>1 DEF Links
        <3>4. LinkedTotal(f, r) = want[r] + ClaimedElsewhere(c, r) /\ ClaimedElsewhere(c, r) \in Nat
            <4>. HIDE DEF f, want, c
            <4>. QED
                BY <1>2, <1>7, <3>1, <3>2, <3>3, ExpenseTotal
        <3>5. want[r] <= amount[r] - ClaimedElsewhere(c, r)
            BY <1>1, <2>2 DEF MayReplace
        <3>6. want[r] \in Nat /\ amount[r] \in Nat
            BY <1>2, <1>7, <2>0, <3>1, ReimbursementAssumption
        <3>. HIDE DEF f, want, c
        <3>. QED
            BY <3>4, <3>5, <3>6
    <2>3. CASE r # c /\ r \notin Asks(want)
        <3>1. \A l \in LinksOf(r) : f[l] <= link[l]
            <4>. SUFFICES ASSUME NEW l \in LinksOf(r) PROVE f[l] <= link[l]
                OBVIOUS
            <4>1. l \in Links /\ r \in {l[1], l[2]} /\ l[2] \in Expenses /\ link[l] \in Nat
                BY <1>7 DEF LinksOf, Ends, Links, Amounting
            <4>2. CASE l[1] = c
                <5>1. l[2] = r
                    BY <2>3, <4>1, <4>2
                <5>2. ~(want[r] > 0) /\ want[r] \in Nat
                    BY <1>2, <2>3, <4>1, <5>1, ReimbursementAssumption DEF Asks
                <5>3. f[l] = want[r]
                    BY <1>8, <4>1, <4>2, <5>1
                <5>. HIDE DEF f, want, c
                <5>. QED
                    BY <4>1, <5>2, <5>3
            <4>3. CASE l[1] # c
                BY <1>8, <4>1, <4>3
            <4>. QED
                BY <4>2, <4>3
        <3>2. LinkedTotal(f, r) <= LinkedTotal(link, r)
            <4>. HIDE DEF f
            <4>. QED
                BY <1>7, <3>1, LinkedTotalGrows
        <3>3. LinkedTotal(f, r) \in Nat
            <4>. HIDE DEF f
            <4>. QED
                BY <1>7, LinkedTotalNat
        <3>. HIDE DEF f
        <3>. QED
            BY <1>7, <2>0, <3>2, <3>3
    <2>. QED
        BY <2>1, <2>2, <2>3
<1>10. \A l \in DOMAIN lw : l[1] = c /\ (lw[l] > 0 => Ends(l) \subseteq held[s])
    BY <1>2, <1>3 DEF Ends, Asks, Links
<1>11. ReplaceFits(s)'
    <2>. HIDE DEF lw, c
    <2>. QED
        BY <1>1, <1>2, <1>5, <1>6, <1>9, <1>10 DEF ReplaceFits
<1>12. WritesOf(s)'
    BY <1>4, <1>5, <1>6 DEF WritesOf, NoWrites
<1>13. SyncFits(s)' /\ SyncShrinks(s)' /\ EditFits(s)'
    BY <1>5 DEF SyncFits, SyncShrinks, EditFits, Writing
<1>. QED
    BY <1>1, <1>5, <1>11, <1>12, <1>13, StepFits DEF Kept

LEMMA EditStepFits ==
    ASSUME FitInv, TypeInv, TypeInv', NEW s \in Sessions, Edit(s)
    PROVE  FitInv'
<1> DEFINE r == job[s].row
           seen == job[s].seen
           legs == {o \in Rows \ {r} : seen # {} /\ pair[o] = seen}
<1>1. /\ job[s].kind = "edit" /\ job[s].at = "lock" /\ todo[s] = {} /\ Goto(s, "write")
      /\ LinkedTotal(link, r) <= job[s].amt
      /\ UNCHANGED <<amount, pair, link, held>>
    BY DEF Edit, At, tables
<1>2. PICK F \in {{}, legs} :
        /\ pend' = [pend EXCEPT ![s].amount = [q \in {r} \cup F |-> job[s].amt]]
        /\ todo' = [todo EXCEPT ![s] = F]
    BY DEF Edit
<1> DEFINE aw == [q \in {r} \cup F |-> job[s].amt]
<1>3. r \in held[s] /\ pend[s] = NoWrites
    <2>1. WritesOf(s)
        BY DEF FitInv, Kept
    <2>. QED
        BY <1>1, <2>1 DEF WritesOf
<1>5. /\ job'[s].kind = "edit" /\ job'[s].at = "write"
      /\ held'[s] = held[s] /\ todo'[s] = F /\ OnlyMoves(s)
    <2>1. job = [t \in Sessions |-> job[t]] /\ pend = [t \in Sessions |-> pend[t]]
          /\ todo = [t \in Sessions |-> todo[t]]
        BY DEF TypeInv, TypeOK
    <2>2. pend' = [pend EXCEPT ![s].amount = aw]
        BY <1>2
    <2>. HIDE DEF aw
    <2>. QED
        BY <1>1, <1>2, <2>1, <2>2 DEF Goto, NoJob, OnlyMoves
<1>6. pend'[s].link = pend[s].link /\ pend'[s].amount = aw
    <2>1. pend = [t \in Sessions |-> pend[t]] /\ pend[s] \in Writes
        BY DEF TypeInv, TypeOK
    <2>2. pend' = [pend EXCEPT ![s].amount = aw]
        BY <1>2
    <2>. HIDE DEF aw
    <2>. QED
        BY <2>1, <2>2 DEF Writes
<1>7. EditFits(s)'
    <2>1. DOMAIN aw = {r} \cup F /\ aw[r] = job[s].amt
        OBVIOUS
    <2>2. LinkedTotal(link, r) <= aw[r]
        BY <1>1, <2>1
    <2>3. r \in held[s] \cap DOMAIN aw
        BY <1>3, <2>1
    <2>. HIDE DEF aw, r
    <2>. QED
        BY <1>1, <1>5, <1>6, <2>2, <2>3 DEF EditFits
<1>8. WritesOf(s)'
    <2>1. DOMAIN aw = {r} \cup F
        OBVIOUS
    <2>. HIDE DEF aw, r
    <2>. QED
        BY <1>3, <1>5, <1>6, <2>1 DEF WritesOf, Writing, NoWrites
<1>9. ReplaceFits(s)' /\ SyncFits(s)' /\ SyncShrinks(s)'
    BY <1>5 DEF ReplaceFits, SyncFits, SyncShrinks, Writing
<1>. QED
    BY <1>1, <1>5, <1>7, <1>8, <1>9, StepFits DEF Kept

LEMMA TakeStepFits ==
    ASSUME FitInv, TypeInv, TypeInv', IInv, NEW s \in Sessions, Take(s)
    PROVE  FitInv'
<1> DEFINE r == job[s].row
           read == Over(pend[s].link, link)
           wasRead == Over(pend[s].was, link)
           fitted == Fitted(read, r, job[s].amt)
           dirty == {l \in Links : l \in DOMAIN pend[s].link \/ fitted[l] # read[l]}
           legs == {o \in Rows : pair[o] = job[s].seen} \ held[s]
           A == DOMAIN pend[s].amount \cup {r}
           aw == [q \in A |-> IF q = r THEN job[s].amt ELSE pend[s].amount[q]]
           lw == [l \in dirty |-> fitted[l]]
           ww == [l \in dirty |-> wasRead[l]]
<1>1. /\ job[s].kind = "sync" /\ job[s].at = "take" /\ todo[s] = {}
      /\ UNCHANGED <<amount, pair, link, held>>
      /\ pend' = [pend EXCEPT ![s].amount = aw, ![s].link = lw, ![s].was = ww]
      /\ \/ Goto(s, "feed") /\ UNCHANGED todo
         \/ job' = [job EXCEPT ![s].at = "unpair"] /\ todo' = [todo EXCEPT ![s] = legs]
    BY DEF Take, At, tables
<1>2. r \in Rows /\ r \in held[s] /\ job[s].amt \in Nat
    <2>1. r \in Rows /\ job[s].amt \in Amounts
        BY <1>1, TypesOf DEF JobTyped
    <2>2. r \in held[s]
        BY <1>1 DEF IInv, ClaimsLocked, Claim
    <2>3. job[s].amt \in Nat
        BY <2>1, ReimbursementAssumption DEF Amounts
    <2>. QED
        BY <2>1, <2>2, <2>3
<1>3. Kept(s)
    BY DEF FitInv
<1>4. /\ job'[s].kind = "sync" /\ job'[s].at \in {"feed", "unpair"}
      /\ held'[s] = held[s] /\ OnlyMoves(s)
    <2>1. job = [t \in Sessions |-> job[t]] /\ pend = [t \in Sessions |-> pend[t]]
          /\ todo = [t \in Sessions |-> todo[t]] /\ job[s] \in Jobs
        BY DEF TypeInv, TypeOK
    <2>2. \A t \in Sessions \ {s} : pend'[t] = pend[t]
        <3>. HIDE DEF aw, lw, ww
        <3>. QED
            BY <1>1, <2>1
    <2>3. CASE Goto(s, "feed") /\ UNCHANGED todo
        BY <1>1, <2>1, <2>2, <2>3 DEF Goto, NoJob, OnlyMoves
    <2>4. CASE job' = [job EXCEPT ![s].at = "unpair"] /\ todo' = [todo EXCEPT ![s] = legs]
        <3> DEFINE j == [job[s] EXCEPT !.at = "unpair"]
        <3>1. job' = [job EXCEPT ![s] = j]
            BY <2>4
        <3>2. j.kind = "sync" /\ j.at = "unpair"
            BY <1>1, <2>1 DEF Jobs
        <3>. HIDE DEF j, legs
        <3>3. job'[s] = j /\ \A t \in Sessions \ {s} : job'[t] = job[t] /\ todo'[t] = todo[t]
            BY <2>1, <2>4, <3>1
        <3>4. held'[s] = held[s] /\ \A t \in Sessions \ {s} : held'[t] = held[t]
            BY <1>1
        <3>. QED
            BY <2>2, <3>2, <3>3, <3>4 DEF OnlyMoves
    <2>. QED
        BY <1>1, <2>3, <2>4
<1>5. pend'[s].link = lw /\ pend'[s].amount = aw /\ pend'[s].was = ww
    <2>1. pend = [t \in Sessions |-> pend[t]] /\ pend[s] \in Writes
        BY DEF TypeInv, TypeOK
    <2>. HIDE DEF aw, lw, ww
    <2>. QED
        BY <1>1, <2>1 DEF Writes
<1>6. /\ read \in [Links -> 0 .. MaxAmount] /\ wasRead \in [Links -> 0 .. MaxAmount]
      /\ Amounting(read) /\ link \in [Links -> 0 .. MaxAmount]
    BY ReadTyped DEF TypeInv, TypeOK
<1>7. /\ DOMAIN fitted = Links
      /\ \A l \in Links : fitted[l] \in 0 .. read[l]
      /\ LinkedTotal(fitted, r) <= job[s].amt
    <2>. HIDE DEF read, r
    <2>. QED
        BY <1>2, <1>6, FittedFits
<1>8. Over(lw, link) = fitted
    <2>1. \A l \in Links : Over(lw, link)[l] = fitted[l]
        BY <1>6 DEF Over
    <2>2. DOMAIN Over(lw, link) = Links /\ Over(lw, link) = [l \in Links |-> Over(lw, link)[l]]
        BY <1>6 DEF Over
    <2>3. fitted = [l \in Links |-> fitted[l]]
        BY DEF Fitted
    <2>. HIDE DEF fitted, lw
    <2>. QED
        BY <2>1, <2>2, <2>3
<1>9. Amounting(fitted) /\ \A q : LinkedTotal(fitted, q) <= LinkedTotal(read, q)
                                  /\ LinkedTotal(fitted, q) \in Nat /\ LinkedTotal(read, q) \in Nat
    <2>. HIDE DEF fitted, read
    <2>1. \A l \in Links : fitted[l] \in Nat /\ fitted[l] <= read[l]
        BY <1>6, <1>7 DEF Amounting
    <2>2. Amounting(fitted)
        BY <2>1 DEF Amounting
    <2>3. \A q : \A l \in LinksOf(q) : fitted[l] <= read[l]
        BY <2>1 DEF LinksOf
    <2>. QED
        BY <1>6, <2>2, <2>3, LinkedTotalGrows, LinkedTotalNat
<1>10. \A q \in DOMAIN pend[s].amount :
          LinkedTotal(read, q) <= pend[s].amount[q] /\ pend[s].amount[q] \in Nat /\ q \in held[s]
    <2>1. pend[s].amount \in PartialFcns(Rows, Amounts)
        BY TypesOf DEF Writes
    <2>2. \A q \in DOMAIN pend[s].amount : pend[s].amount[q] \in Amounts
        BY <2>1, PartialFcnsAre
    <2>3. \A q \in DOMAIN pend[s].amount : pend[s].amount[q] \in Nat
        BY <2>2, ReimbursementAssumption DEF Amounts
    <2>. QED
        BY <1>1, <1>3, <2>3 DEF Kept, SyncFits, WritesOf
<1>11. \A q \in DOMAIN aw : LinkedTotal(fitted, q) <= aw[q]
    <2>. SUFFICES ASSUME NEW q \in A PROVE LinkedTotal(fitted, q) <= aw[q]
        OBVIOUS
    <2>1. CASE q = r
        BY <1>7, <2>1
    <2>2. CASE q # r
        <3>1. q \in DOMAIN pend[s].amount /\ aw[q] = pend[s].amount[q]
            BY <2>2
        <3>. HIDE DEF fitted, read, aw
        <3>. QED
            BY <1>9, <1>10, <3>1
    <2>. QED
        BY <2>1, <2>2
<1>13. SyncFits(s)'
    <2>. HIDE DEF lw, ww, aw, fitted
    <2>. QED
        BY <1>1, <1>4, <1>5, <1>8, <1>11 DEF SyncFits
<1>16. SyncShrinks(s)'
    <2>1. /\ DOMAIN pend[s].was = DOMAIN pend[s].link
          /\ \A l \in DOMAIN pend[s].link : pend[s].link[l] <= pend[s].was[l]
        BY <1>1, <1>3 DEF Kept, SyncShrinks
    <2> DEFINE written == DOMAIN pend[s].link
    <2>2. \A l \in Links \cap written : read[l] <= wasRead[l]
        BY <1>6, <2>1 DEF Over
    <2>3. \A l \in Links \ written : read[l] = wasRead[l]
        BY <1>6, <2>1 DEF Over
    <2>4. \A l \in Links : /\ fitted[l] \in Int /\ read[l] \in Int /\ wasRead[l] \in Int
                          /\ fitted[l] <= read[l]
        BY <1>6, <1>7, ReimbursementAssumption
    <2>5. ASSUME NEW l \in Links PROVE fitted[l] <= wasRead[l]
        <3>. HIDE DEF fitted, read, wasRead, written
        <3>1. CASE l \in written
            BY <2>2, <2>4, <3>1
        <3>2. CASE l \notin written
            BY <2>3, <2>4, <3>2
        <3>. QED
            BY <3>1, <3>2
    <2>. HIDE DEF fitted, read, wasRead, written
    <2>6. DOMAIN ww = DOMAIN lw /\ \A l \in DOMAIN lw : lw[l] <= ww[l]
        BY <2>5
    <2>. HIDE DEF lw, ww, aw
    <2>. QED
        BY <1>5, <2>6 DEF SyncShrinks
<1>14. WritesOf(s)'
    <2>1. DOMAIN aw \subseteq held[s]
        BY <1>2, <1>10
    <2>. HIDE DEF lw, ww, aw
    <2>. QED
        BY <1>4, <1>5, <2>1 DEF WritesOf, Writing
<1>15. ReplaceFits(s)' /\ EditFits(s)'
    BY <1>4 DEF ReplaceFits, EditFits, Writing
<1>. QED
    BY <1>1, <1>4, <1>13, <1>14, <1>15, <1>16, StepFits DEF Kept

-----------------------------------------------------------------------------
(* What ends a request, and what changes the tables                        *)

(* A session that ends leaves the others to what it did to their rows. *)
LEMMA EndFits ==
    ASSUME FitInv, TypeInv, TypeInv', NEW s \in Sessions, End(s), LinksFit',
           \A t \in Sessions \ {s} :
               /\ \A r \in held[t] : amount'[r] = amount[r]
               /\ \A l \in Links : Ends(l) \cap held[t] # {} => link'[l] <= link[l]
    PROVE  FitInv'
<1>1. job'[s] = NoJob /\ pend'[s] = NoWrites /\ OnlyMoves(s)
    BY DEF End, OnlyMoves, TypeInv, TypeOK
<1>2. Kept(s)'
    BY <1>1, NothingKept
<1>3. ASSUME NEW t \in Sessions \ {s} PROVE Kept(t)'
    <2>1. Kept(t) /\ job'[t] = job[t] /\ held'[t] = held[t] /\ todo'[t] = todo[t] /\ pend'[t] = pend[t]
        BY <1>1 DEF FitInv, OnlyMoves
    <2>. QED
        BY <2>1, OthersKept
<1>. QED
    BY <1>2, <1>3 DEF FitInv

LEMMA LinkIsNat == TypeInv => \A l \in Links : link[l] \in Nat
BY ReimbursementAssumption DEF TypeInv, TypeOK

LEMMA FailFits ==
    ASSUME FitInv, TypeInv, TypeInv', NEW s \in Sessions, Fail(s)
    PROVE  FitInv'
<1>1. End(s) /\ UNCHANGED <<amount, link>>
    BY DEF Fail, tables
<1>2. LinksFit'
    BY <1>1 DEF FitInv, LinksFit, Fits
<1>3. \A l \in Links : link'[l] <= link[l]
    BY <1>1, LinkIsNat
<1>. QED
    BY <1>1, <1>2, <1>3, EndFits

(* A request that pairs, takes apart or splits rows it has locked. *)
LEMMA ArrangeFits ==
    ASSUME FitInv, TypeInv, TypeInv', NEW s \in Sessions,
           Link(s) \/ Accept(s) \/ Unpair(s) \/ Split(s)
    PROVE  FitInv'
<1>1. End(s) /\ UNCHANGED <<amount, link>>
    BY DEF Link, Accept, Unpair, Split
<1>2. LinksFit'
    BY <1>1 DEF FitInv, LinksFit, Fits
<1>3. \A l \in Links : link'[l] <= link[l]
    BY <1>1, LinkIsNat
<1>. QED
    BY <1>1, <1>2, <1>3, EndFits

(* What a commit that crosses no other does to links and amounts. *)
LEMMA CommitEffect ==
    ASSUME FitInv, TypeInv, IInv, NEW s \in Sessions, Commit(s), ~Crosses(s)
    PROVE  /\ job[s].kind \in {"replace", "edit", "sync"}
           /\ \A l \in Links : link'[l] <= link[l] \/ Ends(l) \subseteq held[s]
           /\ job[s].kind = "edit" => link' = link
           /\ job[s].kind = "sync" => \A l \in Links : link'[l] <= link[l]
           /\ \A r \in Rows \ held[s] : amount'[r] = amount[r]
<1>1. /\ job[s].at = "write" /\ todo[s] = {}
      /\ amount' = Over(pend[s].amount, amount) /\ link' = Over(pend[s].link, link)
    BY DEF Commit
<1>2. job[s].kind \in {"replace", "edit", "sync"}
    BY <1>1, TypesOf DEF JobTyped
<1>3. Kept(s)
    BY DEF FitInv
<1>4. /\ DOMAIN link = Links /\ DOMAIN amount = Rows
      /\ DOMAIN pend[s].link \subseteq Links
      /\ link = [l \in Links |-> link[l]]
    BY DEF TypeInv, TypeOK, IInv, Shape
<1>5. \A l \in Links : link'[l] = IF l \in DOMAIN pend[s].link THEN pend[s].link[l] ELSE link[l]
    BY <1>1, <1>4 DEF Over
<1>6. \A l \in Links : link[l] \in Nat
    BY LinkIsNat
<1>7. \A l \in DOMAIN pend[s].link : pend[s].link[l] \in Nat
    <2>1. pend[s].link \in PartialFcns(Links, 0 .. MaxAmount)
        BY TypesOf DEF Writes
    <2>2. \A l \in DOMAIN pend[s].link : pend[s].link[l] \in 0 .. MaxAmount
        BY <2>1, PartialFcnsYield
    <2>. QED
        BY <2>2, ReimbursementAssumption
<1>8. job[s].kind = "replace" =>
         \A l \in Links : link'[l] \in {link[l], 0} \/ Ends(l) \subseteq held[s]
    <2>. SUFFICES ASSUME job[s].kind = "replace", NEW l \in Links, ~(Ends(l) \subseteq held[s])
                  PROVE  link'[l] \in {link[l], 0}
        OBVIOUS
    <2>1. l \in DOMAIN pend[s].link => ~(pend[s].link[l] > 0)
        BY <1>1, <1>3 DEF Kept, ReplaceFits, Writing
    <2>. QED
        BY <1>5, <1>7, <2>1
<1>9. job[s].kind = "edit" => link' = link
    <2>. SUFFICES ASSUME job[s].kind = "edit" PROVE link' = link
        OBVIOUS
    <2>1. DOMAIN pend[s].link = {}
        BY <1>3 DEF Kept, WritesOf
    <2>. QED
        BY <1>1, <1>4, <2>1 DEF Over
<1>10. job[s].kind = "sync" => \A l \in Links : link'[l] <= link[l]
    <2>. SUFFICES ASSUME job[s].kind = "sync", NEW l \in Links PROVE link'[l] <= link[l]
        OBVIOUS
    <2>1. CASE l \in DOMAIN pend[s].link
        <3>1. ~(pend[s].link[l] > link[l]) \/ pend[s].was[l] = link[l]
            BY <2>1 DEF Crosses
        <3>2. pend[s].link[l] <= pend[s].was[l]
            BY <1>3, <2>1 DEF Kept, SyncShrinks
        <3>. QED
            BY <1>5, <1>6, <1>7, <2>1, <3>1, <3>2
    <2>2. CASE l \notin DOMAIN pend[s].link
        BY <1>5, <1>6, <2>2
    <2>. QED
        BY <2>1, <2>2
<1>11. \A l \in Links : link'[l] <= link[l] \/ Ends(l) \subseteq held[s]
    <2>. SUFFICES ASSUME NEW l \in Links PROVE link'[l] <= link[l] \/ Ends(l) \subseteq held[s]
        OBVIOUS
    <2>1. link[l] \in Nat
        BY <1>6
    <2>. QED
        BY <1>2, <1>8, <1>9, <1>10, <2>1
<1>12. \A r \in Rows \ held[s] : amount'[r] = amount[r]
    <2>1. DOMAIN pend[s].amount \subseteq held[s]
        BY <1>1, <1>3 DEF Kept, WritesOf
    <2>. QED
        BY <1>1, <1>4, <2>1 DEF Over
<1>. QED
    BY <1>2, <1>9, <1>10, <1>11, <1>12

(* What is committed fits. *)
LEMMA CommitLinksFit ==
    ASSUME FitInv, TypeInv, TypeInv', IInv, NEW s \in Sessions, Commit(s), ~Crosses(s)
    PROVE  LinksFit'
<1>. SUFFICES ASSUME NEW r \in Rows PROVE LinkedTotal(link', r) <= amount'[r]
    BY DEF LinksFit, Fits
<1>1. /\ job[s].at = "write" /\ todo[s] = {}
      /\ amount' = Over(pend[s].amount, amount) /\ link' = Over(pend[s].link, link)
    BY DEF Commit
<1>2. Kept(s)
    BY DEF FitInv
<1>3. /\ Amounting(link) /\ Amounting(link') /\ amount[r] \in Nat /\ DOMAIN amount = Rows
      /\ LinkedTotal(link, r) <= amount[r]
    <2>1. /\ link \in [Links -> 0 .. MaxAmount] /\ link' \in [Links -> 0 .. MaxAmount]
          /\ amount \in [Rows -> Amounts]
        BY DEF TypeInv, TypeOK
    <2>2. \A f \in [Links -> 0 .. MaxAmount] : Amounting(f)
        BY ReimbursementAssumption DEF Amounting
    <2>3. amount[r] \in Nat
        BY <2>1, ReimbursementAssumption DEF Amounts
    <2>. QED
        BY <2>1, <2>2, <2>3 DEF FitInv, LinksFit, Fits
<1>4. LinkedTotal(link, r) \in Nat /\ LinkedTotal(link', r) \in Nat
    BY <1>3, LinkedTotalNat
<1>5. ASSUME amount'[r] = amount[r], \A l \in LinksOf(r) : link'[l] <= link[l]
      PROVE  LinkedTotal(link', r) <= amount'[r]
    <2>1. LinkedTotal(link', r) <= LinkedTotal(link, r)
        BY <1>3, <1>5, LinkedTotalGrows
    <2>. QED
        BY <1>3, <1>4, <1>5, <2>1
<1>6. CASE job[s].kind = "replace"
    <2>1. amount'[r] = amount[r]
        BY <1>1, <1>2, <1>3, <1>6 DEF Kept, WritesOf, Over
    <2>2. CASE r \in held[s]
        BY <1>1, <1>2, <1>6, <2>1, <2>2 DEF Kept, ReplaceFits, Writing
    <2>3. CASE r \notin held[s]
        <3>1. \A l \in LinksOf(r) : link'[l] <= link[l]
            BY <2>3, CommitEffect DEF LinksOf
        <3>. QED
            BY <1>5, <2>1, <3>1
    <2>. QED
        BY <2>2, <2>3
<1>7. CASE job[s].kind = "sync"
    <2>1. CASE r \in DOMAIN pend[s].amount
        <3>1. amount'[r] = pend[s].amount[r]
            BY <1>1, <1>3, <2>1 DEF Over
        <3>. QED
            BY <1>1, <1>2, <1>7, <2>1, <3>1 DEF Kept, SyncFits
    <2>2. CASE r \notin DOMAIN pend[s].amount
        <3>1. amount'[r] = amount[r]
            BY <1>1, <1>3, <2>2 DEF Over
        <3>2. \A l \in LinksOf(r) : link'[l] <= link[l]
            BY <1>7, CommitEffect DEF LinksOf
        <3>. QED
            BY <1>5, <3>1, <3>2
    <2>. QED
        BY <2>1, <2>2
<1>8. CASE job[s].kind = "edit"
    <2>1. link' = link
        BY <1>8, CommitEffect
    <2>2. CASE r \notin DOMAIN pend[s].amount
        BY <1>1, <1>3, <2>1, <2>2 DEF Over
    <2>3. CASE r \in DOMAIN pend[s].amount
        <3>0. amount'[r] = pend[s].amount[r] /\ pend[s].amount[r] \in Nat
            <4>1. pend[s].amount \in PartialFcns(Rows, Amounts)
                BY TypesOf DEF Writes
            <4>2. pend[s].amount[r] \in Amounts
                BY <2>3, <4>1, PartialFcnsAre
            <4>3. amount'[r] = pend[s].amount[r]
                BY <1>1, <1>3, <2>3 DEF Over
            <4>. QED
                BY <4>2, <4>3, ReimbursementAssumption DEF Amounts
        <3>1. PICK x \in held[s] \cap DOMAIN pend[s].amount :
                 LinkedTotal(link, x) <= pend[s].amount[x]
            BY <1>1, <1>2, <1>8 DEF Kept, EditFits, Writing
        <3>2. CASE r = x
            BY <2>1, <3>0, <3>1, <3>2
        <3>3. CASE r # x
            <4>1. x \in Rows \ {r}
                BY <3>3, TypesOf
            <4>2. pair[r] # {} /\ pair[x] = pair[r]
                BY <1>8, <2>3, <3>3 DEF Crosses
            <4>3. Apart(r)
                BY <4>1, <4>2 DEF Apart, ValidPair
            <4>4. ~Linked(link, r)
                BY <4>3 DEF IInv, StandsAlone
            <4>5. LinkedTotal(link, r) = 0
                BY <1>3, <4>4, UnlinkedTotal
            <4>. QED
                BY <2>1, <3>0, <4>5
        <3>. QED
            BY <3>2, <3>3
    <2>. QED
        BY <2>2, <2>3
<1>. QED
    BY <1>6, <1>7, <1>8, CommitEffect

LEMMA CommitFits ==
    ASSUME FitInv, TypeInv, TypeInv', IInv, NEW s \in Sessions, Commit(s), ~Crosses(s)
    PROVE  FitInv'
<1>1. End(s)
    BY DEF Commit
<1>2. ASSUME NEW t \in Sessions \ {s}
      PROVE  /\ \A r \in held[t] : amount'[r] = amount[r]
             /\ \A l \in Links : Ends(l) \cap held[t] # {} => link'[l] <= link[l]
    <2>1. \A r \in held[t] : r \in Rows \ held[s]
        BY DEF IInv, LocksExclusive, TypeInv, TypeOK
    <2>2. \A l \in Links : Ends(l) \cap held[t] # {} => ~(Ends(l) \subseteq held[s])
        BY <2>1
    <2>. QED
        BY <2>1, <2>2, CommitEffect
<1>. QED
    BY <1>1, <1>2, CommitLinksFit, EndFits

(* The requests of one statement remove a link or change none. *)
LEMMA OneStatementFits ==
    ASSUME FitInv, TypeInv, TypeInv',
           \/ \E l \in Links : DeleteReimbursement(l) \/ Decline(l) \/ Ask(l)
           \/ \E r \in Rows : ClearSplits(r)
           \/ UNCHANGED vars
    PROVE  FitInv'
<1>1. /\ UNCHANGED <<amount, pair, job, held, todo, pend>>
      /\ \A l \in Links : link'[l] \in {link[l], 0}
    <2>1. \/ UNCHANGED link
          \/ \E l \in Links : link' = [link EXCEPT ![l] = 0]
        BY DEF DeleteReimbursement, Decline, Ask, ClearSplits, vars, tables
    <2>2. DOMAIN link = Links
        BY DEF TypeInv, TypeOK
    <2>3. UNCHANGED <<amount, pair, job, held, todo, pend>>
        BY DEF DeleteReimbursement, Decline, Ask, ClearSplits, vars, tables
    <2>. QED
        BY <2>1, <2>2, <2>3
<1>2. \A l \in Links : link'[l] <= link[l]
    BY <1>1, LinkIsNat
<1>3. LinksFit'
    <2>1. /\ link \in [Links -> 0 .. MaxAmount] /\ link' \in [Links -> 0 .. MaxAmount]
          /\ amount \in [Rows -> Amounts]
        BY DEF TypeInv, TypeOK
    <2>2. \A f \in [Links -> 0 .. MaxAmount] : Amounting(f)
        BY ReimbursementAssumption DEF Amounting
    <2>3. Amounting(link) /\ Amounting(link')
        BY <2>1, <2>2
    <2>4. ASSUME NEW r \in Rows PROVE LinkedTotal(link', r) <= amount[r]
        <3>1. LinkedTotal(link', r) <= LinkedTotal(link, r)
            BY <1>2, <2>3, LinkedTotalGrows DEF LinksOf
        <3>2. LinkedTotal(link, r) \in Nat /\ LinkedTotal(link', r) \in Nat
            BY <2>3, LinkedTotalNat
        <3>3. LinkedTotal(link, r) <= amount[r] /\ amount[r] \in Nat
            BY <2>1, ReimbursementAssumption DEF FitInv, LinksFit, Fits, Amounts
        <3>. QED
            BY <3>1, <3>2, <3>3
    <2>. QED
        BY <1>1, <2>4 DEF LinksFit, Fits
<1>4. ASSUME NEW t \in Sessions PROVE Kept(t)'
    <2>1. Kept(t)
        BY DEF FitInv
    <2>. QED
        BY <1>1, <1>2, <2>1, OthersKept
<1>. QED
    BY <1>3, <1>4 DEF FitInv

(* Only a commit that crosses another is remembered, and for good. *)
LEMMA CrossedStays ==
    ASSUME [Next]_vars, ~crossed'
    PROVE  ~crossed /\ \A s \in Sessions : Commit(s) => ~Crosses(s)
<1>1. \A s \in Sessions : Commit(s) => ~crossed /\ ~Crosses(s)
    BY DEF Commit
<1>2. ASSUME NEW s \in Sessions, Request(s) PROVE ~crossed
    BY <1>2 DEF Request, BeginReplace, BeginLink, BeginAccept, BeginUnpair, BeginSplit,
                BeginBulkSplit, BeginEdit, BeginSync, Begin
<1>3. ASSUME NEW s \in Sessions, Fail(s) \/ Victim(s) \/ Refusal(s) PROVE ~crossed
    BY <1>3 DEF Victim, Refusal, Fail
<1>4. ASSUME NEW s \in Sessions, Report(s) \/ Detect(s) PROVE ~crossed
    BY <1>4 DEF Report, Detect
<1>5. ASSUME NEW s \in Sessions, Step(s) PROVE ~crossed
    <2>1. CASE LockNext(s) \/ Replace(s) \/ Edit(s) \/ Take(s)
        BY <2>1 DEF LockNext, Replace, Edit, Take
    <2>2. CASE TakeApart(s) \/ PairDetected(s) \/ EndFeed(s)
        BY <2>2 DEF TakeApart, PairDetected, EndFeed
    <2>3. CASE Link(s) \/ Accept(s) \/ Unpair(s) \/ Split(s)
        BY <2>3 DEF Link, Accept, Unpair, Split
    <2>. QED
        BY <1>1, <1>3, <1>5, <2>1, <2>2, <2>3 DEF Step
<1>6. ASSUME NEW l \in Links, DeleteReimbursement(l) \/ Decline(l) \/ Ask(l) PROVE ~crossed
    BY <1>6 DEF DeleteReimbursement, Decline, Ask
<1>7. ASSUME NEW r \in Rows, ClearSplits(r) PROVE ~crossed
    BY <1>7 DEF ClearSplits
<1>8. ASSUME UNCHANGED vars PROVE ~crossed
    BY <1>8 DEF vars
<1>9. ~crossed
    BY <1>2, <1>3, <1>4, <1>5, <1>6, <1>7, <1>8 DEF Next
<1>. QED
    BY <1>1, <1>9

LEMMA NextFitInv ==
    UncrossedInv /\ TypeInv /\ TypeInv' /\ IInv /\ [Next]_vars => UncrossedInv'
<1>. SUFFICES ASSUME UncrossedInv, TypeInv, TypeInv', IInv, [Next]_vars, ~crossed'
              PROVE  FitInv'
    BY DEF UncrossedInv
<1>0. FitInv /\ \A s \in Sessions : Commit(s) => ~Crosses(s)
    BY CrossedStays DEF UncrossedInv
<1>1. ASSUME NEW s \in Sessions, Request(s) PROVE FitInv'
    BY <1>0, <1>1, RequestBegins, BeginFits
<1>2. ASSUME NEW s \in Sessions, Step(s) PROVE FitInv'
    <2>1. CASE Refusal(s)
        BY <1>0, <2>1, FailFits DEF Refusal
    <2>. QED
        BY <1>0, <1>2, <2>1, LockNextFits, ReplaceStepFits, ArrangeFits, EditStepFits,
           TakeStepFits, SyncStepFits, CommitFits DEF Step
<1>3. ASSUME NEW s \in Sessions, Fail(s) \/ Victim(s) PROVE FitInv'
    BY <1>0, <1>3, FailFits DEF Victim
<1>4. ASSUME NEW s \in Sessions, Report(s) \/ Detect(s) PROVE FitInv'
    BY <1>0, <1>4, SyncStepFits
<1>. QED
    BY <1>0, <1>1, <1>2, <1>3, <1>4, OneStatementFits DEF Next

LEMMA UncrossedInvariant == Spec => []UncrossedInv
<1>1. Init => UncrossedInv
    BY InitFitInv DEF UncrossedInv
<1>. QED
    BY <1>1, NextFitInv, Invariant, TypeInvariant, PTL DEF Spec

(* No row repays, or is repaid, more than it amounts to, however many      *)
(* requests, syncs and imports run at once, until a commit crosses         *)
(* another: a sync writes a link back above what another has made of it,   *)
(* or an edit follows a transfer to a leg that is no part of it any more.  *)
(* These two are the only ways in which the code leaves the invariant of   *)
(* ADR 0012.                                                               *)
THEOREM LinksStayFit == Spec => []LinksFitUncrossed
<1>1. UncrossedInv => LinksFitUncrossed
    BY DEF UncrossedInv, FitInv, LinksFitUncrossed
<1>. QED
    BY <1>1, UncrossedInvariant, PTL

-----------------------------------------------------------------------------
(* The book of ADR 0012                                                    *)

(* What the book says is linked to a row. *)
LEMMA BookTotals ==
    /\ Book!Rows = Rows /\ Book!Links = Links
    /\ \A r : Book!LinkedTotal(r) = LinkedTotal(link, r)
<1>1. Book!Rows = Rows /\ Book!Links = Links
    BY DEF Book!Rows, Rows, Book!Links, Links
<1>2. ASSUME NEW r PROVE Book!LinkedTotal(r) = LinkedTotal(link, r)
    <2>1. {l \in Book!Links : r \in {l[1], l[2]}} = LinksOf(r)
        BY <1>1 DEF LinksOf, Ends
    <2>2. Book!LinkedTotal(r) = Book!MapThenSumSet(LAMBDA l : link[l], LinksOf(r))
        BY <2>1 DEF Book!LinkedTotal
    <2>3. Book!LinkedTotal(r) = (CHOOSE g : IsTally(link, g, LinksOf(r)))[LinksOf(r)]
        BY <2>2 DEF Book!MapThenSumSet, Book!MapThenFoldSet, IsTally, Grow, Pick
    <2>. QED
        BY <2>3, TotalIsTally, LinkedTotalIs
<1>. QED
    BY <1>1, <1>2

(* A book whose links fit and whose linked rows stand alone is sound. *)
LEMMA BookIsSound == TypeInv /\ FitInv /\ IInv => Book!Sound
<1>. SUFFICES ASSUME TypeInv, FitInv, IInv PROVE Book!Sound
    OBVIOUS
<1>1. Amounting(link)
    <2>1. \A f \in [Links -> 0 .. MaxAmount] : Amounting(f)
        BY ReimbursementAssumption DEF Amounting
    <2>. QED
        BY <2>1 DEF TypeInv, TypeOK
<1>2. \A r \in Rows : Apart(r) => LinkedTotal(link, r) = 0
    BY <1>1, UnlinkedTotal DEF IInv, StandsAlone
<1>. QED
    BY <1>2, BookTotals DEF Book!Sound, FitInv, LinksFit, Fits

LEMMA InitKeepsBook == Init => Book!Init
<1>. SUFFICES ASSUME Init PROVE Book!Init
    OBVIOUS
<1>1. TypeInv /\ FitInv /\ IInv
    BY InitTypeInv, InitFitInv, InitIInv
<1>2. Book!Sound
    BY <1>1, BookIsSound
<1>. QED
    BY <1>1, <1>2, BookTotals DEF TypeInv, TypeOK, Amounts, Book!Init

(* What changes a link. *)
LEMMA LinkChanges ==
    ASSUME Next
    PROVE  \/ UNCHANGED link
           \/ \E s \in Sessions : Commit(s)
           \/ \E l \in Links : DeleteReimbursement(l)
<1>1. ASSUME NEW s \in Sessions, Request(s) PROVE UNCHANGED link
    BY <1>1 DEF Request, BeginReplace, BeginLink, BeginAccept, BeginUnpair, BeginSplit, BeginEdit,
                BeginBulkSplit, BeginSync, Begin, tables
<1>2. ASSUME NEW s \in Sessions, Fail(s) \/ Victim(s) \/ Refusal(s) PROVE UNCHANGED link
    BY <1>2 DEF Victim, Refusal, Fail, tables
<1>3. ASSUME NEW s \in Sessions, Report(s) \/ Detect(s) PROVE UNCHANGED link
    BY <1>3 DEF Report, Detect, tables
<1>4. ASSUME NEW s \in Sessions, Step(s), ~Commit(s) PROVE UNCHANGED link
    <2>1. CASE LockNext(s) \/ Replace(s) \/ Edit(s) \/ Take(s)
        BY <2>1 DEF LockNext, Replace, Edit, Take, tables
    <2>2. CASE TakeApart(s) \/ PairDetected(s) \/ EndFeed(s)
        BY <2>2 DEF TakeApart, PairDetected, EndFeed, tables
    <2>3. CASE Link(s) \/ Accept(s) \/ Unpair(s) \/ Split(s)
        BY <2>3 DEF Link, Accept, Unpair, Split
    <2>. QED
        BY <1>2, <1>4, <2>1, <2>2, <2>3 DEF Step
<1>5. ASSUME NEW l \in Links, Decline(l) \/ Ask(l) PROVE UNCHANGED link
    BY <1>5 DEF Decline, Ask
<1>6. ASSUME NEW r \in Rows, ClearSplits(r) PROVE UNCHANGED link
    BY <1>6 DEF ClearSplits
<1>. QED
    BY <1>1, <1>2, <1>3, <1>4, <1>5, <1>6 DEF Next

(* A commit is a person's booking, a report or an arrangement. *)
LEMMA CommitKeepsBook ==
    ASSUME FitInv, TypeInv, TypeInv', IInv, Book!Sound', NEW s \in Sessions, Commit(s),
           ~Crosses(s)
    PROVE  Book!Next
<1>1. /\ amount' \in [Rows -> 1 .. MaxAmount] /\ link' \in [Links -> 0 .. MaxAmount]
      /\ {r \in Rows : Apart(r)}' \in SUBSET Rows
    BY DEF TypeInv, TypeOK, Amounts
<1>2. CASE job[s].kind = "replace"
    <2>1. /\ job[s].at = "write" /\ amount' = Over(pend[s].amount, amount)
          /\ pair' = Over(pend[s].pair, pair) /\ link' = Over(pend[s].link, link)
          /\ UNCHANGED split
        BY DEF Commit
    <2>2. Kept(s)
        BY DEF FitInv
    <2>3. DOMAIN pend[s].amount = {} /\ DOMAIN pend[s].pair = {}
        BY <1>2, <2>2 DEF Kept, WritesOf, IInv, SyncsPair
    <2>4. UNCHANGED <<amount, pair>>
        <3>1. amount = [r \in DOMAIN amount |-> amount[r]] /\ pair = [r \in DOMAIN pair |-> pair[r]]
            BY DEF TypeInv, TypeOK
        <3>. QED
            BY <2>1, <2>3, <3>1 DEF Over
    <2>5. {r \in Rows : Apart(r)}' = {r \in Rows : Apart(r)}
        BY <2>1, <2>4 DEF Apart, ValidPair
    <2>6. PICK c \in Credits : \A l \in DOMAIN pend[s].link : l[1] = c
        BY <1>2, <2>1, <2>2 DEF Kept, ReplaceFits, Writing
    <2>7. \A l \in Links : l[1] # c => link'[l] = link[l]
        BY <2>1, <2>6 DEF Over, TypeInv, TypeOK
    <2>8. Book!Rebook(c)
        BY <1>1, <2>4, <2>5, <2>7, BookTotals DEF Book!Rebook
    <2>. QED
        BY <2>8 DEF Book!Next
<1>3. CASE job[s].kind = "sync"
    <2>1. \A l \in Links : link'[l] <= link[l]
        BY <1>3, CommitEffect
    <2>2. Book!Report
        BY <1>1, <2>1, BookTotals DEF Book!Report
    <2>. QED
        BY <2>2 DEF Book!Next
<1>4. CASE job[s].kind = "edit"
    <2>1. UNCHANGED link
        BY <1>4, CommitEffect
    <2>2. Book!Arrange
        BY <1>1, <2>1, BookTotals DEF Book!Arrange
    <2>. QED
        BY <2>2 DEF Book!Next
<1>. QED
    BY <1>2, <1>3, <1>4, CommitEffect

LEMMA NextKeepsBook ==
    ASSUME UncrossedInv, TypeInv, TypeInv', IInv, [Next]_vars, ~crossed', Book!Sound'
    PROVE  Book!Next \/ UNCHANGED <<amount, link, {r \in Rows : Apart(r)}>>
<1>0. FitInv /\ \A s \in Sessions : Commit(s) => ~Crosses(s)
    BY CrossedStays DEF UncrossedInv
<1>1. CASE UNCHANGED link
    <2>1. Book!Arrange
        BY <1>1, BookTotals DEF TypeInv, TypeOK, Amounts, Book!Arrange
    <2>. QED
        BY <2>1 DEF Book!Next
<1>2. ASSUME NEW s \in Sessions, Commit(s) PROVE Book!Next
    BY <1>0, <1>2, CommitKeepsBook
<1>3. ASSUME NEW l \in Links, DeleteReimbursement(l) PROVE Book!Next
    <2>1. /\ link' = [link EXCEPT ![l] = 0]
          /\ UNCHANGED <<amount, split, pair>>
        BY <1>3 DEF DeleteReimbursement
    <2>2. {r \in Rows : Apart(r)}' = {r \in Rows : Apart(r)}
        BY <2>1 DEF Apart, ValidPair
    <2>3. Book!Drop(l)
        BY <2>1, <2>2 DEF Book!Drop
    <2>. QED
        BY <2>3, BookTotals DEF Book!Next
<1>4. CASE UNCHANGED vars
    BY <1>1, <1>4 DEF vars, tables
<1>. QED
    BY <1>1, <1>2, <1>3, <1>4, LinkChanges

(* Locks, stale reads, fitted links and late commits included, every step  *)
(* of the sessions is one of the changes of ADR 0012's book or none, and   *)
(* leaves it sound, until a commit crosses another.                        *)
THEOREM ChangesKeepTheBook == Spec => KeepsTheBook
<1> DEFINE Inv == UncrossedInv /\ TypeInv /\ IInv
           Change == Book!Next \/ UNCHANGED <<amount, link, {r \in Rows : Apart(r)}>>
<1>1. Inv => (~crossed => Book!Sound)
    BY BookIsSound DEF UncrossedInv
<1>2. Inv /\ Inv' /\ (~crossed => Book!Sound)' /\ [Next]_vars => [~crossed' => Change]_vars
    BY NextKeepsBook
<1>3. Spec => []Inv
    BY UncrossedInvariant, TypeInvariant, Invariant, PTL
<1>. QED
    BY <1>1, <1>2, <1>3, InitKeepsBook, PTL DEF Spec, KeepsTheBook
=============================================================================
