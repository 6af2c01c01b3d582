----------------------------- MODULE PriceProofs -----------------------------
(***************************************************************************)
(* The price of a model: the single pass of Match over the sorted list of  *)
(* rows finds the row that the rules of precedence name, for every price   *)
(* table.  No step of the system occurs here; UsageProofs builds on it.    *)
(***************************************************************************)
EXTENDS UsageCache, FiniteSetTheorems, WellFoundedInduction, TLAPS

-----------------------------------------------------------------------------
(* The order of the rows *)

\* Rows of one table: each pattern once.
Distinct(A) == A \subseteq Row /\ \A r, s \in A : r # s => r.pattern # s.pattern

LEMMA RowFields ==
    ASSUME NEW r \in Row
    PROVE  /\ r.pattern \in Patterns /\ Prio(r) \in Int
           /\ Wildcards(r.pattern) \in Nat /\ Length(r.pattern) \in Nat
BY UsageAssumption DEF Row, Prio

LEMMA BetterTotal ==
    ASSUME NEW r \in Row, NEW s \in Row, r.pattern # s.pattern
    PROVE  Better(r, s) <=> ~Better(s, r)
<1>1. NameBefore(r.pattern, s.pattern) <=> ~NameBefore(s.pattern, r.pattern)
  BY RowFields, UsageAssumption
<1> QED
  BY <1>1, RowFields DEF Better

LEMMA BetterTransitive ==
    ASSUME NEW r \in Row, NEW s \in Row, NEW u \in Row, Better(r, s), Better(s, u)
    PROVE  Better(r, u)
<1>1. NameBefore(r.pattern, s.pattern) /\ NameBefore(s.pattern, u.pattern)
        => NameBefore(r.pattern, u.pattern)
  BY RowFields, UsageAssumption
<1> QED
  BY <1>1, RowFields DEF Better

\* The order of the list is a strict order too.
LEMMA ListedTotal ==
    ASSUME NEW r \in Row, NEW s \in Row, r.pattern # s.pattern
    PROVE  ListedBefore(r, s) <=> ~ListedBefore(s, r)
<1>1. NameBefore(r.pattern, s.pattern) <=> ~NameBefore(s.pattern, r.pattern)
  BY RowFields, UsageAssumption
<1> QED
  BY <1>1, RowFields DEF ListedBefore

LEMMA ListedTransitive ==
    ASSUME NEW r \in Row, NEW s \in Row, NEW u \in Row,
           ListedBefore(r, s), ListedBefore(s, u)
    PROVE  ListedBefore(r, u)
<1>1. NameBefore(r.pattern, s.pattern) /\ NameBefore(s.pattern, u.pattern)
        => NameBefore(r.pattern, u.pattern)
  BY RowFields, UsageAssumption
<1> QED
  BY <1>1, RowFields DEF ListedBefore

LEMMA ListedIrreflexive == \A r \in Row : ~ListedBefore(r, r)
BY RowFields, UsageAssumption DEF ListedBefore

\* Of two rows in the order of the list, the later one is taken over the earlier exactly
\* if it is the better one: Match need not compare names.
LEMMA LaterBeats ==
    ASSUME NEW r \in Row, NEW best \in Row, ListedBefore(best, r), r.pattern # best.pattern
    PROVE  Beats(r, best) <=> Better(r, best)
<1>1. best # Unpriced
  <2>1. best.price # "none" /\ Unpriced.price = "none"
    BY UsageAssumption DEF Row, Unpriced
  <2> QED
    BY <2>1
<1>2. NameBefore(r.pattern, best.pattern) <=> ~NameBefore(best.pattern, r.pattern)
  BY RowFields, UsageAssumption
<1> QED
  BY <1>1, <1>2, RowFields DEF Beats, Better, ListedBefore

-----------------------------------------------------------------------------
(* The winner among some rows *)

Wins(r, A) == r \in A /\ \A s \in A \ {r} : Better(r, s)

LEMMA WinnerIs ==
    ASSUME NEW A, Distinct(A), NEW r, Wins(r, A)
    PROVE  Winner(A) = r
<1>1. Wins(Winner(A), A)
  BY DEF Winner, Wins
<1>2. ASSUME Winner(A) # r PROVE FALSE
  BY <1>1, <1>2, BetterTotal DEF Wins, Distinct
<1> QED
  BY <1>2

\* Adding a row to a set that has a winner.
LEMMA WinnerAdd ==
    ASSUME NEW A, NEW x, Distinct(A \cup {x}), x \notin A, A # {} => Wins(Winner(A), A)
    PROVE  LET w == IF A = {} \/ Better(x, Winner(A)) THEN x ELSE Winner(A) IN
           /\ Wins(w, A \cup {x})
           /\ Winner(A \cup {x}) = w
<1> DEFINE w == IF A = {} \/ Better(x, Winner(A)) THEN x ELSE Winner(A)
<1>1. Wins(w, A \cup {x})
  <2>1. CASE A = {}
    BY <2>1 DEF Wins
  <2>2. CASE A # {} /\ Better(x, Winner(A))
    <3>1. Winner(A) \in A /\ \A s \in A \ {Winner(A)} : Better(Winner(A), s)
      BY <2>2 DEF Wins
    <3>2. \A s \in A : Better(x, s)
      BY <2>2, <3>1, BetterTransitive DEF Distinct
    <3> QED
      BY <2>2, <3>2 DEF Wins
  <2>3. CASE A # {} /\ ~Better(x, Winner(A))
    <3>1. Winner(A) \in A /\ \A s \in A \ {Winner(A)} : Better(Winner(A), s)
      BY <2>3 DEF Wins
    <3>2. Better(Winner(A), x)
      BY <2>3, <3>1, BetterTotal DEF Distinct
    <3> QED
      BY <2>3, <3>1, <3>2 DEF Wins
  <2> QED
    BY <2>1, <2>2, <2>3
<1>2. Winner(A \cup {x}) = w
  BY <1>1, WinnerIs
<1> QED
  BY <1>1, <1>2
-----------------------------------------------------------------------------
(* The list *)

Rows(t) == {RowOf(t, p) : p \in Present(t)}

LEMMA RowsDistinct ==
    ASSUME NEW t \in [Patterns -> Prices]
    PROVE  Distinct(Rows(t)) /\ IsFiniteSet(Rows(t))
<1>1. \A p \in Present(t) : RowOf(t, p) \in Row /\ RowOf(t, p).pattern = p
  BY DEF Present, Prices, RowOf, Row
<1>2. Distinct(Rows(t))
  BY <1>1 DEF Distinct, Rows
<1>3. IsFiniteSet(Present(t))
  BY UsageAssumption, FS_Subset DEF Present
<1>4. [p \in Present(t) |-> RowOf(t, p)] \in Surjection(Present(t), Rows(t))
  BY DEF Surjection, Rows
<1> QED
  BY <1>2, <1>3, <1>4, FS_Surjection

\* The rows that come before a row, and how many they are.
Before(A, r) == {s \in A : ListedBefore(s, r)}

LEMMA BeforeGrows ==
    ASSUME NEW A, Distinct(A), IsFiniteSet(A), NEW r \in A, NEW s \in A, ListedBefore(r, s)
    PROVE  Cardinality(Before(A, r)) < Cardinality(Before(A, s))
<1>1. Before(A, r) \cup {r} \subseteq Before(A, s)
  BY ListedTransitive DEF Before, Distinct
<1>2. r \notin Before(A, r)
  BY ListedIrreflexive DEF Before, Distinct
<1>3. IsFiniteSet(Before(A, r)) /\ IsFiniteSet(Before(A, s))
  BY FS_Subset DEF Before
<1>4. Cardinality(Before(A, r) \cup {r}) = Cardinality(Before(A, r)) + 1
  BY <1>2, <1>3, FS_AddElement
<1>5. Cardinality(Before(A, r) \cup {r}) <= Cardinality(Before(A, s))
  BY <1>1, <1>3, FS_Subset
<1>6. Cardinality(Before(A, r)) \in Nat /\ Cardinality(Before(A, s)) \in Nat
  BY <1>3, FS_CardinalityType
<1> QED
  BY <1>4, <1>5, <1>6

\* Each place of the list is some row's.
LEMMA PlacesTaken ==
    ASSUME NEW A, Distinct(A), IsFiniteSet(A), NEW i \in 1..Cardinality(A)
    PROVE  \E r \in A : Cardinality(Before(A, r)) = i - 1
<1> DEFINE n == Cardinality(A)
           place == [r \in A |-> Cardinality(Before(A, r)) + 1]
<1>1. n \in Nat
  BY FS_CardinalityType
<1>2. \A r \in A : Cardinality(Before(A, r)) \in Nat /\ Cardinality(Before(A, r)) < n
  <2> TAKE r \in A
  <2>1. IsFiniteSet(Before(A, r)) /\ Cardinality(Before(A, r)) <= n /\ Before(A, r) # A
    <3>1. r \notin Before(A, r)
      BY ListedIrreflexive DEF Before, Distinct
    <3> QED
      BY <3>1, FS_Subset DEF Before
  <2>2. Cardinality(Before(A, r)) # n
    BY <2>1, FS_Subset DEF Before
  <2>3. Cardinality(Before(A, r)) \in Nat
    BY <2>1, FS_CardinalityType
  <2> QED
    BY <1>1, <2>1, <2>2, <2>3
<1>3. place \in [A -> 1..n]
  BY <1>1, <1>2
<1>4. \A r, s \in A : r # s => place[r] # place[s]
  <2> SUFFICES ASSUME NEW r \in A, NEW s \in A, r # s PROVE place[r] # place[s]
    OBVIOUS
  <2>1. ListedBefore(r, s) \/ ListedBefore(s, r)
    BY ListedTotal DEF Distinct
  <2>2. \/ Cardinality(Before(A, r)) < Cardinality(Before(A, s))
        \/ Cardinality(Before(A, s)) < Cardinality(Before(A, r))
    BY <2>1, BeforeGrows
  <2> QED
    BY <1>2, <2>2
<1>5. place \in Injection(A, 1..n)
  BY <1>3, <1>4, Zenon DEF Injection, IsInjective
<1>6. IsFiniteSet(1..n) /\ Cardinality(1..n) = n
  BY <1>1, FS_Interval
<1>7. place \in Surjection(A, 1..n)
  BY <1>5, <1>6, FS_Injection
<1>8. PICK r \in A : place[r] = i
  BY <1>7 DEF Surjection
<1> QED
  BY <1>2, <1>8

\* The list holds each row of the table, in its order.
LEMMA ListSorted ==
    ASSUME NEW t \in [Patterns -> Prices]
    PROVE  LET list == ListModelPrices(t)
               n == Cardinality(Rows(t))
           IN  /\ n \in Nat
               /\ list \in [1..n -> Rows(t)]
               /\ \A r \in Rows(t) : \E i \in 1..n : list[i] = r
               /\ \A i, j \in 1..n : i < j => ListedBefore(list[i], list[j])
<1> DEFINE A == Rows(t)
           n == Cardinality(A)
           list == ListModelPrices(t)
<1>0. Distinct(A) /\ IsFiniteSet(A) /\ n \in Nat
  BY RowsDistinct, FS_CardinalityType
<1>1. list = [i \in 1..n |-> CHOOSE r \in A : Cardinality(Before(A, r)) = i - 1]
  BY DEF ListModelPrices, Rows, Before
<1>2. \A i \in 1..n : list[i] \in A /\ Cardinality(Before(A, list[i])) = i - 1
  BY <1>0, <1>1, PlacesTaken
<1>3. list \in [1..n -> A]
  BY <1>1, <1>2
<1>4. ASSUME NEW r \in A, NEW s \in A, Cardinality(Before(A, r)) = Cardinality(Before(A, s))
      PROVE  r = s
  <2>1. CASE r # s
    <3>1. ListedBefore(r, s) \/ ListedBefore(s, r)
      BY <1>0, <2>1, ListedTotal DEF Distinct
    <3>2. \A u \in A : Cardinality(Before(A, u)) \in Nat
      BY <1>0, FS_Subset, FS_CardinalityType DEF Before
    <3> QED
      BY <1>0, <1>4, <3>1, <3>2, BeforeGrows
  <2> QED
    BY <2>1
<1>5. ASSUME NEW i \in 1..n, NEW j \in 1..n, i < j PROVE ListedBefore(list[i], list[j])
  <2>1. list[i] # list[j]
    BY <1>2, <1>5
  <2>2. ListedBefore(list[i], list[j]) \/ ListedBefore(list[j], list[i])
    BY <1>0, <1>2, <2>1, ListedTotal DEF Distinct
  <2>3. ~ListedBefore(list[j], list[i])
    BY <1>0, <1>2, <1>5, BeforeGrows
  <2> QED
    BY <2>2, <2>3
<1>6. list \in Injection(1..n, A)
  <2>1. \A i, j \in 1..n : list[i] = list[j] => i = j
    BY <1>2
  <2> QED
    BY <1>3, <2>1, Zenon DEF Injection, IsInjective
<1>7. list \in Surjection(1..n, A)
  BY <1>0, <1>6, FS_Injection, FS_Interval
<1>8. \A r \in A : \E i \in 1..n : list[i] = r
  BY <1>7 DEF Surjection
<1> QED
  BY <1>0, <1>3, <1>5, <1>8
-----------------------------------------------------------------------------
(* Induction over the indices of the list: a set of subsets of a finite set has a
   smallest member, and a set of indices a last one. *)

LEMMA SmallestSubset ==
    ASSUME NEW S, IsFiniteSet(S), NEW F \in SUBSET (SUBSET S), F # {}
    PROVE  \E A \in F : \A B \in F : B \subseteq A => B = A
<1>1. PICK A \in F : \A B \in F : <<B, A>> \notin StrictSubsetOrdering(S)
  BY WFMin, FS_StrictSubsetOrderingWellFounded, FS_FiniteSubsetsOfFinite, Zenon
<1> QED
  BY <1>1 DEF StrictSubsetOrdering

LEMMA LeastNumber ==
    ASSUME NEW T \in SUBSET Nat, T # {}
    PROVE  \E k \in T : \A l \in T : k <= l
<1>1. PICK k \in T : \A l \in T : <<l, k>> \notin OpToRel(<, Nat)
  BY WFMin, NatLessThanWellFounded, Zenon
<1>2. \A l \in T : ~(l < k)
  BY <1>1, Zenon DEF OpToRel
<1>3. k \in Nat /\ \A l \in T : l \in Nat
  OBVIOUS
<1>4. \A l \in T : k <= l
  BY <1>2, <1>3
<1> QED
  BY <1>4

LEMMA LastIndex ==
    ASSUME NEW n \in Nat, NEW s \in SUBSET (1..n), s # {}
    PROVE  Max(s) \in s /\ \A i \in s : i <= Max(s)
<1> DEFINE T == {n - i : i \in s}
<1>1. T \in SUBSET Nat /\ T # {}
  <2>1. \A i \in s : i \in Int /\ 1 <= i /\ i <= n
    OBVIOUS
  <2>2. \A i \in s : n - i \in Nat
    BY <2>1
  <2> QED
    BY <2>2
<1>2. PICK k \in T : \A l \in T : k <= l
  BY <1>1, LeastNumber
<1>3. PICK x \in s : k = n - x
  BY <1>2
<1>4. \A i \in s : i \in 1..n /\ n - x <= n - i
  BY <1>2, <1>3
<1>5. \A i \in s : x >= i
  BY <1>4
<1>6. \E y \in s : \A i \in s : y >= i
  BY <1>5
<1>7. Max(s) \in s /\ \A i \in s : Max(s) >= i
  BY <1>6 DEF Max
<1> QED
  BY <1>4, <1>7

-----------------------------------------------------------------------------
(* The pass over the list *)

\* g is a pass of Match over the list: what is left of best after the places of s.
Pass(m, list, g) ==
    g = [s \in SUBSET DOMAIN list |->
            IF s = {} THEN Unpriced
            ELSE IF /\ Matches(list[Max(s)].pattern, m)
                    /\ Beats(list[Max(s)], g[s \ {Max(s)}])
                 THEN list[Max(s)]
                 ELSE g[s \ {Max(s)}]]

LEMMA MatchIsPass ==
    ASSUME NEW m, NEW list
    PROVE  Match(m, list) = (CHOOSE g : Pass(m, list, g))[DOMAIN list]
BY DEF Match, FoldLeft, MapThenFoldSet, Pass

\* The rows at the places of s that match the model.
Matching(m, list, s) == {list[i] : i \in {j \in s : Matches(list[j].pattern, m)}}

\* The places of a list.
Places(n) == 1..n

\* The list of a table, as far as the pass relies on it.
Listing(list, n) ==
    /\ n \in Nat
    /\ list \in [Places(n) -> Row]
    /\ \A i, j \in Places(n) : i < j => /\ ListedBefore(list[i], list[j])
                                   /\ list[i].pattern # list[j].pattern

\* What one more place x adds to the rows that match.
PlaceAdds(m, list, s, x) ==
    /\ Distinct(Matching(m, list, s))
    /\ Matches(list[x].pattern, m) =>
          /\ Matching(m, list, s) = Matching(m, list, s \ {x}) \cup {list[x]}
          /\ list[x] \notin Matching(m, list, s \ {x})
    /\ ~Matches(list[x].pattern, m) => Matching(m, list, s) = Matching(m, list, s \ {x})

LEMMA MatchingStep ==
    ASSUME NEW m, NEW list, NEW n, Listing(list, n), NEW s \in SUBSET Places(n), NEW x \in s
    PROVE  PlaceAdds(m, list, s, x)
<1>1. \A i, j \in Places(n) : i # j => list[i].pattern # list[j].pattern
  BY DEF Listing, Places
<1>2. \A i \in Places(n) : list[i] \in Row
  BY DEF Listing
<1>3. Distinct(Matching(m, list, s))
  BY <1>1, <1>2 DEF Distinct, Matching
<1>4. Matches(list[x].pattern, m) =>
        /\ Matching(m, list, s) = Matching(m, list, s \ {x}) \cup {list[x]}
        /\ list[x] \notin Matching(m, list, s \ {x})
  BY <1>1 DEF Matching
<1>5. ~Matches(list[x].pattern, m) => Matching(m, list, s) = Matching(m, list, s \ {x})
  BY DEF Matching
<1> QED
  BY <1>3, <1>4, <1>5 DEF PlaceAdds

HasWinner(A) == A # {} => Wins(Winner(A), A)

LEMMA WinnerGrows ==
    ASSUME NEW m, NEW list, NEW n, Listing(list, n), NEW s \in SUBSET Places(n), NEW x \in s,
           HasWinner(Matching(m, list, s \ {x}))
    PROVE  HasWinner(Matching(m, list, s))
<1> DEFINE A == Matching(m, list, s \ {x})
<1>1. PlaceAdds(m, list, s, x)
  BY MatchingStep
<1>2. HasWinner(A)
  OBVIOUS
<1>3. /\ Distinct(Matching(m, list, s))
      /\ Matches(list[x].pattern, m) => /\ Matching(m, list, s) = A \cup {list[x]}
                                        /\ list[x] \notin A
      /\ ~Matches(list[x].pattern, m) => Matching(m, list, s) = A
  BY <1>1 DEF PlaceAdds
<1> HIDE DEF A
<1> QED
  BY <1>2, <1>3, WinnerAdd DEF HasWinner

\* Every set of places has a winner, if one of its rows matches.
LEMMA WinnerExists ==
    ASSUME NEW m, NEW list, NEW n, Listing(list, n), NEW s \in SUBSET Places(n),
           Matching(m, list, s) # {}
    PROVE  Wins(Winner(Matching(m, list, s)), Matching(m, list, s))
<1> DEFINE Bad == {z \in SUBSET Places(n) : ~HasWinner(Matching(m, list, z))}
<1>1. n \in Nat /\ IsFiniteSet(Places(n)) /\ Bad \in SUBSET (SUBSET Places(n))
  BY FS_Interval DEF Listing, Places
<1>2. CASE Bad = {}
  BY <1>2 DEF HasWinner
<1>3. CASE Bad # {}
  <2>1. PICK z \in Bad : \A y \in Bad : y \subseteq z => y = z
    <3> HIDE DEF Bad
    <3> QED
      BY <1>1, <1>3, SmallestSubset
  <2>2. z \in SUBSET Places(n) /\ Matching(m, list, z) # {}
    BY <2>1 DEF HasWinner
  <2>3. PICK x \in z : TRUE
    BY <2>2 DEF Matching
  <2>4. z \ {x} \in SUBSET Places(n) /\ z \ {x} \subseteq z /\ z \ {x} # z
    BY <2>2, <2>3
  <2>5. z \ {x} \notin Bad
    <3> HIDE DEF Bad
    <3> QED
      BY <2>1, <2>4
  <2>6. HasWinner(Matching(m, list, z \ {x}))
    BY <2>4, <2>5
  <2>7. HasWinner(Matching(m, list, z))
    <3> HIDE DEF Bad
    <3> QED
      BY <2>2, <2>3, <2>6, WinnerGrows
  <2> QED
    BY <2>1, <2>7
<1> QED
  BY <1>2, <1>3

\* What the pass leaves after the places of s: the winner among them.
LEMMA PassStep ==
    ASSUME NEW m, NEW list, NEW n, Listing(list, n), NEW s \in SUBSET Places(n), s # {}
    PROVE  LET x == Max(s)
               best == Winner(Matching(m, list, s \ {x}))
           IN  Winner(Matching(m, list, s)) =
                   IF Matches(list[x].pattern, m) /\ Beats(list[x], best) THEN list[x]
                   ELSE best
<1> DEFINE x == Max(s)
           A == Matching(m, list, s \ {x})
<1>1. x \in s /\ (\A i \in s : i <= x) /\ n \in Nat
  BY LastIndex DEF Listing, Places
<1> HIDE DEF x
<1>2. /\ Distinct(Matching(m, list, s))
      /\ Matches(list[x].pattern, m) => /\ Matching(m, list, s) = A \cup {list[x]}
                                        /\ list[x] \notin A
      /\ ~Matches(list[x].pattern, m) => Matching(m, list, s) = A
  BY <1>1, MatchingStep DEF PlaceAdds
<1>3. A # {} => Wins(Winner(A), A)
  BY WinnerExists
<1>4. A # {} => /\ Winner(A) \in Row
                /\ ListedBefore(Winner(A), list[x])
                /\ list[x].pattern # Winner(A).pattern
  <2>1. SUFFICES ASSUME A # {}
                 PROVE  /\ Winner(A) \in Row
                        /\ ListedBefore(Winner(A), list[x])
                        /\ list[x].pattern # Winner(A).pattern
    OBVIOUS
  <2>2. PICK j \in s \ {x} : Winner(A) = list[j]
    BY <1>3, <2>1 DEF Wins, Matching
  <2>3. j \in Places(n) /\ x \in Places(n) /\ j < x
    BY <1>1, <2>2 DEF Places
  <2> QED
    BY <2>2, <2>3 DEF Listing
<1>5. list[x] \in Row
  BY <1>1 DEF Listing
<1> HIDE DEF A
<1>6. A = {} => Winner(A) = Unpriced /\ Beats(list[x], Winner(A))
  BY DEF Winner, Beats
<1>7. A # {} => (Beats(list[x], Winner(A)) <=> Better(list[x], Winner(A)))
  BY <1>4, <1>5, LaterBeats
<1>8. Matches(list[x].pattern, m) =>
        Winner(Matching(m, list, s)) =
            IF A = {} \/ Better(list[x], Winner(A)) THEN list[x] ELSE Winner(A)
  BY <1>2, <1>3, WinnerAdd
<1>9. Winner(Matching(m, list, s)) =
        IF Matches(list[x].pattern, m) /\ Beats(list[x], Winner(A)) THEN list[x]
        ELSE Winner(A)
  BY <1>2, <1>6, <1>7, <1>8
<1> QED
  BY <1>9 DEF A, x

\* A pass exists and can only be the winner at each set of places.
LEMMA PassIsWinner ==
    ASSUME NEW m, NEW list, NEW n, Listing(list, n)
    PROVE  Match(m, list) = Winner(Matching(m, list, Places(n)))
<1> DEFINE win == [s \in SUBSET Places(n) |-> Winner(Matching(m, list, s))]
           g == CHOOSE h : Pass(m, list, h)
<1>0. DOMAIN list = Places(n) /\ n \in Nat /\ IsFiniteSet(Places(n))
  BY FS_Interval DEF Listing, Places
<1>1. Matching(m, list, {}) = {} /\ Winner({}) = Unpriced
  BY DEF Matching, Winner
<1>2. Pass(m, list, win)
  <2> DEFINE step == [s \in SUBSET Places(n) |->
                        IF s = {} THEN Unpriced
                        ELSE IF /\ Matches(list[Max(s)].pattern, m)
                                /\ Beats(list[Max(s)], win[s \ {Max(s)}])
                             THEN list[Max(s)]
                             ELSE win[s \ {Max(s)}]]
  <2>1. ASSUME NEW s \in SUBSET Places(n) PROVE win[s] = step[s]
    <3>1. CASE s = {}
      BY <1>1, <3>1
    <3>2. CASE s # {}
      <4>1. win[s \ {Max(s)}] = Winner(Matching(m, list, s \ {Max(s)}))
        OBVIOUS
      <4>2. step[s] = IF /\ Matches(list[Max(s)].pattern, m)
                         /\ Beats(list[Max(s)], win[s \ {Max(s)}])
                      THEN list[Max(s)]
                      ELSE win[s \ {Max(s)}]
        <5> HIDE DEF win
        <5> QED
          BY <3>2
      <4>3. win[s] = Winner(Matching(m, list, s))
        OBVIOUS
      <4>4. Winner(Matching(m, list, s)) =
              IF /\ Matches(list[Max(s)].pattern, m)
                 /\ Beats(list[Max(s)], Winner(Matching(m, list, s \ {Max(s)})))
              THEN list[Max(s)]
              ELSE Winner(Matching(m, list, s \ {Max(s)}))
        BY <3>2, PassStep
      <4> HIDE DEF win, step
      <4> QED
        BY <4>1, <4>2, <4>3, <4>4
    <3> QED
      BY <3>1, <3>2
  <2>2. win = step
    BY <2>1
  <2> QED
    BY <1>0, <2>2 DEF Pass
<1>3. Pass(m, list, g)
  BY <1>2
<1> DEFINE Bad == {s \in SUBSET Places(n) : g[s] # win[s]}
<1>4. CASE Bad = {}
  <2>1. Places(n) \notin Bad
    BY <1>4
  <2>2. g[Places(n)] = win[Places(n)]
    BY <2>1
  <2> QED
    BY <1>0, <2>2, MatchIsPass
<1>5. CASE Bad # {}
  <2>1. Bad \in SUBSET (SUBSET Places(n))
    OBVIOUS
  <2>2. PICK s \in Bad : \A z \in Bad : z \subseteq s => z = s
    <3> HIDE DEF Bad
    <3> QED
      BY <1>0, <1>5, <2>1, SmallestSubset
  <2>3. s \in SUBSET Places(n) /\ g[s] # win[s]
    BY <2>2
  <2>4. s # {}
    BY <1>0, <1>1, <1>3, <2>3 DEF Pass
  <2> DEFINE x == Max(s)
  <2>5. x \in s
    BY <1>0, <2>3, <2>4, LastIndex DEF Places
  <2>6. s \ {x} \in SUBSET Places(n) /\ s \ {x} \subseteq s /\ s \ {x} # s
    BY <2>3, <2>5
  <2>7. s \ {x} \notin Bad
    <3> HIDE DEF Bad, x
    <3> QED
      BY <2>2, <2>6
  <2>8. g[s \ {x}] = win[s \ {x}]
    BY <2>6, <2>7
  <2>9. g[s] = IF Matches(list[x].pattern, m) /\ Beats(list[x], g[s \ {x}]) THEN list[x]
               ELSE g[s \ {x}]
    <3> HIDE DEF g
    <3> QED
      BY <1>0, <1>3, <2>3, <2>4 DEF Pass
  <2>10. win[s] = IF Matches(list[x].pattern, m) /\ Beats(list[x], win[s \ {x}])
                  THEN list[x]
                  ELSE win[s \ {x}]
    <3> HIDE DEF win
    <3> QED
      BY <1>0, <1>2, <2>3, <2>4 DEF Pass
  <2>11. g[s] = win[s]
    BY <2>8, <2>9, <2>10
  <2> QED
    BY <2>3, <2>11
<1> QED
  BY <1>4, <1>5

-----------------------------------------------------------------------------
(* The price of a model *)

LEMMA TableListing ==
    ASSUME NEW t \in [Patterns -> Prices], NEW m
    PROVE  LET list == ListModelPrices(t)
               n == Cardinality(Rows(t))
           IN  /\ Listing(list, n)
               /\ Matching(m, list, Places(n)) =
                      {RowOf(t, p) : p \in {s \in Present(t) : Matches(s, m)}}
<1> DEFINE list == ListModelPrices(t)
           n == Cardinality(Rows(t))
<1>1. /\ n \in Nat
      /\ list \in [Places(n) -> Rows(t)]
      /\ \A r \in Rows(t) : \E i \in Places(n) : list[i] = r
      /\ \A i, j \in Places(n) : i < j => ListedBefore(list[i], list[j])
  BY ListSorted DEF Places
<1> HIDE DEF list, n
<1>2. Distinct(Rows(t))
  BY RowsDistinct
<1>3. \A i, j \in Places(n) : i < j => list[i].pattern # list[j].pattern
  BY <1>1, <1>2, ListedIrreflexive DEF Distinct
<1>4. Listing(list, n)
  BY <1>1, <1>2, <1>3 DEF Listing, Distinct
<1>5. \A p \in Present(t) : RowOf(t, p) \in Rows(t) /\ RowOf(t, p).pattern = p
  BY DEF Rows, RowOf
<1>6. \A r \in Rows(t) : \E p \in Present(t) : r = RowOf(t, p)
  BY DEF Rows
<1> DEFINE B == {RowOf(t, p) : p \in {s \in Present(t) : Matches(s, m)}}
<1>7. ASSUME NEW r \in Matching(m, list, Places(n)) PROVE r \in B
  <2>1. PICK i \in Places(n) : r = list[i] /\ Matches(list[i].pattern, m)
    BY <1>7 DEF Matching
  <2>2. PICK p \in Present(t) : list[i] = RowOf(t, p)
    BY <1>1, <1>6, <2>1
  <2> QED
    BY <1>5, <2>1, <2>2
<1>8. ASSUME NEW r \in B PROVE r \in Matching(m, list, Places(n))
  <2>1. PICK p \in Present(t) : Matches(p, m) /\ r = RowOf(t, p)
    BY <1>8
  <2>2. PICK i \in Places(n) : list[i] = r
    BY <1>1, <1>5, <2>1
  <2>3. r.pattern = p
    BY <1>5, <2>1
  <2> QED
    BY <2>1, <2>2, <2>3 DEF Matching
<1>9. Matching(m, list, Places(n)) = B
  BY <1>7, <1>8
<1> QED
  BY <1>4, <1>9 DEF list, n

\* Match goes once through the rows in the order the database returns them and compares
\* priority, wildcards and length only (usage.go); whatever the table holds, what it
\* finds is the row that the rules of precedence name, ties broken by the name.
THEOREM MatchFindsBest ==
    ASSUME NEW t \in [Patterns -> Prices], NEW m
    PROVE  Match(m, ListModelPrices(t)) = Best(m, t)
<1> DEFINE list == ListModelPrices(t)
           n == Cardinality(Rows(t))
<1>1. /\ Listing(list, n)
      /\ Matching(m, list, Places(n)) =
             {RowOf(t, p) : p \in {s \in Present(t) : Matches(s, m)}}
  BY TableListing
<1> HIDE DEF list, n
<1>2. Match(m, list) = Winner(Matching(m, list, Places(n)))
  BY <1>1, PassIsWinner
<1> QED
  BY <1>1, <1>2 DEF Best, list

\* So a scan prices every model of its report as Report says.
THEOREM SummarizeIsReport ==
    ASSUME NEW t \in [Patterns -> Prices]
    PROVE  Summarize(t) = Report(t)
BY MatchFindsBest DEF Summarize, Report

\* A model is priced by a row of the table that matches it and that none beats, or it
\* goes unpriced and no row matches it.
THEOREM BestIsBest ==
    ASSUME NEW t \in [Patterns -> Prices], NEW m
    PROVE  \/ /\ Best(m, t) = Unpriced
              /\ \A p \in Present(t) : ~Matches(p, m)
           \/ \E p \in Present(t) :
                 /\ Matches(p, m) /\ Best(m, t) = RowOf(t, p) /\ RowOf(t, p) \in Row
                 /\ \A s \in Present(t) \ {p} :
                       Matches(s, m) => Better(RowOf(t, p), RowOf(t, s))
<1> DEFINE list == ListModelPrices(t)
           n == Cardinality(Rows(t))
           B == {RowOf(t, p) : p \in {s \in Present(t) : Matches(s, m)}}
<1>1. Listing(list, n) /\ Matching(m, list, Places(n)) = B
  BY TableListing
<1>2. Best(m, t) = Winner(B)
  BY DEF Best
<1>3. CASE B = {}
  BY <1>2, <1>3 DEF Winner
<1>4. CASE B # {}
  <2>1. Wins(Winner(B), B)
    <3> HIDE DEF B, list, n
    <3> QED
      BY <1>1, <1>4, WinnerExists
  <2>2. PICK p \in Present(t) : Matches(p, m) /\ Winner(B) = RowOf(t, p)
    BY <2>1 DEF Wins
  <2>3. RowOf(t, p) \in Row
    BY <2>2, RowsDistinct DEF Rows, Distinct
  <2>4. ASSUME NEW s \in Present(t) \ {p}, Matches(s, m)
        PROVE  Better(RowOf(t, p), RowOf(t, s))
    <3>1. RowOf(t, s) \in B
      BY <2>4
    <3>2. RowOf(t, s) # RowOf(t, p)
      BY <2>4 DEF RowOf
    <3> QED
      BY <2>1, <2>2, <3>1, <3>2 DEF Wins
  <2> QED
    BY <1>2, <2>2, <2>3, <2>4
<1> QED
  BY <1>3, <1>4
=============================================================================
