------------------------------ MODULE ShimProofs ------------------------------
(***************************************************************************)
(* The token keeps its supply, in every run of the system: whatever the    *)
(* runner asks for, and whoever else transfers, the balances sum up to the *)
(* supply and each is what the log says went in and out of it.             *)
(*                                                                         *)
(* The sums are folds over finite sets in an order the fold chooses. The   *)
(* first part shows what they are worth: a member's share can be taken out *)
(* first, whatever that order. The second unrolls SupplyConserved into     *)
(* ShimInv, one transfer at a time; the third finds the transfers among    *)
(* the steps of the system.                                                *)
(***************************************************************************)
EXTENDS RunnerProofs, WellFoundedInduction, FiniteSetTheorems

-----------------------------------------------------------------------------
\* Sums over finite sets

\* What MapThenSumSet folds with, for a function f.
Pick(s) == CHOOSE x \in s : TRUE

Summing(g, f, S) ==
    g = [s \in SUBSET S |-> IF s = {} THEN 0 ELSE f[Pick(s)] + g[s \ {Pick(s)}]]

SumOf(f, S) == (CHOOSE g : Summing(g, f, S))[S]

\* Induction over numbers, for a set of them.
LEMMA AllNumbers ==
    ASSUME NEW A, A \subseteq Nat, 0 \in A, \A n \in A : n + 1 \in A
    PROVE  A = Nat
<1> SUFFICES ASSUME Nat \ A # {} PROVE FALSE
  OBVIOUS
<1>1. PICK k \in Nat \ A : \A l \in Nat \ A : ~(<<l, k>> \in OpToRel(<, Nat))
  BY NatLessThanWellFounded, WFMin, Zenon
<1>2. \A l \in Nat \ A : ~(l < k)
  BY <1>1 DEF OpToRel
<1>3. k - 1 \in Nat /\ k - 1 < k
  <2>1. k \in Nat /\ k # 0
    OBVIOUS
  <2>2. QED
    BY <2>1
<1>4. k - 1 \in A
  BY <1>2, <1>3
<1>5. (k - 1) + 1 = k /\ k \notin A
  OBVIOUS
<1>6. QED
  BY <1>4, <1>5

\* The subsets of a finite set, by their sizes.
LEMMA Sizes ==
    ASSUME NEW S, IsFiniteSet(S), NEW s \in SUBSET S
    PROVE  /\ IsFiniteSet(s) /\ Cardinality(s) \in Nat
           /\ Cardinality(s) <= Cardinality(S) /\ Cardinality(S) \in Nat
           /\ Cardinality(s) = 0 <=> s = {}
           /\ \A x \in s : Cardinality(s \ {x}) = Cardinality(s) - 1
<1>1. IsFiniteSet(s) /\ Cardinality(s) <= Cardinality(S) /\ Cardinality(S) \in Nat
  BY FS_Subset, FS_CardinalityType
<1>2. Cardinality(s) \in Nat /\ (Cardinality(s) = 0 <=> s = {})
  BY <1>1, FS_CardinalityType, FS_EmptySet
<1>3. \A x \in s : Cardinality(s \ {x}) = Cardinality(s) - 1
  BY <1>1, FS_RemoveElement
<1>4. QED
  BY <1>1, <1>2, <1>3

LEMMA Picked == ASSUME NEW s, s # {} PROVE Pick(s) \in s
BY DEF Pick

\* The fold is defined on all subsets.
LEMMA SumExists ==
    ASSUME NEW S, IsFiniteSet(S), NEW f
    PROVE  \E g : Summing(g, f, S)
<1> DEFINE Upto(n) == {s \in SUBSET S : Cardinality(s) <= n}
           Part(g, n) == g = [s \in Upto(n) |->
                                IF s = {} THEN 0 ELSE f[Pick(s)] + g[s \ {Pick(s)}]]
           A == {n \in Nat : \E g : Part(g, n)}
<1>1. 0 \in A
  <2>1. \A s \in Upto(0) : s = {}
    BY Sizes
  <2>2. Part([s \in Upto(0) |-> 0], 0)
    BY <2>1
  <2>3. QED
    BY <2>2
<1>2. ASSUME NEW n \in A
      PROVE  n + 1 \in A
  <2>1. PICK g : Part(g, n)
    BY <1>2
  <2> DEFINE h == [s \in Upto(n + 1) |->
                     IF Cardinality(s) <= n THEN g[s]
                     ELSE f[Pick(s)] + g[s \ {Pick(s)}]]
  <2>2. ASSUME NEW s \in Upto(n + 1), s # {}
        PROVE  h[s] = f[Pick(s)] + h[s \ {Pick(s)}]
    <3>1. Pick(s) \in s /\ n \in Nat /\ s \in SUBSET S
      BY <2>2, Picked
    <3>2. Cardinality(s \ {Pick(s)}) = Cardinality(s) - 1 /\ Cardinality(s) \in Nat
      BY <3>1, Sizes
    <3>3. s \ {Pick(s)} \in Upto(n + 1) /\ Cardinality(s \ {Pick(s)}) <= n
      BY <3>1, <3>2
    <3>4. h[s \ {Pick(s)}] = g[s \ {Pick(s)}]
      BY <3>3
    <3>5. CASE Cardinality(s) <= n
      <4>1. s \in Upto(n)
        BY <3>1, <3>5
      <4>2. g[s] = f[Pick(s)] + g[s \ {Pick(s)}]
        BY <2>1, <2>2, <4>1
      <4>3. QED
        BY <3>4, <3>5, <4>2
    <3>6. CASE ~(Cardinality(s) <= n)
      BY <3>4, <3>6
    <3>7. QED
      BY <3>5, <3>6
  <2>3. ASSUME NEW s \in Upto(n + 1), s = {}
        PROVE  h[s] = 0
    <3>1. Cardinality(s) = 0 /\ n \in Nat /\ s \in SUBSET S
      BY <2>3, Sizes
    <3>2. s \in Upto(n)
      BY <3>1
    <3>3. g[s] = 0
      BY <2>1, <2>3, <3>2
    <3>4. QED
      BY <3>1, <3>3
  <2>4. h = [s \in Upto(n + 1) |-> h[s]]
    OBVIOUS
  <2> HIDE DEF h
  <2>5. Part(h, n + 1)
    BY <2>2, <2>3, <2>4
  <2> HIDE DEF Part
  <2>6. QED
    BY <2>5
<1>3. A = Nat
  <2> HIDE DEF A
  <2>1. A \subseteq Nat
    BY DEF A
  <2>2. QED
    BY <1>1, <1>2, <2>1, AllNumbers
<1>4. Cardinality(S) \in A /\ Upto(Cardinality(S)) = SUBSET S
  BY <1>3, Sizes
<1>5. PICK g : Part(g, Cardinality(S))
  BY <1>4
<1>6. QED
  BY <1>4, <1>5 DEF Summing

\* Whatever the order, a member's share can be taken out first.
LEMMA SumTakes ==
    ASSUME NEW S, IsFiniteSet(S), NEW f, \A x \in S : f[x] \in Nat,
           NEW g, Summing(g, f, S), NEW r \in SUBSET S
    PROVE  g[r] \in Nat /\ \A x \in r : g[r] = f[x] + g[r \ {x}]
<1> DEFINE Taken(s) == g[s] \in Nat /\ \A x \in s : g[s] = f[x] + g[s \ {x}]
           A == {n \in Nat : \A s \in SUBSET S : Cardinality(s) <= n => Taken(s)}
<1>a. /\ g[{}] = 0
      /\ \A s \in SUBSET S : s # {} => g[s] = f[Pick(s)] + g[s \ {Pick(s)}]
  BY DEF Summing
<1>1. 0 \in A
  <2>1. \A s \in SUBSET S : Cardinality(s) <= 0 => s = {}
    BY Sizes
  <2>2. Taken({})
    BY <1>a
  <2>3. QED
    BY <2>1, <2>2
<1>2. ASSUME NEW n \in A, NEW s \in SUBSET S, Cardinality(s) <= n + 1, s # {}
      PROVE  Taken(s)
  <2>1. \A q \in SUBSET S : Cardinality(q) <= n => Taken(q)
    BY <1>2
  <2>2. \A q \in SUBSET s : q # s => Taken(q)
    <3> SUFFICES ASSUME NEW q \in SUBSET s, q # s PROVE Taken(q)
      OBVIOUS
    <3>1. IsFiniteSet(s) /\ Cardinality(s) \in Nat /\ n \in Nat
      BY Sizes
    <3>2. /\ Cardinality(q) \in Nat /\ Cardinality(q) <= Cardinality(s)
          /\ Cardinality(q) # Cardinality(s)
      BY <3>1, FS_Subset, FS_CardinalityType
    <3>3. Cardinality(q) <= n
      BY <1>2, <3>1, <3>2
    <3>4. QED
      BY <2>1, <3>3
  <2>3. PICK y \in s : y = Pick(s)
    BY <1>2, Picked
  <2>4. g[s] = f[y] + g[s \ {y}]
    BY <1>a, <1>2, <2>3
  <2>5. \A x \in s : Taken(s \ {x}) /\ f[x] \in Nat
    BY <2>2
  <2>6. g[s] \in Nat
    BY <2>4, <2>5
  <2>7. ASSUME NEW x \in s, x # y
        PROVE  g[s] = f[x] + g[s \ {x}]
    <3>1. g[s \ {y}] = f[x] + g[(s \ {y}) \ {x}]
      BY <2>5, <2>7
    <3>2. g[s \ {x}] = f[y] + g[(s \ {x}) \ {y}]
      BY <2>5, <2>7
    <3>3. (s \ {y}) \ {x} = (s \ {x}) \ {y} /\ (s \ {x}) \ {y} # s
      OBVIOUS
    <3>4. g[(s \ {x}) \ {y}] \in Nat /\ f[x] \in Nat /\ f[y] \in Nat
      BY <2>2, <2>5, <3>3
    <3>5. PICK rest : rest = g[(s \ {x}) \ {y}]
      OBVIOUS
    <3>6. /\ rest \in Nat /\ f[x] \in Nat /\ f[y] \in Nat
          /\ g[s] = f[y] + (f[x] + rest) /\ g[s \ {x}] = f[y] + rest
      BY <2>4, <3>1, <3>2, <3>3, <3>4, <3>5
    <3>7. f[y] + (f[x] + rest) = f[x] + (f[y] + rest)
      BY <3>6
    <3>8. QED
      BY <3>6, <3>7
  <2>8. QED
    BY <2>4, <2>6, <2>7
<1>3. A = Nat
  <2>1. ASSUME NEW n \in A PROVE n + 1 \in A
    <3>1. \A s \in SUBSET S : Cardinality(s) <= n + 1 => Taken(s)
      <4>1. Taken({})
        BY <1>a
      <4> HIDE DEF Taken
      <4>2. QED
        BY <1>2, <4>1
    <3> HIDE DEF Taken
    <3>2. QED
      BY <3>1
  <2>2. A \subseteq Nat
    OBVIOUS
  <2> HIDE DEF A
  <2>3. QED
    BY <1>1, <2>1, <2>2, AllNumbers
<1>4. Cardinality(r) \in A /\ Cardinality(r) <= Cardinality(r)
  <2>1. Cardinality(r) \in Nat
    BY Sizes
  <2> HIDE DEF A
  <2>2. QED
    BY <1>3, <2>1
<1>5. QED
  BY <1>4

\* The sum depends on the members and their shares alone.
LEMMA SumAgrees ==
    ASSUME NEW S, IsFiniteSet(S), NEW f, NEW g, Summing(g, f, S),
           NEW T, NEW e, NEW h, Summing(h, e, T),
           NEW r \in SUBSET S, r \subseteq T, \A x \in r : f[x] = e[x]
    PROVE  g[r] = h[r]
<1> DEFINE A == {n \in Nat : \A s \in SUBSET r : Cardinality(s) = n => g[s] = h[s]}
<1>a. /\ \A s \in SUBSET r :
            g[s] = IF s = {} THEN 0 ELSE f[Pick(s)] + g[s \ {Pick(s)}]
      /\ \A s \in SUBSET r :
            h[s] = IF s = {} THEN 0 ELSE e[Pick(s)] + h[s \ {Pick(s)}]
      /\ IsFiniteSet(r)
  BY Sizes DEF Summing
<1>1. 0 \in A
  <2>1. \A s \in SUBSET r : Cardinality(s) = 0 => s = {}
    BY <1>a, Sizes
  <2>2. QED
    BY <1>a, <2>1
<1>2. ASSUME NEW n \in A, NEW s \in SUBSET r, Cardinality(s) = n + 1
      PROVE  g[s] = h[s]
  <2>1. n \in Nat /\ s # {}
    BY <1>a, <1>2, Sizes
  <2>2. Pick(s) \in s /\ s \ {Pick(s)} \in SUBSET r
    BY <2>1, Picked
  <2>3. Cardinality(s \ {Pick(s)}) = n
    BY <1>a, <1>2, <2>1, <2>2, Sizes
  <2>4. g[s \ {Pick(s)}] = h[s \ {Pick(s)}]
    BY <2>2, <2>3
  <2>5. f[Pick(s)] = e[Pick(s)]
    BY <2>2
  <2>6. QED
    BY <1>a, <2>1, <2>4, <2>5
<1>3. A = Nat
  <2>1. \A n \in A : n + 1 \in A
    BY <1>2
  <2>2. A \subseteq Nat
    OBVIOUS
  <2> HIDE DEF A
  <2>3. QED
    BY <1>1, <2>1, <2>2, AllNumbers
<1>4. Cardinality(r) \in A
  <2>1. Cardinality(r) \in Nat
    BY Sizes
  <2> HIDE DEF A
  <2>2. QED
    BY <1>3, <2>1
<1>5. QED
  BY <1>4

LEMMA SumDefined ==
    ASSUME NEW S, IsFiniteSet(S), NEW f
    PROVE  \E g : Summing(g, f, S) /\ SumOf(f, S) = g[S]
<1>1. Summing(CHOOSE g : Summing(g, f, S), f, S)
  BY SumExists
<1>2. QED
  BY <1>1 DEF SumOf

LEMMA SumType ==
    ASSUME NEW S, IsFiniteSet(S), NEW f, \A x \in S : f[x] \in Nat
    PROVE  SumOf(f, S) \in Nat
<1>1. PICK g : Summing(g, f, S) /\ SumOf(f, S) = g[S]
  BY SumDefined
<1>2. g[S] \in Nat
  BY <1>1, SumTakes
<1>3. QED
  BY <1>1, <1>2

LEMMA SumEmpty == ASSUME NEW f PROVE SumOf(f, {}) = 0
<1>1. IsFiniteSet({})
  BY FS_EmptySet
<1>2. PICK g : Summing(g, f, {}) /\ SumOf(f, {}) = g[{}]
  BY <1>1, SumDefined
<1>3. QED
  BY <1>2 DEF Summing

\* The sum without one member, of a function that agrees on the others.
LEMMA SumDrops ==
    ASSUME NEW S, IsFiniteSet(S), NEW f, \A x \in S : f[x] \in Nat, NEW x \in S,
           NEW e, \A y \in S \ {x} : e[y] = f[y]
    PROVE  SumOf(f, S) = f[x] + SumOf(e, S \ {x})
<1>1. IsFiniteSet(S \ {x})
  BY FS_RemoveElement
<1>2. PICK g : Summing(g, f, S) /\ SumOf(f, S) = g[S]
  BY SumDefined
<1>3. PICK h : Summing(h, e, S \ {x}) /\ SumOf(e, S \ {x}) = h[S \ {x}]
  BY <1>1, SumDefined
<1>4. g[S] = f[x] + g[S \ {x}]
  BY <1>2, SumTakes
<1>5. PICK r : r = S \ {x}
  OBVIOUS
<1>6. r \in SUBSET S /\ r \subseteq S \ {x} /\ \A y \in r : f[y] = e[y]
  BY <1>5
<1>7. g[r] = h[r]
  BY <1>2, <1>3, <1>6, SumAgrees
<1>8. QED
  BY <1>2, <1>3, <1>4, <1>5, <1>7

-----------------------------------------------------------------------------
\* The token: who may hold it, and where it went

Movers == {"alice", "gate"}
Holders == {FtOwner} \cup Movers
TokenMoves == Movers \X Movers \X Nat

\* What account a was sent, or sent, by the moves listed.
Share(moves, a, end) ==
    [k \in DOMAIN moves |-> IF moves[k][end] = a THEN moves[k][3] ELSE 0]
MovedIn(moves, a, end) == SumOf(Share(moves, a, end), DOMAIN moves)

\* What the accounts hold together.
Total == BalanceOf("alice") + BalanceOf("gate")
           + (IF FtOwner \in Movers THEN 0 ELSE BalanceOf(FtOwner))

(***************************************************************************)
(* SupplyConserved with its sums unrolled: over the accounts there can be, *)
(* and over the moves one by one.                                          *)
(***************************************************************************)
ShimInv ==
    /\ total_supply \in Nat /\ transfer_log \in Seq(TokenMoves)
    /\ DOMAIN balances \subseteq Holders
    /\ \A a \in DOMAIN balances :
          balances[a] \in Nat /\ (balances[a] > 0 \/ total_supply = 0)
    /\ Total = total_supply
    /\ \A a \in Holders :
          BalanceOf(a) + MovedIn(transfer_log, a, 1)
            = MovedIn(transfer_log, a, 2) + (IF a = FtOwner THEN total_supply ELSE 0)

LEMMA ShareFacts ==
    ASSUME NEW moves \in Seq(TokenMoves), NEW a, NEW end \in {1, 2}
    PROVE  /\ IsFiniteSet(DOMAIN moves) /\ DOMAIN moves = 1..Len(moves) /\ Len(moves) \in Nat
           /\ \A k \in DOMAIN moves : Share(moves, a, end)[k] \in Nat
           /\ MovedIn(moves, a, end) \in Nat
<1>1. DOMAIN moves = 1..Len(moves) /\ Len(moves) \in Nat
  OBVIOUS
<1>2. IsFiniteSet(DOMAIN moves)
  BY <1>1, FS_Interval
<1>3. \A k \in DOMAIN moves : Share(moves, a, end)[k] \in Nat
  <2> TAKE k \in DOMAIN moves
  <2>1. moves[k] \in TokenMoves
    BY <1>1
  <2>2. moves[k][3] \in Nat
    BY <2>1 DEF TokenMoves
  <2>3. QED
    BY <2>2 DEF Share
<1>4. MovedIn(moves, a, end) \in Nat
  BY <1>2, <1>3, SumType DEF MovedIn
<1>5. QED
  BY <1>1, <1>2, <1>3, <1>4

LEMMA NothingMoved == ASSUME NEW a, NEW end PROVE MovedIn(<<>>, a, end) = 0
<1>1. DOMAIN <<>> = {}
  OBVIOUS
<1>2. QED
  BY <1>1, SumEmpty DEF MovedIn

\* One more move.
LEMMA OneMoreMove ==
    ASSUME NEW moves \in Seq(TokenMoves), NEW move \in TokenMoves, NEW a, NEW end \in {1, 2}
    PROVE  MovedIn(Append(moves, move), a, end)
             = MovedIn(moves, a, end) + (IF move[end] = a THEN move[3] ELSE 0)
<1> PICK more : more = Append(moves, move)
  OBVIOUS
<1>1. /\ more \in Seq(TokenMoves) /\ Len(more) = Len(moves) + 1 /\ Len(moves) \in Nat
      /\ more[Len(moves) + 1] = move
      /\ \A k \in 1..Len(moves) : more[k] = moves[k]
      /\ DOMAIN moves = 1..Len(moves) /\ DOMAIN more = 1..(Len(moves) + 1)
  OBVIOUS
<1> PICK last : last = Len(moves) + 1
  OBVIOUS
<1>2. last \in DOMAIN more /\ DOMAIN more \ {last} = DOMAIN moves
  BY <1>1
<1>3. \A k \in DOMAIN moves : Share(moves, a, end)[k] = Share(more, a, end)[k]
  BY <1>1 DEF Share
<1>4. SumOf(Share(more, a, end), DOMAIN more)
        = Share(more, a, end)[last] + SumOf(Share(moves, a, end), DOMAIN moves)
  <2>1. PICK D, f, e :
           D = DOMAIN more /\ f = Share(more, a, end) /\ e = Share(moves, a, end)
    OBVIOUS
  <2>2. IsFiniteSet(D) /\ \A k \in D : f[k] \in Nat
    BY <1>1, <2>1, ShareFacts
  <2>3. last \in D /\ D \ {last} = DOMAIN moves
    BY <1>2, <2>1
  <2>4. \A k \in D \ {last} : e[k] = f[k]
    BY <1>3, <2>1, <2>3
  <2>5. SumOf(f, D) = f[last] + SumOf(e, D \ {last})
    <3> HIDE <2>1
    <3>1. QED
      BY <2>2, <2>3, <2>4, SumDrops, SMTT(30)
  <2>6. QED
    BY <2>1, <2>3, <2>5
<1>5. Share(more, a, end)[last] = IF move[end] = a THEN move[3] ELSE 0
  BY <1>1, <1>2 DEF Share
<1>6. MovedIn(moves, a, end) \in Nat /\ Share(more, a, end)[last] \in Nat
  BY <1>1, <1>2, ShareFacts
<1>7. QED
  BY <1>4, <1>5, <1>6 DEF MovedIn

\* The folds of FtShim are these sums.
LEMMA MovedIsSum ==
    ASSUME transfer_log \in Seq(TokenMoves), NEW a, NEW end \in {1, 2}
    PROVE  Moved(a, end) = MovedIn(transfer_log, a, end)
<1> PICK f, D : f = Share(transfer_log, a, end) /\ D = DOMAIN transfer_log
  OBVIOUS
<1> DEFINE Fold(g) ==
      g = [s \in SUBSET D |-> IF s = {} THEN 0
             ELSE (IF transfer_log[Pick(s)][end] = a THEN transfer_log[Pick(s)][3] ELSE 0)
                    + g[s \ {Pick(s)}]]
<1>1. IsFiniteSet(D)
  BY ShareFacts
<1>2. \A g : Fold(g) <=> Summing(g, f, D)
  <2>1. \A s \in SUBSET D : s # {} =>
           f[Pick(s)] = IF transfer_log[Pick(s)][end] = a THEN transfer_log[Pick(s)][3] ELSE 0
    BY Picked DEF Share
  <2>2. QED
    BY <2>1 DEF Summing
<1>3. Summing(CHOOSE g : Fold(g), f, D)
  BY <1>1, <1>2, SumExists
<1>4. Moved(a, end) = (CHOOSE g : Fold(g))[D]
  BY DEF Moved, MapThenSumSet, MapThenFoldSet, Pick
<1>5. PICK h : Summing(h, f, D) /\ SumOf(f, D) = h[D]
  BY <1>1, SumDefined
<1>6. (CHOOSE g : Fold(g))[D] = h[D]
  BY <1>1, <1>3, <1>5, SumAgrees
<1>7. QED
  BY <1>4, <1>5, <1>6 DEF MovedIn

\* A fold over an operator that has a function's values.
LEMMA BalancesSum ==
    ASSUME NEW D, DOMAIN balances = D, D \subseteq Holders, IsFiniteSet(D),
           NEW f, \A x \in D : f[x] = BalanceOf(x)
    PROVE  MapThenSumSet(BalanceOf, DOMAIN balances) = SumOf(f, D)
<1> DEFINE Fold(g) ==
      g = [s \in SUBSET D |-> IF s = {} THEN 0
             ELSE BalanceOf(Pick(s)) + g[s \ {Pick(s)}]]
<1>2. \A g : Fold(g) <=> Summing(g, f, D)
  <2>1. \A s \in SUBSET D : s # {} => f[Pick(s)] = BalanceOf(Pick(s))
    BY Picked
  <2>2. QED
    BY <2>1 DEF Summing
<1>3. Summing(CHOOSE g : Fold(g), f, D)
  <2>1. \E g : Summing(g, f, D)
    BY SumExists
  <2> HIDE DEF Fold
  <2>2. Fold(CHOOSE g : Fold(g))
    BY <1>2, <2>1
  <2>3. QED
    BY <1>2, <2>2
<1>4. MapThenSumSet(BalanceOf, DOMAIN balances) = (CHOOSE g : Fold(g))[D]
  BY DEF MapThenSumSet, MapThenFoldSet, Pick
<1>5. PICK h : Summing(h, f, D) /\ SumOf(f, D) = h[D]
  BY SumDefined
<1>6. (CHOOSE g : Fold(g))[D] = h[D]
  BY <1>3, <1>5, SumAgrees
<1>7. QED
  BY <1>4, <1>5, <1>6

\* The sum, one account at a time, of those that have an entry.
LEMMA SumWithout ==
    ASSUME NEW S, IsFiniteSet(S), NEW f, \A y \in S : f[y] \in Nat, NEW x,
           NEW v \in Nat, x \in S => v = f[x], x \notin S => v = 0,
           NEW r, r = S \ {x}
    PROVE  IsFiniteSet(r) /\ SumOf(f, r) \in Nat /\ SumOf(f, S) = v + SumOf(f, r)
<1>1. IsFiniteSet(r)
  BY FS_RemoveElement
<1>2. SumOf(f, r) \in Nat
  BY <1>1, SumType
<1>3. CASE x \in S
  <2>1. SumOf(f, S) = f[x] + SumOf(f, S \ {x})
    BY <1>3, SumDrops, SMTT(30)
  <2>2. QED
    BY <1>1, <1>2, <1>3, <2>1
<1>4. CASE x \notin S
  <2>1. r = S
    BY <1>4
  <2>2. QED
    BY <1>1, <1>2, <1>4, <2>1
<1>5. QED
  BY <1>3, <1>4

LEMMA BalancesTotal ==
    ASSUME DOMAIN balances \subseteq Holders, \A a \in DOMAIN balances : balances[a] \in Nat
    PROVE  /\ MapThenSumSet(BalanceOf, DOMAIN balances) = Total
           /\ \A a : BalanceOf(a) \in Nat
<1>1. PICK D, f : D = DOMAIN balances /\ f = [a \in Holders |-> BalanceOf(a)]
  OBVIOUS
<1>2. \A a : BalanceOf(a) \in Nat /\ (a \notin D => BalanceOf(a) = 0)
  BY <1>1 DEF BalanceOf
<1>3. D \subseteq Holders /\ \A a \in D : f[a] = BalanceOf(a) /\ f[a] \in Nat
  BY <1>1, <1>2
<1>4. IsFiniteSet(D)
  <2>1. IsFiniteSet({FtOwner, "alice", "gate"})
    <3>1. IsFiniteSet({}) /\ IsFiniteSet({} \cup {"alice"})
      BY FS_EmptySet, FS_AddElement
    <3>2. IsFiniteSet(({} \cup {"alice"}) \cup {"gate"})
      BY <3>1, FS_AddElement
    <3>3. IsFiniteSet((({} \cup {"alice"}) \cup {"gate"}) \cup {FtOwner})
      BY <3>2, FS_AddElement
    <3>4. (({} \cup {"alice"}) \cup {"gate"}) \cup {FtOwner} = {FtOwner, "alice", "gate"}
      OBVIOUS
    <3>5. QED
      BY <3>3, <3>4
  <2>2. QED
    BY <1>3, <2>1, FS_Subset DEF Holders, Movers
<1>5. MapThenSumSet(BalanceOf, DOMAIN balances) = SumOf(f, D)
  BY <1>1, <1>3, <1>4, BalancesSum
<1>6. PICK D1, D2, D3 : D1 = D \ {"alice"} /\ D2 = D1 \ {"gate"} /\ D3 = D2 \ {FtOwner}
  OBVIOUS
<1>7. D3 = {} /\ SumOf(f, D3) = 0
  BY <1>3, <1>6, SumEmpty DEF Holders, Movers
<1>8. /\ IsFiniteSet(D1) /\ SumOf(f, D1) \in Nat
      /\ SumOf(f, D) = BalanceOf("alice") + SumOf(f, D1)
  <2>1. PICK v \in Nat : v = BalanceOf("alice")
    BY <1>2
  <2>2. ("alice" \in D => v = f["alice"]) /\ ("alice" \notin D => v = 0)
    BY <1>2, <1>3, <2>1
  <2>3. \A y \in D : f[y] \in Nat
    BY <1>3
  <2>4. IsFiniteSet(D1) /\ SumOf(f, D1) \in Nat /\ SumOf(f, D) = v + SumOf(f, D1)
    BY <1>4, <1>6, <2>2, <2>3, SumWithout
  <2>5. QED
    BY <2>1, <2>4
<1>9. /\ IsFiniteSet(D2) /\ SumOf(f, D2) \in Nat
      /\ SumOf(f, D1) = BalanceOf("gate") + SumOf(f, D2)
  <2>1. PICK v \in Nat : v = BalanceOf("gate")
    BY <1>2
  <2>2. ("gate" \in D1 => v = f["gate"]) /\ ("gate" \notin D1 => v = 0)
    BY <1>2, <1>3, <1>6, <2>1
  <2>3. \A y \in D1 : f[y] \in Nat
    BY <1>3, <1>6
  <2>4. IsFiniteSet(D2) /\ SumOf(f, D2) \in Nat /\ SumOf(f, D1) = v + SumOf(f, D2)
    BY <1>6, <1>8, <2>2, <2>3, SumWithout
  <2>5. QED
    BY <2>1, <2>4
<1>10. PICK v \in Nat : v = IF FtOwner \in Movers THEN 0 ELSE BalanceOf(FtOwner)
  BY <1>2
<1>11. SumOf(f, D2) = v
  <2>1. (FtOwner \in D2 => v = f[FtOwner]) /\ (FtOwner \notin D2 => v = 0)
    <3>1. CASE FtOwner \in Movers
      BY <1>6, <1>10, <3>1 DEF Movers
    <3>2. CASE FtOwner \notin Movers /\ FtOwner \in D
      BY <1>3, <1>6, <1>10, <3>2 DEF Movers
    <3>3. CASE FtOwner \notin Movers /\ FtOwner \notin D
      BY <1>2, <1>6, <1>10, <3>3 DEF Movers
    <3>4. QED
      BY <3>1, <3>2, <3>3
  <2>2. \A y \in D2 : f[y] \in Nat
    BY <1>3, <1>6
  <2>3. SumOf(f, D2) = v + SumOf(f, D3)
    BY <1>6, <1>9, <2>1, <2>2, SumWithout
  <2>4. QED
    BY <1>7, <2>3
<1>12. QED
  <2>1. Total = BalanceOf("alice") + BalanceOf("gate") + v
    BY <1>10 DEF Total
  <2>2. BalanceOf("alice") \in Nat /\ BalanceOf("gate") \in Nat
    BY <1>2
  <2>3. SumOf(f, D) = Total
    BY <1>8, <1>9, <1>11, <2>1, <2>2
  <2>4. MapThenSumSet(BalanceOf, DOMAIN balances) = Total
    BY <1>5, <2>3, Zenon
  <2>5. \A a : BalanceOf(a) \in Nat
    BY <1>2
  <2>6. QED
    BY <2>4, <2>5, Zenon

\* The sums of SupplyConserved, rolled up.
LEMMA ShimIsConserved == ASSUME ShimInv PROVE SupplyConserved
<1>1. MapThenSumSet(BalanceOf, DOMAIN balances) = total_supply
  BY BalancesTotal DEF ShimInv
<1>2. \A m \in Range(transfer_log) : m[1] \in Movers /\ m[2] \in Movers
  <2>1. \A k \in DOMAIN transfer_log : transfer_log[k] \in TokenMoves
    BY DEF ShimInv
  <2>2. QED
    BY <2>1 DEF Range, TokenMoves
<1>3. {FtOwner} \cup UNION {{m[1], m[2]} : m \in Range(transfer_log)} \subseteq Holders
  BY <1>2 DEF Holders
<1>4. \A a : /\ Moved(a, 1) = MovedIn(transfer_log, a, 1)
             /\ Moved(a, 2) = MovedIn(transfer_log, a, 2)
  BY MovedIsSum DEF ShimInv
<1>5. \A a \in {FtOwner} \cup UNION {{m[1], m[2]} : m \in Range(transfer_log)} :
         BalanceOf(a) + Moved(a, 1) = Moved(a, 2) + (IF a = FtOwner THEN total_supply ELSE 0)
  BY <1>3, <1>4 DEF ShimInv
<1>6. \A a \in DOMAIN balances : balances[a] > 0 \/ total_supply = 0
  BY DEF ShimInv
<1>7. QED
  BY <1>1, <1>5, <1>6 DEF SupplyConserved

-----------------------------------------------------------------------------
\* What a transfer does to the balances and the sums

\* The sender's entry goes at zero, the receiver's is made; nobody else's moves.
LEMMA TransferMoves ==
    ASSUME ShimInv, NEW s \in Movers, NEW r \in Movers, NEW v \in Nat, Transfer(s, r, v)
    PROVE  /\ s # r /\ DOMAIN balances' \subseteq Holders
           /\ \A a \in DOMAIN balances' :
                 balances'[a] \in Nat /\ (balances'[a] > 0 \/ total_supply = 0)
           /\ v <= BalanceOf(s) /\ (BalanceOf(s))' = BalanceOf(s) - v
           /\ (BalanceOf(r))' = BalanceOf(r) + v
           /\ \A a : a # s /\ a # r => (BalanceOf(a))' = BalanceOf(a)
           /\ transfer_log' = Append(transfer_log, <<s, r, v>>)
           /\ total_supply' = total_supply
<1>1. /\ DOMAIN balances \subseteq Holders
      /\ \A a \in DOMAIN balances :
            balances[a] \in Nat /\ (balances[a] > 0 \/ total_supply = 0)
      /\ \A a : BalanceOf(a) \in Nat
  BY DEF ShimInv, BalanceOf
<1>2. /\ s # r /\ v > 0 /\ v <= BalanceOf(s)
      /\ transfer_log' = Append(transfer_log, <<s, r, v>>) /\ total_supply' = total_supply
  BY <1>1 DEF Transfer, CanTransfer
<1>3. PICK left \in Nat, got \in Nat : left = BalanceOf(s) - v /\ got = BalanceOf(r) + v
  BY <1>1, <1>2
<1>4. got > 0 /\ s \in DOMAIN balances /\ balances[s] = BalanceOf(s)
  BY <1>1, <1>2, <1>3 DEF BalanceOf
<1>5. PICK debited :
         /\ debited = IF left = 0 THEN Restrict(balances, DOMAIN balances \ {s})
                      ELSE Insert(balances, s, left)
         /\ balances' = Insert(debited, r, got)
  BY <1>3 DEF Transfer
<1>6. /\ DOMAIN debited = IF left = 0 THEN DOMAIN balances \ {s} ELSE DOMAIN balances
      /\ \A a \in DOMAIN debited : a # s => debited[a] = balances[a]
      /\ s \in DOMAIN debited => debited[s] = left /\ left > 0
  <2>1. CASE left = 0
    <3>1. debited = [a \in DOMAIN balances \ {s} |-> balances[a]]
      BY <1>5, <2>1 DEF Restrict
    <3>2. QED
      BY <2>1, <3>1
  <2>2. CASE left # 0
    <3>1. debited = [a \in DOMAIN balances \cup {s} |-> IF a = s THEN left ELSE balances[a]]
      BY <1>5, <2>2 DEF Insert
    <3>2. DOMAIN debited = DOMAIN balances
      BY <1>4, <3>1
    <3>3. QED
      BY <1>3, <2>2, <3>1, <3>2
  <2>3. QED
    BY <2>1, <2>2
<1>7. /\ DOMAIN balances' = DOMAIN debited \cup {r} /\ balances'[r] = got
      /\ \A a \in DOMAIN debited : a # r => balances'[a] = debited[a]
  BY <1>5 DEF Insert
<1>8. DOMAIN balances' \subseteq Holders
  BY <1>1, <1>6, <1>7 DEF Holders
<1>9. \A a \in DOMAIN balances' :
         balances'[a] \in Nat /\ (balances'[a] > 0 \/ total_supply = 0)
  BY <1>1, <1>3, <1>4, <1>6, <1>7
<1>10. (BalanceOf(s))' = left
  BY <1>2, <1>3, <1>6, <1>7 DEF BalanceOf
<1>11. (BalanceOf(r))' = got
  BY <1>7 DEF BalanceOf
<1>12. \A a : a # s /\ a # r => (BalanceOf(a))' = BalanceOf(a)
  BY <1>6, <1>7 DEF BalanceOf
<1>13. QED
  BY <1>2, <1>3, <1>8, <1>9, <1>10, <1>11, <1>12

LEMMA TransferKeeps ==
    ASSUME ShimInv, NEW s \in Movers, NEW r \in Movers, NEW v \in Nat, Transfer(s, r, v)
    PROVE  ShimInv'
<1>1. PICK move : move = <<s, r, v>>
  OBVIOUS
<1>2. move \in TokenMoves /\ move[1] = s /\ move[2] = r /\ move[3] = v
  BY <1>1 DEF TokenMoves
<1>3. /\ s # r /\ DOMAIN balances' \subseteq Holders
      /\ \A a \in DOMAIN balances' :
            balances'[a] \in Nat /\ (balances'[a] > 0 \/ total_supply = 0)
      /\ v <= BalanceOf(s) /\ (BalanceOf(s))' = BalanceOf(s) - v
      /\ (BalanceOf(r))' = BalanceOf(r) + v
      /\ \A a : a # s /\ a # r => (BalanceOf(a))' = BalanceOf(a)
      /\ transfer_log' = Append(transfer_log, move)
      /\ total_supply' = total_supply
  BY <1>1, TransferMoves
<1>4. transfer_log \in Seq(TokenMoves) /\ total_supply \in Nat /\ \A a : BalanceOf(a) \in Nat
  BY DEF ShimInv, BalanceOf
<1>5. transfer_log' \in Seq(TokenMoves)
  BY <1>2, <1>3, <1>4
<1>6. Total' = total_supply'
  <2>1. PICK other \in Nat : other = IF FtOwner \in Movers THEN 0 ELSE BalanceOf(FtOwner)
    BY <1>4
  <2>2. other = IF FtOwner \in Movers THEN 0 ELSE (BalanceOf(FtOwner))'
    BY <1>3, <2>1
  <2>3. BalanceOf("alice") + BalanceOf("gate") + other = total_supply
    BY <2>1 DEF ShimInv, Total
  <2>4. (BalanceOf("alice"))' + (BalanceOf("gate"))' + other = total_supply
    <3>1. PICK x, y \in Nat : x = BalanceOf("alice") /\ y = BalanceOf("gate")
      BY <1>4
    <3>2. CASE s = "alice" /\ r = "gate"
      BY <1>3, <2>3, <3>1, <3>2
    <3>3. CASE s = "gate" /\ r = "alice"
      BY <1>3, <2>3, <3>1, <3>3
    <3>4. QED
      BY <1>3, <3>2, <3>3 DEF Movers
  <2>5. QED
    BY <1>3, <2>2, <2>4 DEF Total
<1>7. ASSUME NEW a \in Holders
      PROVE  (BalanceOf(a))' + MovedIn(transfer_log', a, 1)
               = MovedIn(transfer_log', a, 2) + (IF a = FtOwner THEN total_supply' ELSE 0)
  <2>1. PICK out, in, x, y, made :
           /\ out = MovedIn(transfer_log, a, 1) /\ in = MovedIn(transfer_log, a, 2)
           /\ x = BalanceOf(a) /\ y = (BalanceOf(a))'
           /\ made = IF a = FtOwner THEN total_supply ELSE 0
    OBVIOUS
  <2>2. out \in Nat /\ in \in Nat /\ x \in Nat /\ made \in Nat
    BY <1>4, <2>1, ShareFacts
  <2>3. x + out = in + made
    BY <2>1 DEF ShimInv
  <2>4. PICK out2, in2 :
           out2 = MovedIn(transfer_log', a, 1) /\ in2 = MovedIn(transfer_log', a, 2)
    OBVIOUS
  <2>5. out2 = out + (IF s = a THEN v ELSE 0) /\ in2 = in + (IF r = a THEN v ELSE 0)
    BY <1>2, <1>3, <1>4, <2>1, <2>4, OneMoreMove
  <2>6. y + out2 = in2 + made
    <3>1. CASE a = s
      <4>1. y = x - v /\ out2 = out + v /\ in2 = in
        BY <1>3, <2>1, <2>2, <2>5, <3>1
      <4>2. QED
        BY <2>2, <2>3, <4>1
    <3>2. CASE a = r
      <4>1. y = x + v /\ out2 = out /\ in2 = in + v
        BY <1>3, <2>1, <2>2, <2>5, <3>2
      <4>2. QED
        BY <2>2, <2>3, <4>1
    <3>3. CASE a # s /\ a # r
      <4>1. y = x /\ out2 = out /\ in2 = in
        BY <1>3, <2>1, <2>2, <2>5, <3>3
      <4>2. QED
        BY <2>2, <2>3, <4>1
    <3>4. QED
      BY <3>1, <3>2, <3>3
  <2>7. QED
    BY <1>3, <2>1, <2>4, <2>6
<1>8. QED
  BY <1>3, <1>4, <1>5, <1>6, <1>7 DEF ShimInv

LEMMA AbsentKeeps ==
    /\ FtAbsent => ShimInv
    /\ FtDestroyed => ShimInv'
<1>1. FtAbsent => ShimInv
  <2> SUFFICES ASSUME FtAbsent PROVE ShimInv
    OBVIOUS
  <2>1. /\ total_supply = 0 /\ transfer_log = <<>> /\ DOMAIN balances = {}
        /\ \A a : BalanceOf(a) = 0
    BY DEF FtAbsent, NoEntries, BalanceOf
  <2>2. Total = 0
    BY <2>1 DEF Total
  <2>3. \A a : MovedIn(transfer_log, a, 1) = 0 /\ MovedIn(transfer_log, a, 2) = 0
    BY <2>1, NothingMoved
  <2>4. QED
    BY <2>1, <2>2, <2>3 DEF ShimInv
<1>2. FtDestroyed => ShimInv'
  <2> SUFFICES ASSUME FtDestroyed PROVE ShimInv'
    OBVIOUS
  <2>1. /\ total_supply' = 0 /\ transfer_log' = <<>> /\ DOMAIN balances' = {}
        /\ \A a : (BalanceOf(a))' = 0
    BY DEF FtDestroyed, NoEntries, BalanceOf
  <2>2. Total' = 0
    BY <2>1 DEF Total
  <2>3. \A a : MovedIn(transfer_log', a, 1) = 0 /\ MovedIn(transfer_log', a, 2) = 0
    BY <2>1, NothingMoved
  <2>4. QED
    BY <2>1, <2>2, <2>3 DEF ShimInv
<1>3. QED
  BY <1>1, <1>2

LEMMA NewKeeps == ASSUME NEW supply \in Nat, FtNew(supply) PROVE ShimInv'
<1>1. /\ total_supply' = supply /\ transfer_log' = <<>> /\ DOMAIN balances' = {FtOwner}
      /\ (BalanceOf(FtOwner))' = supply /\ balances'[FtOwner] = supply
      /\ \A a : a # FtOwner => (BalanceOf(a))' = 0
  BY DEF FtNew, BalanceOf
<1>2. Total' = supply
  <2>1. CASE FtOwner = "alice"
    BY <1>1, <2>1 DEF Total, Movers
  <2>2. CASE FtOwner = "gate"
    BY <1>1, <2>2 DEF Total, Movers
  <2>3. CASE FtOwner \notin Movers
    BY <1>1, <2>3 DEF Total, Movers
  <2>4. QED
    BY <2>1, <2>2, <2>3 DEF Movers
<1>3. \A a : MovedIn(transfer_log', a, 1) = 0 /\ MovedIn(transfer_log', a, 2) = 0
  BY <1>1, NothingMoved
<1>4. \A a \in Holders : (BalanceOf(a))' + 0 = 0 + (IF a = FtOwner THEN supply ELSE 0)
  BY <1>1
<1>5. balances'[FtOwner] > 0 \/ total_supply' = 0
  BY <1>1
<1>6. QED
  BY <1>1, <1>2, <1>3, <1>4, <1>5 DEF ShimInv, Holders

-----------------------------------------------------------------------------
\* Who transfers in the system

\* What the gate calls for is an intent of a run, and its value a number.
LEMMA CalledValue ==
    ASSUME RunTypeInv, TypeInv, OwnInv, ListsInv, TurnInv, CoordinatorOrder, NEW c \in calls
    PROVE  Delegate(c.id).value \in Nat
<1>1. PICK i \in Ids : i = c.id
  BY IdFacts DEF TypeInv
<1>2. Approached(i)
  BY <1>1 DEF Approached, Called
<1>3. \A r, k : JobDelegate(r, JobOf(r), k).value = k
  BY DEF JobDelegate, Value
<1>4. CASE slot[i].batch > 0
  <2>1. PICK bn, place : bn = slot[i].batch /\ place = slot[i].seq
    OBVIOUS
  <2>2. bn \in Nat /\ place \in Nat
    BY <2>1 DEF TypeInv, GateTypeOK
  <2>3. bn <= Len(batches) /\ place < Len(batches[bn]) /\ batches[bn][place + 1] = i
    BY <1>4, <2>1 DEF CoordinatorOrder
  <2>4. bn \in 1..Len(batches)
    BY <1>4, <2>1, <2>2, <2>3, BatchesType
  <2>5. PICK list, r : list = batches[bn] /\ r = RunOf(list)
    OBVIOUS
  <2>6. AskedBy(list, r)
    BY <2>4, <2>5 DEF ListsInv
  <2>7. PICK k : k = place + 1
    OBVIOUS
  <2>8. Len(list) \in Nat /\ k \in 1..Len(list) /\ list[k] = i
    BY <2>2, <2>3, <2>5, <2>6, <2>7, AskedFacts
  <2>9. /\ JobOf(r).order[k] \in 1..Len(list)
        /\ Delegate(list[k]) = JobDelegate(r, JobOf(r), JobOf(r).order[k])
    BY <2>6, <2>8, AskedFacts
  <2>10. Delegate(i).value = JobOf(r).order[k]
    BY <1>3, <2>8, <2>9
  <2>11. QED
    BY <1>1, <2>8, <2>9, <2>10
<1>5. ASSUME NEW r \in Runs, SingleOf(i, r)
      PROVE  Delegate(i).value \in Nat
  <2>1. PICK k \in 1..Len(IdsOf(r)) : IdsOf(r)[k] = i
    BY <1>5 DEF SingleOf
  <2>2. Delegate(i) = JobDelegate(r, JobOf(r), k)
    BY <2>1 DEF OwnInv
  <2>3. k \in Nat
    BY RunFacts DEF Learnt
  <2>4. QED
    BY <1>3, <2>2, <2>3
<1>6. QED
  BY <1>1, <1>2, <1>4, <1>5 DEF TurnInv

\* The token is deployed, deleted, left alone, or moved by one transfer.
ShimMoved ==
    \/ UNCHANGED ftVars \/ FtDestroyed \/ FtNew(FtSupply)
    \/ \E s, r \in Movers, v \in Nat : Transfer(s, r, v)

LEMMA ShimMoves ==
    ASSUME RunTypeInv, TypeInv, OwnInv, ListsInv, TurnInv, CoordinatorOrder,
           [RunNext]_allVars
    PROVE  ShimMoved
<1>0. CASE UNCHANGED allVars
  BY <1>0 DEF ShimMoved, allVars, targetVars
<1>1. CASE Deployment
  BY <1>1 DEF ShimMoved, Deployment, DeployStep, DeployDisturbed, DeployChanges
<1>2. CASE RunnerStep \/ RunInterrupted \/ TransactionStep \/ TransactionLost
  BY <1>2 DEF ShimMoved, RunnerStep, RunInterrupted, TransactionStep, TransactionLost,
              targetVars
<1>3. CASE GateStep \/ GateDisturbed
  BY <1>3 DEF ShimMoved, GateStep, GateDisturbed, targetVars
<1>4. ASSUME NEW c \in calls, CallSucceeds(c) PROVE ShimMoved
  <2>1. PICK v \in Nat : v = Delegate(c.id).value
    BY CalledValue
  <2>2. CASE UNCHANGED ftVars
    BY <2>2 DEF ShimMoved
  <2>3. CASE Transfer("gate", "alice", v)
    BY <2>3 DEF ShimMoved, Movers
  <2>4. QED
    BY <1>4, <2>1, <2>2, <2>3 DEF CallSucceeds
<1>5. ASSUME NEW c \in calls, CallFails(c) PROVE ShimMoved
  BY <1>5 DEF ShimMoved, CallFails
<1>6. CASE StrayCall
  BY <1>6 DEF ShimMoved, StrayCall, Movers
<1>7. QED
  BY <1>0, <1>1, <1>2, <1>3, <1>4, <1>5, <1>6 DEF RunNext, ChainStep, TargetStep

LEMMA ShimStep ==
    ASSUME RunTypeInv, TypeInv, OwnInv, ListsInv, TurnInv, CoordinatorOrder, ShimInv,
           [RunNext]_allVars
    PROVE  ShimInv'
<1>1. CASE UNCHANGED ftVars
  BY <1>1 DEF ShimInv, ftVars, Total, BalanceOf
<1>2. CASE FtDestroyed
  BY <1>2, AbsentKeeps
<1>3. CASE FtNew(FtSupply)
  BY <1>3, NewKeeps, RunAssumption DEF RunAssumption
<1>4. ASSUME NEW s \in Movers, NEW r \in Movers, NEW v \in Nat, Transfer(s, r, v)
      PROVE  ShimInv'
  BY <1>4, TransferKeeps
<1>5. QED
  BY <1>1, <1>2, <1>3, <1>4, ShimMoves DEF ShimMoved

(***************************************************************************)
(* transfer moves and never makes or loses tokens, for every supply, every *)
(* owner, any number of transfers and any balances: the runner's batches,  *)
(* strangers' transfers and deployment in any order.                       *)
(***************************************************************************)
THEOREM TokenConserved == RunSpec => []SupplyConserved
<1>1. RunInit => ShimInv
  BY AbsentKeeps DEF RunInit
<1>2. /\ RunTypeInv /\ TypeInv /\ (OwnInv /\ ListsInv /\ OnceInv) /\ (TurnInv /\ RanInv)
      /\ CoordinatorOrder /\ ShimInv /\ [RunNext]_allVars
      => ShimInv'
  BY ShimStep
<1>3. ShimInv => SupplyConserved
  BY ShimIsConserved
<1>4. QED
  BY <1>1, <1>2, <1>3, RunTypes, RunLists, RunTurns, RunKeepsOrder, RunIsGate,
     TypeInvariant, PTL DEF RunSpec
=============================================================================
