-------------------------- MODULE HostOrderProofs --------------------------
(***************************************************************************)
(* Proofs about two hosts that hold the same relations and list their rows *)
(* in different orders: every graph the validator accepts gives them the   *)
(* same bag of rows, or fails for both.  Nodes without an order give rows  *)
(* that moved, an Order node the same rows in each group of peers, and     *)
(* ROW_NUMBER and Slice choose by a value key, which tells rows apart.     *)
(***************************************************************************)
EXTENDS NodeChainProofs

-----------------------------------------------------------------------------
(* The same rows in another order. *)

(* f takes one set to another, one to one. *)
Permutes(f, D, E) ==
  /\ \A i \in D : f[i] \in E
  /\ \A i, j \in D : f[i] = f[j] => i = j
  /\ \A k \in E : \E i \in D : f[i] = k

(* Each member of one list moves to a place of its own in the other. *)
Moves(f, a, b) ==
  Permutes(f, DOMAIN a, DOMAIN b) /\ \A i \in DOMAIN a : b[f[i]] = a[i]

(* Lists with the same members, as often. *)
Alike(a, b) == \A x : Copies(x, a) = Copies(x, b)

(* Sets of positions that correspond are of one size. *)
LEMMA PermutedSize ==
  ASSUME NEW D, NEW E, NEW f, Permutes(f, D, E), NEW P, P \subseteq D, IsFiniteSet(P),
         NEW Q, Q \subseteq E, \A i \in D : i \in P <=> f[i] \in Q
  PROVE  Cardinality(P) = Cardinality(Q)
<1> DEFINE g == [i \in P |-> f[i]]
<1>1. g \in [P -> Q] /\ \A i \in P : g[i] = f[i]
  BY DEF Permutes
<1>2. \A i, j \in P : g[i] = g[j] => i = j
  BY <1>1 DEF Permutes
<1>3. \A k \in Q : \E i \in P : g[i] = k
  BY <1>1 DEF Permutes
<1> HIDE DEF g
<1> QED
  BY <1>1, <1>2, <1>3, SameSize

(* What moved is there as often. *)
LEMMA MovedCopies ==
  ASSUME NEW S, NEW a \in Seq(S), NEW b, NEW f, Moves(f, a, b)
  PROVE  Alike(a, b)
<1> SUFFICES ASSUME NEW x PROVE Copies(x, a) = Copies(x, b)
  BY DEF Alike
<1> DEFINE P == {i \in DOMAIN a : a[i] = x}
           Q == {i \in DOMAIN b : b[i] = x}
<1>1. IsFiniteSet(P) /\ P \subseteq DOMAIN a /\ Q \subseteq DOMAIN b
  BY CopiesFacts
<1>2. \A i \in DOMAIN a : i \in P <=> f[i] \in Q
  BY DEF Moves, Permutes
<1>3. Copies(x, a) = Cardinality(P) /\ Copies(x, b) = Cardinality(Q)
  BY DEF Copies
<1>4. Permutes(f, DOMAIN a, DOMAIN b)
  BY DEF Moves
<1> HIDE DEF P, Q
<1> QED
  BY <1>1, <1>2, <1>3, <1>4, PermutedSize

(* Alike lists have the same members. *)
LEMMA AlikeRange ==
  ASSUME NEW S, NEW a \in Seq(S), NEW T, NEW b \in Seq(T), Alike(a, b)
  PROVE  Range(a) = Range(b) /\ ToBag(a) = ToBag(b)
<1>1. \A x : Copies(x, a) = Copies(x, b)
  BY DEF Alike
<1>2. \A x : Copies(x, a) = 0 <=> x \notin Range(a)
  BY CopiesFacts
<1>3. \A x : Copies(x, b) = 0 <=> x \notin Range(b)
  BY CopiesFacts
<1>4. Range(a) = Range(b)
  BY <1>1, <1>2, <1>3
<1>5. ToBag(a) = [x \in Range(a) |-> Copies(x, a)]
  BY DEF ToBag, Copies
<1>6. ToBag(b) = [x \in Range(b) |-> Copies(x, b)]
  BY DEF ToBag, Copies
<1> QED
  BY <1>1, <1>4, <1>5, <1>6

(* Two lists, of sets one of which was taken to the other. *)
LEMMA ListMoves ==
  ASSUME NEW p, NEW S, Permutes(p, DOMAIN p, S), NEW q, NEW T, Permutes(q, DOMAIN q, T),
         NEW f, Permutes(f, S, T)
  PROVE  \E g : Permutes(g, DOMAIN p, DOMAIN q) /\ \A k \in DOMAIN p : q[g[k]] = f[p[k]]
<1> DEFINE g == [k \in DOMAIN p |-> CHOOSE m \in DOMAIN q : q[m] = f[p[k]]]
<1>1. \A k \in DOMAIN p : g[k] \in DOMAIN q /\ q[g[k]] = f[p[k]]
  <2>1. \A k \in DOMAIN p : \E m \in DOMAIN q : q[m] = f[p[k]]
    BY DEF Permutes
  <2> QED
    BY <2>1
<1> HIDE DEF g
<1>2. \A j, k \in DOMAIN p : g[j] = g[k] => j = k
  BY <1>1 DEF Permutes
<1>3. \A m \in DOMAIN q : \E k \in DOMAIN p : g[k] = m
  <2>1. SUFFICES ASSUME NEW m \in DOMAIN q PROVE \E k \in DOMAIN p : g[k] = m
    OBVIOUS
  <2>2. PICK i \in S : f[i] = q[m]
    BY DEF Permutes
  <2>3. PICK k \in DOMAIN p : p[k] = i
    BY DEF Permutes
  <2>4. q[g[k]] = q[m] /\ g[k] \in DOMAIN q
    BY <1>1, <2>2, <2>3
  <2> QED
    BY <2>3, <2>4 DEF Permutes
<1> QED
  BY <1>1, <1>2, <1>3 DEF Permutes

(* The places of a member, in increasing order. *)
Places(x, list) == Increasing({i \in DOMAIN list : list[i] = x})

(* A list that is increasing. *)
Climbs(f, I) ==
  /\ DOMAIN f = 1 .. Cardinality(I) /\ Cardinality(I) \in Nat
  /\ \A p \in DOMAIN f : f[p] \in I
  /\ \A p, q \in DOMAIN f : p < q <=> f[p] < f[q]
  /\ \A p, q \in DOMAIN f : f[p] = f[q] => p = q
  /\ \A i \in I : \E p \in DOMAIN f : f[p] = i

(* Increasing(I) lists a set of numbers once and upwards.                 *)
LEMMA IncreasingClimbs ==
  ASSUME NEW I, IsFiniteSet(I), I \subseteq Int
  PROVE  Climbs(Increasing(I), I)
<1> DEFINE f == Increasing(I)
<1>1. /\ DOMAIN f = 1 .. Cardinality(I) /\ Cardinality(I) \in Nat /\ f \in Seq(I)
      /\ \A p, q \in DOMAIN f : p < q <=> f[p] < f[q]
      /\ \A p, q \in DOMAIN f : f[p] = f[q] => p = q
      /\ \A i \in I : \E p \in DOMAIN f : f[p] = i
  BY IncreasingFacts
<1> HIDE DEF f
<1>2. \A p \in DOMAIN f : f[p] \in I
  BY <1>1, Members
<1> QED
  BY <1>1, <1>2 DEF Climbs, f

Spread(x, a, places) ==
  /\ DOMAIN places = 1 .. Copies(x, a) /\ Copies(x, a) \in Nat
  /\ \A p \in DOMAIN places : places[p] \in DOMAIN a /\ a[places[p]] = x
  /\ \A p, q \in DOMAIN places : p < q <=> places[p] < places[q]
  /\ \A p, q \in DOMAIN places : places[p] = places[q] => p = q
  /\ \A i \in DOMAIN a : a[i] = x => \E p \in DOMAIN places : places[p] = i

(* The places of a row, in increasing order.                              *)
LEMMA PlacesFacts ==
  ASSUME NEW S, NEW a \in Seq(S), NEW x
  PROVE  Spread(x, a, Places(x, a))
<1> DEFINE I == {i \in DOMAIN a : a[i] = x}
<1>1. IsFiniteSet(I)
  BY CopiesFacts
<1>2. Places(x, a) = Increasing(I) /\ Copies(x, a) = Cardinality(I)
  BY DEF Places, Copies
<1>3. I \subseteq Int /\ \A i : i \in I <=> i \in DOMAIN a /\ a[i] = x
  OBVIOUS
<1> HIDE DEF I
<1>4. Climbs(Places(x, a), I)
  BY <1>1, <1>2, <1>3, IncreasingClimbs
<1> QED
  BY <1>2, <1>3, <1>4 DEF Climbs, Spread

(* Alike lists: each member can be moved, and like members stay in order. *)
LEMMA StableMove ==
  ASSUME NEW S, NEW a \in Seq(S), NEW T, NEW b \in Seq(T), Alike(a, b)
  PROVE  \E f : /\ Moves(f, a, b)
                /\ \A i, j \in DOMAIN a : a[i] = a[j] /\ i < j => f[i] < f[j]
<1> DEFINE place == [i \in DOMAIN a |->
                      CHOOSE p \in DOMAIN Places(a[i], a) : Places(a[i], a)[p] = i]
           f == [i \in DOMAIN a |-> Places(a[i], b)[place[i]]]
<1>1. \A x : Copies(x, a) = Copies(x, b)
  BY DEF Alike
<1>0. \A x : Spread(x, a, Places(x, a)) /\ Spread(x, b, Places(x, b))
  BY PlacesFacts
<1>2. \A x : DOMAIN Places(x, a) = DOMAIN Places(x, b)
  BY <1>0, <1>1 DEF Spread
<1>3. \A i \in DOMAIN a : place[i] \in DOMAIN Places(a[i], a) /\ Places(a[i], a)[place[i]] = i
  <2>1. \A i \in DOMAIN a : \E p \in DOMAIN Places(a[i], a) : Places(a[i], a)[p] = i
    BY <1>0 DEF Spread
  <2> QED
    BY <2>1
<1>4. \A i \in DOMAIN a : f[i] = Places(a[i], b)[place[i]]
  OBVIOUS
<1> HIDE DEF place, f
<1>5. \A i \in DOMAIN a : f[i] \in DOMAIN b /\ b[f[i]] = a[i]
  <2>1. \A i \in DOMAIN a : place[i] \in DOMAIN Places(a[i], b)
    BY <1>2, <1>3
  <2>2. \A x : \A p \in DOMAIN Places(x, b) : Places(x, b)[p] \in DOMAIN b /\ b[Places(x, b)[p]] = x
    BY <1>0 DEF Spread
  <2> QED
    BY <1>4, <2>1, <2>2
<1>6. ASSUME NEW i \in DOMAIN a, NEW j \in DOMAIN a, a[i] = a[j]
      PROVE  (f[i] = f[j] => i = j) /\ (i < j => f[i] < f[j])
  <2> DEFINE A == Places(a[i], a)
             B == Places(a[i], b)
  <2>1. /\ A[place[i]] = i /\ A[place[j]] = j /\ f[i] = B[place[i]] /\ f[j] = B[place[j]]
        /\ place[i] \in DOMAIN A /\ place[j] \in DOMAIN A
    BY <1>3, <1>4, <1>6
  <2>2. DOMAIN A = DOMAIN B
    BY <1>2
  <2>3. \A p, q \in DOMAIN A : p < q <=> A[p] < A[q]
    BY <1>0 DEF Spread
  <2>4. /\ \A p, q \in DOMAIN B : p < q <=> B[p] < B[q]
        /\ \A p, q \in DOMAIN B : B[p] = B[q] => p = q
    BY <1>0 DEF Spread
  <2> HIDE DEF A, B
  <2> QED
    BY <2>1, <2>2, <2>3, <2>4
<1>7. \A i, j \in DOMAIN a : f[i] = f[j] => i = j
  BY <1>5, <1>6
<1>8. ASSUME NEW k \in DOMAIN b
      PROVE  \E i \in DOMAIN a : f[i] = k
  <2> DEFINE A == Places(b[k], a)
             B == Places(b[k], b)
  <2>1. PICK m \in DOMAIN B : B[m] = k
    BY <1>0 DEF Spread
  <2>2. m \in DOMAIN A
    BY <1>2
  <2>3. A[m] \in DOMAIN a /\ a[A[m]] = b[k]
    BY <1>0, <2>2 DEF Spread
  <2>4. place[A[m]] \in DOMAIN A /\ A[place[A[m]]] = A[m] /\ f[A[m]] = B[place[A[m]]]
    BY <1>3, <1>4, <2>3
  <2>5. \A p, q \in DOMAIN A : A[p] = A[q] => p = q
    BY <1>0 DEF Spread
  <2> HIDE DEF A, B
  <2>6. place[A[m]] = m
    BY <2>2, <2>4, <2>5
  <2> QED
    BY <2>1, <2>3, <2>4, <2>6
<1> QED
  BY <1>5, <1>6, <1>7, <1>8 DEF Moves, Permutes

(* Numbers that never fall. *)
Rising(a, n) == /\ \A i \in 1 .. n : a[i] \in Int
                /\ \A i, j \in 1 .. n : i <= j => a[i] <= a[j]

(* Rising numbers that are the same but for their order are the same. *)
LEMMA RisingEqual ==
  ASSUME NEW n \in Nat, NEW a, NEW b, Rising(a, n), Rising(b, n),
         NEW f, Permutes(f, 1 .. n, 1 .. n), \A i \in 1 .. n : b[f[i]] = a[i], NEW p \in 1 .. n
  PROVE  a[p] = b[p]
<1> DEFINE Up(c, v) == {i \in 1 .. n : c[i] <= v}
<1>1. ASSUME NEW v \in Int
      PROVE  Cardinality(Up(a, v)) = Cardinality(Up(b, v))
  <2>1. IsFiniteSet(Up(a, v)) /\ Up(a, v) \subseteq 1 .. n /\ Up(b, v) \subseteq 1 .. n
    BY PositionSets
  <2>2. \A i \in 1 .. n : i \in Up(a, v) <=> f[i] \in Up(b, v)
    BY DEF Permutes
  <2> HIDE DEF Up
  <2> QED
    BY <2>1, <2>2, PermutedSize
<1>2. ASSUME NEW c, Rising(c, n), NEW v \in Int
      PROVE  /\ c[p] <= v => p <= Cardinality(Up(c, v))
             /\ v < c[p] => Cardinality(Up(c, v)) <= p - 1
  <2>1. IsFiniteSet(Up(c, v))
    BY PositionSets
  <2>2. ASSUME c[p] <= v
        PROVE  p <= Cardinality(Up(c, v))
    <3>1. 1 .. p \subseteq Up(c, v)
      <4>1. SUFFICES ASSUME NEW i \in 1 .. p PROVE c[i] <= v
        OBVIOUS
      <4>2. c[i] <= c[p] /\ c[i] \in Int /\ c[p] \in Int
        BY <1>2 DEF Rising
      <4> QED
        BY <2>2, <4>2
    <3>2. Cardinality(1 .. p) = p
      BY FS_Interval
    <3> HIDE DEF Up
    <3> QED
      BY <2>1, <3>1, <3>2, FS_Subset
  <2>3. ASSUME v < c[p]
        PROVE  Cardinality(Up(c, v)) <= p - 1
    <3>1. Up(c, v) \subseteq 1 .. p - 1
      <4>1. SUFFICES ASSUME NEW i \in Up(c, v), ~ i < p PROVE FALSE
        OBVIOUS
      <4>2. c[p] <= c[i] /\ c[i] \in Int /\ c[p] \in Int /\ c[i] <= v
        BY <1>2, <4>1 DEF Rising
      <4> QED
        BY <2>3, <4>2
    <3>2. Cardinality(1 .. p - 1) = p - 1 /\ IsFiniteSet(1 .. p - 1)
      BY FS_Interval
    <3> HIDE DEF Up
    <3> QED
      BY <3>1, <3>2, FS_Subset
  <2> QED
    BY <2>2, <2>3
<1>3. ASSUME NEW c, Rising(c, n), NEW v \in Int
      PROVE  Cardinality(Up(c, v)) \in Nat
  <2>1. IsFiniteSet(Up(c, v))
    BY PositionSets
  <2> QED
    BY <2>1, FS_CardinalityType
<1> HIDE DEF Up
<1>4. a[p] \in Int /\ b[p] \in Int
  BY DEF Rising
<1>5. ASSUME NEW v \in Int, NEW c, NEW d, Rising(c, n), Rising(d, n), c[p] <= v, v < d[p],
             Cardinality(Up(c, v)) = Cardinality(Up(d, v))
      PROVE  FALSE
  <2>1. p <= Cardinality(Up(c, v))
    BY <1>2, <1>5
  <2>2. Cardinality(Up(d, v)) <= p - 1
    BY <1>2, <1>5
  <2>3. Cardinality(Up(c, v)) \in Nat
    BY <1>3, <1>5
  <2> QED
    BY <1>5, <2>1, <2>2, <2>3
<1>6. ~ b[p] < a[p] /\ ~ a[p] < b[p]
  <2>1. \A v \in Int : Cardinality(Up(a, v)) = Cardinality(Up(b, v))
    BY <1>1
  <2>2. ~ b[p] < a[p]
    <3>1. SUFFICES ASSUME b[p] < a[p] PROVE FALSE
      OBVIOUS
    <3>2. b[p] <= b[p]
      BY <1>4
    <3> QED
      BY <1>4, <1>5, <2>1, <3>1, <3>2
  <2>3. ~ a[p] < b[p]
    <3>1. SUFFICES ASSUME a[p] < b[p] PROVE FALSE
      OBVIOUS
    <3>2. a[p] <= a[p]
      BY <1>4
    <3> QED
      BY <1>4, <1>5, <2>1, <3>1, <3>2
  <2> QED
    BY <2>2, <2>3
<1> QED
  BY <1>4, <1>6

(* A list of the members of a set in some order. *)
Ranked(p, n, T, R) ==
  /\ DOMAIN p = 1 .. n /\ Permutes(p, 1 .. n, T)
  /\ \A i, j \in 1 .. n : i < j <=> <<p[i], p[j]>> \in R

(* Two lists of a set in one order are the same. *)
LEMMA OneOrder ==
  ASSUME NEW n \in Nat, NEW p, NEW q, NEW T, NEW R, Ranked(p, n, T, R), Ranked(q, n, T, R),
         NEW k \in 1 .. n
  PROVE  p[k] = q[k]
<1> DEFINE one == [i \in T |-> i]
           id  == [i \in 1 .. n |-> i]
           Linked(g, D, E) == Permutes(g, D, E) /\ \A i \in D : q[g[i]] = one[p[i]]
<1>1. Permutes(one, T, T)
  BY DEF Permutes
<1>2. \A i \in T : one[i] = i
  OBVIOUS
<1>3. DOMAIN p = 1 .. n /\ DOMAIN q = 1 .. n /\ Permutes(p, 1 .. n, T) /\ Permutes(q, 1 .. n, T)
  BY DEF Ranked
<1>4. /\ \A i, j \in 1 .. n : i < j <=> <<p[i], p[j]>> \in R
      /\ \A i, j \in 1 .. n : i < j <=> <<q[i], q[j]>> \in R
  BY DEF Ranked
<1>5. \A i \in 1 .. n : id[i] = i
  OBVIOUS
<1> HIDE DEF one, id
<1>6. Permutes(p, DOMAIN p, T) /\ Permutes(q, DOMAIN q, T)
  BY <1>3, Zenon
<1>7. \E g : Linked(g, DOMAIN p, DOMAIN q)
  <2>1. \E g : Permutes(g, DOMAIN p, DOMAIN q) /\ \A i \in DOMAIN p : q[g[i]] = one[p[i]]
    BY <1>1, <1>6, ListMoves
  <2> QED
    BY <2>1, Zenon
<1>8. PICK g : Linked(g, 1 .. n, 1 .. n)
  <2> HIDE DEF Linked
  <2> QED
    BY <1>3, <1>7, Zenon
<1>9. Permutes(g, 1 .. n, 1 .. n) /\ \A i \in 1 .. n : q[g[i]] = one[p[i]]
  BY <1>8, Zenon
<1> HIDE DEF Linked
<1>10. /\ \A i \in 1 .. n : p[i] \in T
       /\ \A i \in 1 .. n : g[i] \in 1 .. n
  BY <1>3, <1>9 DEF Permutes
<1>11. \A i \in 1 .. n : q[g[i]] = p[i]
  BY <1>2, <1>9, <1>10
<1>12. \A i, j \in 1 .. n : i < j <=> g[i] < g[j]
  BY <1>4, <1>10, <1>11, Zenon
<1>13. Rising(g, n)
  BY <1>10, <1>12 DEF Rising
<1>14. Rising(id, n)
  BY <1>5 DEF Rising
<1>15. \A i \in 1 .. n : id[g[i]] = g[i]
  BY <1>5, <1>10, Zenon
<1>16. Permutes(g, 1 .. n, 1 .. n)
  BY <1>9
<1>17. g[k] = id[k]
  BY <1>13, <1>14, <1>15, <1>16, RisingEqual
<1>18. g[k] = k
  BY <1>5, <1>17
<1> QED
  BY <1>11, <1>18

(* Something fails among the required results. *)
Fails(required) == \E i \in DOMAIN required : Failed(required[i])

(* A node fails when a required result does. *)
LEMMA CompleteFails ==
  ASSUME NEW required, DOMAIN required \subseteq Nat, NEW rows
  PROVE  /\ Complete(required, rows).failure = Null <=> ~ Fails(required)
         /\ ~ Fails(required) => Complete(required, rows).rows = rows
         /\ Fails(required) => Complete(required, rows).rows = <<>>
<1> DEFINE failure == Require(required, Null)
<1>1. \/ Fails(required) /\ Failed(failure)
      \/ ~ Fails(required) /\ failure = Null
  BY RequireFacts DEF Fails
<1>2. Complete(required, rows) = IF failure = Null THEN Result(Null, rows) ELSE Result(failure, <<>>)
  BY DEF Complete
<1> HIDE DEF failure
<1>3. ~ Failed(Null)
  BY NullFacts
<1>4. CASE Fails(required)
  <2>1. failure # Null
    BY <1>1, <1>3, <1>4
  <2> QED
    BY <1>2, <1>4, <2>1 DEF Result
<1>5. CASE ~ Fails(required)
  BY <1>1, <1>2, <1>5 DEF Result
<1> QED
  BY <1>4, <1>5

(* Some cell of a grid fails. *)
AnyFails(grid) == \E r \in DOMAIN grid : Fails(grid[r])

(* Some row fails of a grid when something fails in it.                   *)
LEMMA GridFails ==
  ASSUME NEW grid, DOMAIN grid \subseteq Nat, \A r \in DOMAIN grid : DOMAIN grid[r] \subseteq Nat
  PROVE  DOMAIN Failures(grid) = DOMAIN grid /\ (Fails(Failures(grid)) <=> AnyFails(grid))
<1>1. DOMAIN Failures(grid) = DOMAIN grid
  BY FailuresFacts
<1>2. \A r \in DOMAIN grid : Failed(Failures(grid)[r]) <=> Fails(grid[r])
  <2>1. \A r \in DOMAIN grid :
              \/ \E k \in DOMAIN grid[r] : Failed(grid[r][k]) /\ Failures(grid)[r] = grid[r][k]
              \/ (\A k \in DOMAIN grid[r] : ~ Failed(grid[r][k])) /\ Failures(grid)[r] = Null
    BY FailuresFacts
  <2>2. ~ Failed(Null)
    BY NullFacts
  <2> QED
    BY <2>1, <2>2 DEF Fails
<1> QED
  BY <1>1, <1>2 DEF Fails, AnyFails

(* Grids of rows that moved have their failures in common. *)
LEMMA MovedFails ==
  ASSUME NEW f, NEW g, NEW h, Moves(f, g, h)
  PROVE  (AnyFails(g) <=> AnyFails(h)) /\ (Fails(g) <=> Fails(h))
BY DEF Moves, Permutes, AnyFails, Fails

(* Both hosts fail, or neither does and rows moved. *)
Twins(f, first, second) ==
  /\ first.failure = Null <=> second.failure = Null
  /\ first.failure = Null => Moves(f, first.rows, second.rows)
  /\ first.failure # Null => first.rows = <<>> /\ second.rows = <<>>

(* What is computed row by row. *)
LEMMA GridMoves ==
  ASSUME NEW f, NEW g, NEW h, Moves(f, g, h),
         DOMAIN g \subseteq Nat, \A r \in DOMAIN g : DOMAIN g[r] \subseteq Nat,
         DOMAIN h \subseteq Nat, \A r \in DOMAIN h : DOMAIN h[r] \subseteq Nat,
         NEW a, NEW b, NEW e, Moves(e, a, b)
  PROVE  Twins(e, Complete(Failures(g), a), Complete(Failures(h), b))
<1>1. /\ DOMAIN Failures(g) = DOMAIN g /\ (Fails(Failures(g)) <=> AnyFails(g))
      /\ DOMAIN Failures(h) = DOMAIN h /\ (Fails(Failures(h)) <=> AnyFails(h))
  BY GridFails
<1>2. AnyFails(g) <=> AnyFails(h)
  BY MovedFails
<1> QED
  BY <1>1, <1>2, CompleteFails DEF Twins

(* A Project node. *)
LEMMA ProjectMoves ==
  ASSUME NEW node, DOMAIN node.entries \subseteq Nat, NEW schema, NEW S, NEW a \in Seq(S), NEW b \in Seq(S),
         NEW f, Moves(f, a, b)
  PROVE  Twins(f, EvaluateProject(node, schema, a), EvaluateProject(node, schema, b))
<1> DEFINE Out(row) == [k \in DOMAIN node.entries |-> EntryValue(node.entries[k], schema, row)]
           g == [r \in DOMAIN a |-> Out(a[r])]
           h == [r \in DOMAIN b |-> Out(b[r])]
<1>1. DOMAIN g = DOMAIN a /\ DOMAIN h = DOMAIN b /\ DOMAIN a \subseteq Nat /\ DOMAIN b \subseteq Nat
  OBVIOUS
<1>2. /\ \A r \in DOMAIN a : g[r] = Out(a[r]) /\ DOMAIN g[r] \subseteq Nat
      /\ \A r \in DOMAIN b : h[r] = Out(b[r]) /\ DOMAIN h[r] \subseteq Nat
  OBVIOUS
<1>3. /\ EvaluateProject(node, schema, a) = Complete(Failures(g), g)
      /\ EvaluateProject(node, schema, b) = Complete(Failures(h), h)
  BY DEF EvaluateProject, AllValues
<1> HIDE DEF g, h, Out
<1>4. Moves(f, g, h)
  BY <1>1, <1>2 DEF Moves, Permutes
<1> QED
  BY <1>1, <1>2, <1>3, <1>4, GridMoves

(* Positions chosen on both sides alike. *)
LEMMA SelectMoves ==
  ASSUME NEW S, NEW a \in Seq(S), NEW T, NEW b \in Seq(T), NEW f, Permutes(f, DOMAIN a, DOMAIN b),
         NEW I, I \subseteq DOMAIN a, NEW J, J \subseteq DOMAIN b,
         \A i \in DOMAIN a : i \in I <=> f[i] \in J
  PROVE  \E e : /\ Permutes(e, DOMAIN Increasing(I), DOMAIN Increasing(J))
                /\ \A k \in DOMAIN Increasing(I) : Increasing(J)[e[k]] = f[Increasing(I)[k]]
<1>1. IsFiniteSet(I) /\ I \subseteq Int /\ IsFiniteSet(J) /\ J \subseteq Int
  BY SelectionFacts
<1>2. Climbs(Increasing(I), I) /\ Climbs(Increasing(J), J)
  BY <1>1, IncreasingClimbs
<1> DEFINE p == Increasing(I)
           q == Increasing(J)
<1>3. Climbs(p, I) /\ Climbs(q, J)
  BY <1>2
<1> HIDE DEF p, q
<1>4. Permutes(p, DOMAIN p, I) /\ Permutes(q, DOMAIN q, J)
  BY <1>3 DEF Climbs, Permutes
<1>5. Permutes(f, I, J)
  BY DEF Permutes
<1>6. \E e : Permutes(e, DOMAIN p, DOMAIN q) /\ \A k \in DOMAIN p : q[e[k]] = f[p[k]]
  BY <1>4, <1>5, ListMoves
<1> QED
  BY <1>6 DEF p, q

(* What was picked at corresponding positions. *)
LEMMA PickMoves ==
  ASSUME NEW f, NEW x, NEW y, Moves(f, x, y), NEW p, \A k \in DOMAIN p : p[k] \in DOMAIN x,
         NEW q, NEW e, Permutes(e, DOMAIN p, DOMAIN q), \A k \in DOMAIN p : q[e[k]] = f[p[k]]
  PROVE  Moves(e, Pick(x, p), Pick(y, q))
<1>1. /\ DOMAIN Pick(x, p) = DOMAIN p /\ DOMAIN Pick(y, q) = DOMAIN q
      /\ \A k \in DOMAIN p : Pick(x, p)[k] = x[p[k]]
      /\ \A k \in DOMAIN q : Pick(y, q)[k] = y[q[k]]
  BY DEF Pick
<1>2. \A k \in DOMAIN p : e[k] \in DOMAIN q
  BY DEF Permutes
<1>3. \A k \in DOMAIN p : Pick(y, q)[e[k]] = Pick(x, p)[k]
  BY <1>1, <1>2 DEF Moves
<1> QED
  BY <1>1, <1>3 DEF Moves

(* A Filter node keeps rows, and their peer groups, that moved. *)
LEMMA FilterMoves ==
  ASSUME NEW node, NEW d \in Nat, DOMAIN node.entries[1].args = 1 .. d,
         NEW schema, NEW S, NEW a \in Seq(S), NEW b \in Seq(S), NEW f, Moves(f, a, b)
  PROVE  \E e : /\ Twins(e, EvaluateFilter(node, schema, a), EvaluateFilter(node, schema, b))
                /\ \A x, y : Moves(f, x, y) /\ DOMAIN x = DOMAIN a =>
                     Moves(e, Pick(x, FilterIndices(node, schema, a)), Pick(y, FilterIndices(node, schema, b)))
<1> DEFINE Test(row) == Evaluate(node.entries[1].args[1], schema, row) = True
           I == {i \in DOMAIN a : Test(a[i])}
           J == {i \in DOMAIN b : Test(b[i])}
           p == Increasing(I)
           q == Increasing(J)
           g == Grid(node.entries[1].args, schema, a)
           h == Grid(node.entries[1].args, schema, b)
<1>1. p = FilterIndices(node, schema, a) /\ q = FilterIndices(node, schema, b)
  BY DEF FilterIndices
<1>2. Permutes(f, DOMAIN a, DOMAIN b) /\ \A i \in DOMAIN a : b[f[i]] = a[i]
  BY DEF Moves
<1>3. I \subseteq DOMAIN a /\ J \subseteq DOMAIN b /\ \A i \in DOMAIN a : i \in I <=> f[i] \in J
  BY <1>2 DEF Permutes
<1>4. p \in Seq(DOMAIN a)
  BY <1>3, SelectionFacts
<1> HIDE DEF I, J, Test
<1>5. PICK e : Permutes(e, DOMAIN p, DOMAIN q) /\ \A k \in DOMAIN p : q[e[k]] = f[p[k]]
  BY <1>2, <1>3, SelectMoves
<1> HIDE DEF p, q
<1>6. \A k \in DOMAIN p : p[k] \in DOMAIN a
  BY <1>4, Members
<1>7. \A x, y : Moves(f, x, y) /\ DOMAIN x = DOMAIN a => Moves(e, Pick(x, p), Pick(y, q))
  BY <1>5, <1>6, PickMoves
<1>8. Moves(e, Pick(a, p), Pick(b, q))
  BY <1>7
<1>9. /\ DOMAIN g = DOMAIN a /\ DOMAIN h = DOMAIN b /\ DOMAIN a \subseteq Nat /\ DOMAIN b \subseteq Nat
      /\ \A r \in DOMAIN a : DOMAIN g[r] \subseteq Nat
      /\ \A r \in DOMAIN b : DOMAIN h[r] \subseteq Nat
  BY DEF Grid
<1>10. \A i \in DOMAIN a : h[f[i]] = g[i]
  BY <1>2 DEF Grid, Permutes
<1>11. /\ EvaluateFilter(node, schema, a) = Complete(Failures(g), Pick(a, p))
       /\ EvaluateFilter(node, schema, b) = Complete(Failures(h), Pick(b, q))
  BY <1>1 DEF EvaluateFilter
<1> HIDE DEF g, h
<1>12. Moves(f, g, h)
  BY <1>2, <1>9, <1>10 DEF Moves
<1>13. Twins(e, EvaluateFilter(node, schema, a), EvaluateFilter(node, schema, b))
  BY <1>8, <1>9, <1>11, <1>12, GridMoves
<1> QED
  BY <1>1, <1>7, <1>13

(* The reverse of a list. *)
LEMMA ReverseMoves ==
  ASSUME NEW S, NEW a \in Seq(S)
  PROVE  Alike(a, Reverse(a)) /\ \E f : Moves(f, a, Reverse(a))
<1> DEFINE f == [i \in DOMAIN a |-> Len(a) - i + 1]
<1>1. Moves(f, a, Reverse(a))
  <2>1. /\ DOMAIN a = 1 .. Len(a) /\ Len(a) \in Nat /\ DOMAIN Reverse(a) = 1 .. Len(a)
        /\ \A i \in 1 .. Len(a) : Reverse(a)[i] = a[Len(a) - i + 1]
    BY DEF Reverse
  <2>2. \A i \in 1 .. Len(a) : f[i] \in 1 .. Len(a) /\ f[i] = Len(a) - i + 1 /\ Len(a) - f[i] + 1 = i
    BY <2>1
  <2> HIDE DEF f
  <2>3. \A i \in DOMAIN a : f[f[i]] = i
    BY <2>1, <2>2
  <2> QED
    BY <2>1, <2>2, <2>3 DEF Moves, Permutes
<1> QED
  BY <1>1, MovedCopies

(* Both hosts fail, or neither does and they have the same rows. *)
SameOutcome(first, second) ==
  (first.failure = Null <=> second.failure = Null) /\ Alike(first.rows, second.rows)

(* Rows that moved are the same rows. *)
LEMMA TwinsAgree ==
  ASSUME NEW first, NEW second, NEW f, Twins(f, first, second), NEW S, first.rows \in Seq(S)
  PROVE  SameOutcome(first, second)
<1>1. CASE first.failure = Null
  <2>1. Moves(f, first.rows, second.rows)
    BY <1>1 DEF Twins
  <2>2. Alike(first.rows, second.rows)
    BY <2>1, MovedCopies
  <2> QED
    BY <2>2 DEF Twins, SameOutcome
<1>2. CASE first.failure # Null
  BY <1>2 DEF Twins, SameOutcome, Alike
<1> QED
  BY <1>1, <1>2

(* A Distinct node. *)
LEMMA DistinctAgrees ==
  ASSUME NEW S, NEW a \in Seq(S), NEW b \in Seq(S), Alike(a, b)
  PROVE  SameOutcome(EvaluateDistinct(a), EvaluateDistinct(b))
<1>1. Range(a) = Range(b)
  BY AlikeRange
<1>2. \A x : Copies(x, Distinct(a)) = Copies(x, Distinct(b))
  BY <1>1, DistinctCopies
<1> QED
  BY <1>2 DEF EvaluateDistinct, Result, SameOutcome, Alike

(* A set operation. *)
LEMMA SetAgrees ==
  ASSUME NEW S, NEW a \in Seq(S), NEW b \in Seq(S), Alike(a, b),
         NEW r \in Seq(S), NEW t \in Seq(S), Alike(r, t), NEW node, node.how \in SetOperators
  PROVE  SameOutcome(EvaluateSet(node, a, r), EvaluateSet(node, b, t))
<1>1. \A x : Copies(x, a) = Copies(x, b) /\ Copies(x, r) = Copies(x, t)
  BY DEF Alike
<1>2. ASSUME NEW x
      PROVE  Copies(x, Combined(node.how, a, r)) = Copies(x, Combined(node.how, b, t))
  <2>1. Copies(x, Combined(node.how, a, r)) = Multiplicity(node.how, Copies(x, a), Copies(x, r))
    BY CombinedCopies
  <2>2. Copies(x, Combined(node.how, b, t)) = Multiplicity(node.how, Copies(x, b), Copies(x, t))
    BY CombinedCopies
  <2> QED
    BY <1>1, <2>1, <2>2
<1> QED
  BY <1>2 DEF EvaluateSet, Result, SameOutcome, Alike

(* The condition of a join fails on this pair of rows. *)
FailsOn(node, schema, l, r) ==
  node.how # "cross" /\ Failed(Evaluate(node.entries[1].args[1], schema, l \o r))

(* A join fails when its condition fails on some pair. *)
LEMMA JoinFails ==
  ASSUME NEW node, NEW s, NEW t, NEW S, NEW ls \in Seq(S), NEW T, NEW rs \in Seq(T)
  PROVE  EvaluateJoin(node, s, t, ls, rs).failure = Null
           <=> \A l \in Range(ls), r \in Range(rs) : ~ FailsOn(node, s \o t, l, r)
<1> DEFINE v == Verdicts(node, s, t, ls, rs)
           pairs == Pairs(ls, rs)
           N == Len(ls) * Len(rs)
           out == JoinRows(node.how, ls, rs, <<Nulls(Len(s)), Nulls(Len(t))>>, pairs,
                           Increasing({k \in DOMAIN pairs : v[k] = True}))
<1>1. EvaluateJoin(node, s, t, ls, rs) = Complete(v, out)
  BY DEF EvaluateJoin, DecidedJoin, Verdicts
<1>2. Len(ls) \in Nat /\ Len(rs) \in Nat /\ DOMAIN ls = 1 .. Len(ls) /\ DOMAIN rs = 1 .. Len(rs)
  OBVIOUS
<1>3. /\ DOMAIN pairs = 1 .. N
      /\ \A k \in 1 .. N : pairs[k][1] \in 1 .. Len(ls) /\ pairs[k][2] \in 1 .. Len(rs)
  BY <1>2, PairFacts
<1>4. \A i \in 1 .. Len(ls), j \in 1 .. Len(rs) : \E k \in 1 .. N : pairs[k][1] = i /\ pairs[k][2] = j
  BY <1>2, PairsAreOnce
<1>5. DOMAIN v = DOMAIN pairs
  BY DEF Verdicts
<1>6. \A k \in DOMAIN pairs : Failed(v[k]) <=> FailsOn(node, s \o t, ls[pairs[k][1]], rs[pairs[k][2]])
  <2>1. ~ Failed(True)
    BY DEF Failed, True, Boolean, Tagged
  <2>2. \A k \in DOMAIN pairs :
          v[k] = IF node.how = "cross" THEN True
                 ELSE Evaluate(node.entries[1].args[1], s \o t, ls[pairs[k][1]] \o rs[pairs[k][2]])
    BY DEF Verdicts
  <2> HIDE DEF v, pairs
  <2> QED
    BY <2>1, <2>2 DEF FailsOn
<1>7. DOMAIN pairs \subseteq Nat
  <2> HIDE DEF N
  <2> QED
    BY <1>3
<1> HIDE DEF v, out, pairs, N
<1>8. Complete(v, out).failure = Null <=> ~ Fails(v)
  BY <1>5, <1>7, CompleteFails
<1>9. Fails(v) <=> \E i \in DOMAIN ls, j \in DOMAIN rs : FailsOn(node, s \o t, ls[i], rs[j])
  <2>1. ASSUME NEW i \in DOMAIN ls, NEW j \in DOMAIN rs, FailsOn(node, s \o t, ls[i], rs[j])
        PROVE  Fails(v)
    <3>1. PICK k \in 1 .. N : pairs[k][1] = i /\ pairs[k][2] = j
      BY <1>2, <1>4
    <3> QED
      BY <1>3, <1>5, <1>6, <2>1, <3>1 DEF Fails
  <2>2. ASSUME Fails(v)
        PROVE  \E i \in DOMAIN ls, j \in DOMAIN rs : FailsOn(node, s \o t, ls[i], rs[j])
    BY <1>2, <1>3, <1>5, <1>6, <2>2 DEF Fails
  <2> QED
    BY <2>1, <2>2
<1> QED
  BY <1>1, <1>8, <1>9 DEF Range

(* A row of the joined width comes apart. *)
LEMMA WideSplit ==
  ASSUME NEW m \in Nat, NEW n \in Nat, NEW x \in Wide(m + n)
  PROVE  \E l \in Wide(m), r \in Wide(n) : x = l \o r
<1> DEFINE l == [i \in 1 .. m |-> x[i]]
           r == [i \in 1 .. n |-> x[m + i]]
<1>1. /\ x \in Seq(Values) /\ Len(x) = m + n /\ DOMAIN x = 1 .. m + n
      /\ x = [i \in 1 .. m + n |-> x[i]] /\ \A i \in 1 .. m + n : x[i] \in Values
  BY DEF Wide
<1>2. l \in Seq(Values) /\ Len(l) = m /\ DOMAIN l = 1 .. m /\ \A i \in 1 .. m : l[i] = x[i]
  <2>1. \A i \in 1 .. m : x[i] \in Values
    BY <1>1
  <2> QED
    BY <2>1
<1>3. r \in Seq(Values) /\ Len(r) = n /\ DOMAIN r = 1 .. n /\ \A i \in 1 .. n : r[i] = x[m + i]
  <2>1. \A i \in 1 .. n : x[m + i] \in Values
    BY <1>1
  <2> QED
    BY <2>1
<1> HIDE DEF l, r
<1>4. Joined(l \o r, l, m, r, n)
  <2>1. l = [i \in 1 .. m |-> l[i]] /\ r = [i \in 1 .. n |-> r[i]]
    BY <1>2, <1>3
  <2> QED
    BY <2>1, ConcatCases
<1>5. \A i \in 1 .. m + n : (l \o r)[i] = x[i]
  BY <1>2, <1>3, <1>4 DEF Joined
<1>6. l \o r = x
  BY <1>1, <1>4, <1>5 DEF Joined
<1> QED
  BY <1>2, <1>3, <1>6 DEF Wide

(* A Join node. *)
LEMMA JoinAgrees ==
  ASSUME NEW node, IsNode(node), node.kind = "join", NEW left, IsSchema(left.schema),
         NEW right, IsSchema(right.schema), AcceptsJoin(node, left, right),
         NEW a \in Seq(RowsOf(left.schema)), NEW b \in Seq(RowsOf(left.schema)), Alike(a, b),
         NEW r \in Seq(RowsOf(right.schema)), NEW t \in Seq(RowsOf(right.schema)), Alike(r, t)
  PROVE  SameOutcome(EvaluateJoin(node, left.schema, right.schema, a, r),
                     EvaluateJoin(node, left.schema, right.schema, b, t))
<1> DEFINE first  == EvaluateJoin(node, left.schema, right.schema, a, r)
           second == EvaluateJoin(node, left.schema, right.schema, b, t)
           m == Len(left.schema)
           n == Len(right.schema)
           new == JoinSchema(node.how, left.schema, right.schema)
<1>1. Range(a) = Range(b) /\ Range(r) = Range(t)
  BY AlikeRange
<1>2. first.failure = Null <=> second.failure = Null
  <2>1. first.failure = Null <=>
          \A x \in Range(a), y \in Range(r) : ~ FailsOn(node, left.schema \o right.schema, x, y)
    BY JoinFails
  <2>2. second.failure = Null <=>
          \A x \in Range(b), y \in Range(t) : ~ FailsOn(node, left.schema \o right.schema, x, y)
    BY JoinFails
  <2> HIDE DEF first, second
  <2> QED
    BY <1>1, <2>1, <2>2
<1>3. /\ m \in Nat /\ n \in Nat /\ RowsOf(left.schema) \subseteq Wide(m)
      /\ RowsOf(right.schema) \subseteq Wide(n)
  BY WideRows
<1>4. IsSchema(new) /\ Len(new) = m + n
  <2>1. JoinedFields(new, node.how, left.schema, right.schema)
    BY JoinSchemaFields
  <2> HIDE DEF new
  <2> QED
    BY <2>1 DEF JoinedFields
<1>5. RowsOf(new) \subseteq Wide(m + n)
  <2> HIDE DEF new, m, n
  <2> QED
    BY <1>4, WideRows
<1>6. first.rows \in Seq(RowsOf(new)) /\ second.rows \in Seq(RowsOf(new))
  <2>1. JoinProperties(node, left, right).schema = new
    BY DEF JoinProperties, BagOf, Properties
  <2>2. Good(first, JoinProperties(node, left, right).schema)
    BY JoinGood
  <2>3. Good(second, JoinProperties(node, left, right).schema)
    BY JoinGood
  <2> HIDE DEF first, second, new
  <2> QED
    BY <2>1, <2>2, <2>3 DEF Good
<1>7. ASSUME first.failure = Null, NEW x \in Wide(m), NEW y \in Wide(n)
      PROVE  Copies(x \o y, first.rows) = Copies(x \o y, second.rows)
  <2> DEFINE J == Accepted(node, left.schema \o right.schema, m, n)
  <2>1. Copies(x \o y, first.rows) = JoinedCopies(node.how, m, n, a, r, J, x, y)
    BY <1>7, EvaluatedJoinCopies
  <2>2. Copies(x \o y, second.rows) = JoinedCopies(node.how, m, n, b, t, J, x, y)
    BY <1>2, <1>7, EvaluatedJoinCopies
  <2>3. Copies(x, a) = Copies(x, b) /\ Copies(y, r) = Copies(y, t)
    BY DEF Alike
  <2> HIDE DEF first, second, J, m, n
  <2>4. JoinedCopies(node.how, m, n, a, r, J, x, y) = JoinedCopies(node.how, m, n, b, t, J, x, y)
    BY <1>1, <2>3 DEF JoinedCopies
  <2> QED
    BY <2>1, <2>2, <2>4
<1>8. ASSUME first.failure # Null
      PROVE  first.rows = <<>> /\ second.rows = <<>>
  <2>1. /\ first.failure # Null => first.rows = <<>>
        /\ second.failure # Null => second.rows = <<>>
    BY CompleteCases, Zenon DEF EvaluateJoin, DecidedJoin
  <2> HIDE DEF first, second
  <2> QED
    BY <1>2, <1>8, <2>1, SMTT(30)
<1> HIDE DEF first, second, m, n, new
<1>9. ASSUME NEW x
      PROVE  Copies(x, first.rows) = Copies(x, second.rows)
  <2>1. CASE first.failure # Null
    BY <1>8, <2>1
  <2>2. CASE first.failure = Null /\ x \in Wide(m + n)
    <3>1. PICK l \in Wide(m), q \in Wide(n) : x = l \o q
      BY <1>3, <2>2, WideSplit
    <3> QED
      BY <1>7, <2>2, <3>1
  <2>3. CASE x \notin Wide(m + n)
    <3>1. x \notin Range(first.rows) /\ x \notin Range(second.rows)
      <4>1. \A k \in DOMAIN first.rows : first.rows[k] \in RowsOf(new)
        BY <1>6, Members
      <4>2. \A k \in DOMAIN second.rows : second.rows[k] \in RowsOf(new)
        BY <1>6, Members
      <4> QED
        BY <1>5, <2>3, <4>1, <4>2 DEF Range
    <3>2. Copies(x, first.rows) = 0
      BY <1>6, <3>1, CopiesFacts
    <3>3. Copies(x, second.rows) = 0
      BY <1>6, <3>1, CopiesFacts
    <3> QED
      BY <3>2, <3>3
  <2> QED
    BY <2>1, <2>2, <2>3
<1> QED
  BY <1>2, <1>9 DEF SameOutcome, Alike, first, second

-----------------------------------------------------------------------------
(* A sum of which one term changes. *)
Numbers(a, n) == Len(a) = n /\ \A k \in 1 .. n : a[k].v \in Int

(* A sum whose one term changes, changes by as much.                      *)
LEMMA TotalChange ==
  ASSUME NEW n \in Nat, NEW a, Numbers(a, n), NEW b, Numbers(b, n), NEW p \in 1 .. n,
         \A k \in 1 .. n : k # p => a[k].v = b[k].v
  PROVE  Total(b) = Total(a) + (b[p].v - a[p].v)
<1>0. Len(a) = n /\ Len(b) = n /\ \A k \in 1 .. n : a[k].v \in Int /\ b[k].v \in Int
  BY DEF Numbers
<1>1. PICK f : Totals(f, a)
  BY <1>0, TotalFacts
<1>2. PICK h : Totals(h, b)
  BY <1>0, TotalFacts
<1>3. /\ Total(a) = f[n] /\ f[0] = 0 /\ \A k \in 1 .. n : f[k] = f[k - 1] + a[k].v
      /\ Total(b) = h[n] /\ h[0] = 0 /\ \A k \in 1 .. n : h[k] = h[k - 1] + b[k].v
  BY <1>0, <1>1, <1>2 DEF Totals
<1> DEFINE d == b[p].v - a[p].v
           Ok(k) == /\ f[k] \in Int /\ h[k] \in Int
                    /\ k < p => h[k] = f[k]
                    /\ p <= k => h[k] = f[k] + d
           W == {k \in 0 .. n : ~ Ok(k)}
<1>4. W = {}
  <2>1. SUFFICES ASSUME W # {} PROVE FALSE
    OBVIOUS
  <2>2. W \in SUBSET Nat
    OBVIOUS
  <2>3. PICK m \in W : \A k \in 0 .. m - 1 : k \notin W
    BY <2>1, <2>2, LeastFacts
  <2>4. m \in 0 .. n /\ ~ Ok(m)
    OBVIOUS
  <2>5. m # 0
    <3>1. CASE m = 0
      BY <1>3, <2>4, <3>1
    <3> QED
      BY <3>1
  <2>6. m \in 1 .. n /\ m - 1 \in 0 .. n /\ m - 1 \in 0 .. m - 1
    BY <2>4, <2>5
  <2>7. Ok(m - 1)
    BY <2>3, <2>6
  <2>8. f[m] = f[m - 1] + a[m].v /\ h[m] = h[m - 1] + b[m].v /\ a[m].v \in Int /\ b[m].v \in Int
    BY <1>0, <1>3, <2>6
  <2>9. d \in Int /\ p \in Int /\ d = b[p].v - a[p].v /\ a[p].v \in Int /\ b[p].v \in Int
    BY <1>0
  <2>10. f[m] \in Int /\ h[m] \in Int /\ f[m - 1] \in Int /\ h[m - 1] \in Int
    BY <2>7, <2>8
  <2>11. m < p => h[m] = f[m]
    BY <2>6, <2>7, <2>8, <2>9, <2>10
  <2>12. p <= m => h[m] = f[m] + d
    <3>1. CASE m = p
      BY <2>6, <2>7, <2>8, <2>9, <2>10, <3>1
    <3>2. CASE p < m
      <4>1. a[m].v = b[m].v /\ p <= m - 1
        BY <2>6, <2>9, <3>2
      <4> HIDE DEF d
      <4> QED
        BY <2>6, <2>7, <2>8, <2>9, <2>10, <4>1
    <3> QED
      BY <2>6, <2>9, <3>1, <3>2
  <2> QED
    BY <2>4, <2>10, <2>11, <2>12
<1>5. Ok(n)
  BY <1>4
<1> QED
  BY <1>3, <1>5

(* The sum of zeros. *)
LEMMA TotalZeros ==
  ASSUME NEW n \in Nat, NEW a, Len(a) = n, \A k \in 1 .. n : a[k].v = 0
  PROVE  Total(a) = 0
<1>1. PICK f : Totals(f, a)
  BY TotalFacts
<1>2. Total(a) = f[n] /\ f[0] = 0 /\ \A k \in 1 .. n : f[k] = f[k - 1] + 0
  BY <1>1 DEF Totals
<1> DEFINE W == {k \in 0 .. n : f[k] # 0}
<1>3. W = {}
  <2>1. SUFFICES ASSUME W # {} PROVE FALSE
    OBVIOUS
  <2>2. W \in SUBSET Nat
    OBVIOUS
  <2>3. PICK m \in W : \A k \in 0 .. m - 1 : k \notin W
    BY <2>1, <2>2, LeastFacts
  <2>4. m \in 1 .. n /\ m - 1 \in 0 .. n /\ m - 1 \in 0 .. m - 1
    BY <1>2
  <2>5. f[m - 1] = 0
    BY <2>3, <2>4
  <2>6. f[m] = 0
    BY <1>2, <2>4, <2>5
  <2> QED
    BY <2>6
<1> QED
  BY <1>2, <1>3

(* The sum of the same numbers. *)
LEMMA SameTotal ==
  ASSUME NEW n \in Nat, NEW a, Numbers(a, n), NEW b, Numbers(b, n), \A k \in 1 .. n : a[k].v = b[k].v
  PROVE  Total(a) = Total(b)
<1>1. Len(a) = n /\ Len(b) = n /\ \A k \in 1 .. n : a[k].v \in Int /\ b[k].v \in Int
  BY DEF Numbers
<1>2. CASE n = 0
  <2>1. \A k \in 1 .. n : a[k].v = 0 /\ b[k].v = 0
    BY <1>2
  <2>2. Total(a) = 0
    BY <1>1, <2>1, TotalZeros
  <2>3. Total(b) = 0
    BY <1>1, <2>1, TotalZeros
  <2> QED
    BY <2>2, <2>3
<1>3. CASE n # 0
  <2>1. 1 \in 1 .. n
    BY <1>3
  <2>2. Total(b) = Total(a) + (b[1].v - a[1].v)
    BY <2>1, TotalChange
  <2>3. b[1].v - a[1].v = 0
    BY <1>1, <2>1
  <2>4. Total(a) \in Int
    BY <1>1, TotalType
  <2> QED
    BY <2>2, <2>3, <2>4
<1> QED
  BY <1>2, <1>3

(* Numbers add up to the same in every order: the terms move one at a time. *)
LEMMA TotalMoves ==
  ASSUME NEW S, NEW u \in Seq(S), NEW T, NEW v \in Seq(T), NEW g, Moves(g, u, v), Numbers(u, Len(u))
  PROVE  Total(u) = Total(v)
<1> DEFINE m == Len(u)
           n == Len(v)
           Of(x) == [v |-> x]
           A(k) == [i \in 1 .. m |-> Of(IF i <= k THEN u[i].v ELSE 0)]
           B(k) == [j \in 1 .. n |-> Of(IF \E i \in 1 .. k : g[i] = j THEN v[j].v ELSE 0)]
<1>1. /\ m \in Nat /\ n \in Nat /\ DOMAIN u = 1 .. m /\ DOMAIN v = 1 .. n
      /\ \A i \in 1 .. m : u[i].v \in Int
  BY DEF Numbers
<1>2. /\ \A i \in 1 .. m : g[i] \in 1 .. n /\ v[g[i]] = u[i]
      /\ \A i, j \in 1 .. m : g[i] = g[j] => i = j
      /\ \A j \in 1 .. n : \E i \in 1 .. m : g[i] = j
  BY <1>1 DEF Moves, Permutes
<1>3. \A j \in 1 .. n : v[j].v \in Int
  BY <1>1, <1>2
<1>4. \A x : Of(x).v = x
  OBVIOUS
<1> HIDE DEF m, n
<1>5. ASSUME NEW k \in 0 .. m
      PROVE  Numbers(A(k), m) /\ Numbers(B(k), n)
  <2>1. A(k) \in Seq({Of(x) : x \in Int}) /\ Len(A(k)) = m
    BY <1>1
  <2>2. Len(B(k)) = n
    <3>1. B(k) = [j \in 1 .. n |-> B(k)[j]] /\ \A j \in 1 .. n : B(k)[j] \in {B(k)[i] : i \in 1 .. n}
      OBVIOUS
    <3> HIDE DEF B
    <3> QED
      BY <1>1, <3>1, SequenceIntro
  <2>3. \A i \in 1 .. m : A(k)[i].v \in Int
    BY <1>1
  <2>4. \A j \in 1 .. n : B(k)[j].v \in Int
    BY <1>3
  <2> QED
    BY <2>1, <2>2, <2>3, <2>4 DEF Numbers
<1>6. ASSUME NEW k \in 1 .. m
      PROVE  /\ Total(A(k)) = Total(A(k - 1)) + u[k].v
             /\ Total(B(k)) = Total(B(k - 1)) + u[k].v
  <2>1. k - 1 \in 0 .. m /\ k \in 0 .. m
    BY <1>1
  <2>2. /\ \A i \in 1 .. m : i # k => A(k - 1)[i].v = A(k)[i].v
        /\ A(k)[k].v = u[k].v /\ A(k - 1)[k].v = 0
    BY <1>1
  <2>3. /\ \A j \in 1 .. n : j # g[k] => B(k - 1)[j].v = B(k)[j].v
        /\ B(k)[g[k]].v = v[g[k]].v /\ B(k - 1)[g[k]].v = 0
    <3>1. \A j \in 1 .. n : j # g[k] => ((\E i \in 1 .. k : g[i] = j) <=> \E i \in 1 .. k - 1 : g[i] = j)
      <4>1. 1 .. k = 1 .. k - 1 \cup {k}
        BY <1>1
      <4> QED
        BY <4>1
    <3>2. g[k] \in 1 .. n /\ (\E i \in 1 .. k : g[i] = g[k]) /\ ~ \E i \in 1 .. k - 1 : g[i] = g[k]
      <4>1. k \in 1 .. k /\ k \in 1 .. m /\ \A i \in 1 .. k - 1 : i \in 1 .. m /\ i # k
        BY <1>1
      <4> QED
        BY <1>2, <4>1
    <3>3. \A q : \A j \in 1 .. n : B(q)[j].v = IF \E i \in 1 .. q : g[i] = j THEN v[j].v ELSE 0
      OBVIOUS
    <3>4. \A j \in 1 .. n : B(k)[j].v = IF \E i \in 1 .. k : g[i] = j THEN v[j].v ELSE 0
      BY <3>3
    <3>5. \A j \in 1 .. n : B(k - 1)[j].v = IF \E i \in 1 .. k - 1 : g[i] = j THEN v[j].v ELSE 0
      BY <3>3
    <3> HIDE DEF B
    <3>6. B(k)[g[k]].v = v[g[k]].v
      BY <3>2, <3>4
    <3>7. B(k - 1)[g[k]].v = 0
      BY <3>2, <3>5
    <3>8. ASSUME NEW j \in 1 .. n, j # g[k]
          PROVE  B(k - 1)[j].v = B(k)[j].v
      <4>1. (\E i \in 1 .. k : g[i] = j) <=> \E i \in 1 .. k - 1 : g[i] = j
        BY <3>1, <3>8
      <4>2. B(k)[j].v = IF \E i \in 1 .. k : g[i] = j THEN v[j].v ELSE 0
        BY <3>4
      <4>3. B(k - 1)[j].v = IF \E i \in 1 .. k - 1 : g[i] = j THEN v[j].v ELSE 0
        BY <3>5
      <4> QED
        BY <4>1, <4>2, <4>3, Zenon
    <3> QED
      BY <3>6, <3>7, <3>8
  <2>4. Numbers(A(k), m) /\ Numbers(A(k - 1), m) /\ Numbers(B(k), n) /\ Numbers(B(k - 1), n)
    BY <1>5, <2>1
  <2>5. g[k] \in 1 .. n /\ v[g[k]].v = u[k].v /\ u[k].v \in Int
    BY <1>1, <1>2
  <2> HIDE DEF A, B
  <2>6. Total(A(k)) = Total(A(k - 1)) + (A(k)[k].v - A(k - 1)[k].v)
    BY <1>1, <2>2, <2>4, TotalChange
  <2>7. Total(B(k)) = Total(B(k - 1)) + (B(k)[g[k]].v - B(k - 1)[g[k]].v)
    BY <1>1, <2>3, <2>4, <2>5, TotalChange
  <2>8. A(k)[k].v - A(k - 1)[k].v = u[k].v
    BY <2>2, <2>5
  <2>9. B(k)[g[k]].v - B(k - 1)[g[k]].v = u[k].v
    BY <2>3, <2>5
  <2> QED
    BY <2>6, <2>7, <2>8, <2>9, Zenon
<1>7. Total(A(0)) = 0 /\ Total(B(0)) = 0
  <2>1. 0 \in 0 .. m
    BY <1>1
  <2>2. Len(A(0)) = m /\ Len(B(0)) = n
    BY <1>5, <2>1 DEF Numbers
  <2>3. \A i \in 1 .. m : A(0)[i].v = 0
    BY <1>1
  <2>4. \A j \in 1 .. n : B(0)[j].v = 0
    OBVIOUS
  <2> HIDE DEF A, B
  <2> QED
    BY <1>1, <2>2, <2>3, <2>4, TotalZeros
<1> DEFINE W == {k \in 0 .. m : Total(A(k)) # Total(B(k))}
<1>8. W = {}
  <2>1. SUFFICES ASSUME W # {} PROVE FALSE
    OBVIOUS
  <2>2. W \in SUBSET Nat
    BY <1>1
  <2>3. PICK k \in W : \A i \in 0 .. k - 1 : i \notin W
    BY <2>1, <2>2, LeastFacts
  <2>0. k \in 0 .. m /\ Total(A(k)) # Total(B(k))
    OBVIOUS
  <2> HIDE DEF A, B
  <2>4. k \in 1 .. m /\ k - 1 \in 0 .. m /\ k - 1 \in 0 .. k - 1
    BY <1>1, <1>7, <2>0
  <2>5. Total(A(k - 1)) = Total(B(k - 1))
    BY <2>3, <2>4
  <2>6. Total(A(k)) = Total(B(k))
    BY <1>6, <2>4, <2>5
  <2> QED
    BY <2>0, <2>6
<1>9. Total(A(m)) = Total(B(m))
  <2> HIDE DEF A, B
  <2> QED
    BY <1>1, <1>8
<1>10. Total(A(m)) = Total(u)
  <2>1. Numbers(A(m), m)
    <3>1. m \in 0 .. m
      BY <1>1
    <3> HIDE DEF A, B
    <3> QED
      BY <1>5, <3>1
  <2>2. Numbers(u, m)
    BY DEF m
  <2>3. \A i \in 1 .. m : A(m)[i].v = u[i].v
    BY <1>1
  <2> HIDE DEF A
  <2> QED
    BY <1>1, <2>1, <2>2, <2>3, SameTotal
<1>11. Total(B(m)) = Total(v)
  <2>1. Numbers(B(m), n)
    <3>1. m \in 0 .. m
      BY <1>1
    <3> HIDE DEF A, B
    <3> QED
      BY <1>5, <3>1
  <2>2. Numbers(v, n)
    BY <1>3 DEF Numbers, n
  <2>3. \A j \in 1 .. n : B(m)[j].v = v[j].v
    BY <1>2
  <2> HIDE DEF B
  <2> QED
    BY <1>1, <2>1, <2>2, <2>3, SameTotal
<1> HIDE DEF A, B
<1> QED
  BY <1>9, <1>10, <1>11

(* Both fail, or neither does and they are the same. *)
SameResult(x, y) == (Failed(x) <=> Failed(y)) /\ (~ Failed(x) => x = y)

(* Every member of a list was moved there. *)
LEMMA MovedMembers ==
  ASSUME NEW f, NEW a, NEW b, Moves(f, a, b)
  PROVE  \A k \in DOMAIN b : \E i \in DOMAIN a : b[k] = a[i]
BY DEF Moves, Permutes

(* What moved has one length. *)
LEMMA MovedLength ==
  ASSUME NEW m \in Nat, NEW n \in Nat, NEW f, Permutes(f, 1 .. m, 1 .. n)
  PROVE  m = n
<1>1. Cardinality(1 .. m) = m /\ Cardinality(1 .. n) = n /\ IsFiniteSet(1 .. m)
  BY FS_Interval
<1>2. \A i \in 1 .. m : i \in 1 .. m <=> f[i] \in 1 .. n
  BY DEF Permutes
<1>3. Cardinality(1 .. m) = Cardinality(1 .. n)
  BY <1>1, <1>2, PermutedSize
<1> QED
  BY <1>1, <1>3

(* The values that are not NULL move with the others. *)
LEMMA PresentMoves ==
  ASSUME NEW S, NEW u \in Seq(S), NEW T, NEW v \in Seq(T), NEW g, Moves(g, u, v)
  PROVE  \E e : Moves(e, Present(u), Present(v))
<1> DEFINE I == {i \in DOMAIN u : u[i] # Null}
           J == {i \in DOMAIN v : v[i] # Null}
           p == Increasing(I)
           q == Increasing(J)
<1>1. Present(u) = Pick(u, p) /\ Present(v) = Pick(v, q)
  BY DEF Present, Where
<1>2. Permutes(g, DOMAIN u, DOMAIN v) /\ \A i \in DOMAIN u : v[g[i]] = u[i]
  BY DEF Moves
<1>3. I \subseteq DOMAIN u /\ J \subseteq DOMAIN v /\ \A i \in DOMAIN u : i \in I <=> g[i] \in J
  BY <1>2 DEF Permutes
<1>4. p \in Seq(DOMAIN u)
  BY <1>3, SelectionFacts
<1> HIDE DEF I, J
<1>5. PICK e : Permutes(e, DOMAIN p, DOMAIN q) /\ \A k \in DOMAIN p : q[e[k]] = g[p[k]]
  BY <1>2, <1>3, SelectMoves
<1> HIDE DEF p, q
<1>6. \A k \in DOMAIN p : p[k] \in DOMAIN u
  BY <1>4, Members
<1>7. Moves(e, Pick(u, p), Pick(v, q))
  BY <1>5, <1>6, PickMoves
<1> QED
  BY <1>1, <1>7

(* evaluate_aggregate does not depend on the order of the values. *)
LEMMA AggregateSame ==
  ASSUME NEW function \in AggregateFunctions, NEW d \in Descriptors,
         NEW u \in Seq(Values), NEW v \in Seq(Values), NEW g, Moves(g, u, v), \A i \in DOMAIN u : Cell(u[i], d)
  PROVE  AggregateValue(function, Len(u), u) = AggregateValue(function, Len(v), v)
<1> DEFINE x == Present(u)
           y == Present(v)
<1>1. Permutes(g, DOMAIN u, DOMAIN v) /\ \A i \in DOMAIN u : v[g[i]] = u[i]
  BY DEF Moves
<1>2. ASSUME NEW j \in DOMAIN v PROVE Cell(v[j], d)
  <2>1. PICK i \in DOMAIN u : g[i] = j
    BY <1>1, Zenon DEF Permutes
  <2>2. v[j] = u[i] /\ Cell(u[i], d)
    BY <1>1, <2>1, Zenon
  <2> QED
    BY <2>2, Zenon
<1>3. Len(u) = Len(v)
  <2>1. Len(u) \in Nat /\ Len(v) \in Nat /\ DOMAIN u = 1 .. Len(u) /\ DOMAIN v = 1 .. Len(v)
    OBVIOUS
  <2> QED
    BY <1>1, <2>1, MovedLength, Zenon
<1>4. x \in Seq(ScalarValues(d.scalar)) /\ Len(x) \in Nat
  BY PresentFacts
<1>5. y \in Seq(ScalarValues(d.scalar)) /\ Len(y) \in Nat
  BY <1>2, PresentFacts
<1>6. PICK e : Moves(e, x, y)
  BY PresentMoves, SMTT(30)
<1> HIDE DEF x, y
<1>7. Len(x) = Len(y)
  <2>1. DOMAIN x = 1 .. Len(x) /\ DOMAIN y = 1 .. Len(y)
    BY <1>4, <1>5
  <2> QED
    BY <1>4, <1>5, <1>6, <2>1, MovedLength, Zenon DEF Moves
<1>8. x = <<>> <=> y = <<>>
  BY <1>4, <1>5, <1>7
<1>9. Range(x) = Range(y)
  <2>1. Alike(x, y)
    BY <1>4, <1>6, MovedCopies
  <2> QED
    BY <1>4, <1>5, <2>1, AlikeRange
<1>10. Total(x) = Total(y)
  <2>1. d.scalar \in Scalars
    BY DescriptorFacts
  <2>2. \A w \in ScalarValues(d.scalar) : w.v \in Int
    BY <2>1, OrderedValues
  <2>3. \A k \in DOMAIN x : x[k] \in ScalarValues(d.scalar)
    BY <1>4, Members
  <2>4. Numbers(x, Len(x))
    BY <1>4, <2>2, <2>3 DEF Numbers
  <2> QED
    BY <1>4, <1>5, <1>6, <2>4, TotalMoves
<1> DEFINE n == Len(u)
           A(f) == AggregateValue(f, n, u)
           B(f) == AggregateValue(f, n, v)
<1>11. /\ A("count_all") = B("count_all") /\ A("count") = B("count")
  <2>1. A("count_all") = Checked(n) /\ A("count") = Checked(Len(x))
    BY AggregateArms DEF x
  <2>2. B("count_all") = Checked(n) /\ B("count") = Checked(Len(y))
    BY AggregateArms DEF y
  <2> QED
    BY <1>7, <2>1, <2>2, Zenon
<1>12. ASSUME x = <<>>, NEW f \in {"sum", "min", "max", "bool_and", "bool_or"}
       PROVE  A(f) = B(f)
  <2>1. A(f) = Null
    BY <1>12, AggregateArms, ZenonT(40) DEF x
  <2>2. y = <<>>
    BY <1>8, <1>12
  <2>3. B(f) = Null
    BY <2>2, AggregateArms, ZenonT(40) DEF y
  <2> QED
    BY <2>1, <2>3, Zenon
<1>13. ASSUME x # <<>>
       PROVE  /\ A("sum") = B("sum") /\ A("min") = B("min") /\ A("max") = B("max")
              /\ A("bool_and") = B("bool_and") /\ A("bool_or") = B("bool_or")
  <2>1. x # <<>> /\ y # <<>>
    BY <1>8, <1>13
  <2>2. A("sum") = Checked(Total(x)) /\ B("sum") = Checked(Total(y))
    BY <2>1, AggregateArms, ZenonT(40) DEF x, y
  <2>3. /\ A("min") = CHOOSE z \in Range(x) : \A w \in Range(x) : ~ Compared("less", w, z)
        /\ B("min") = CHOOSE z \in Range(y) : \A w \in Range(y) : ~ Compared("less", w, z)
    BY <2>1, AggregateArms, ZenonT(40) DEF x, y
  <2>4. /\ A("max") = CHOOSE z \in Range(x) : \A w \in Range(x) : ~ Compared("greater", w, z)
        /\ B("max") = CHOOSE z \in Range(y) : \A w \in Range(y) : ~ Compared("greater", w, z)
    BY <2>1, AggregateArms, ZenonT(40) DEF x, y
  <2>5. /\ A("bool_and") = Boolean(Boolean(FALSE) \notin Range(x))
        /\ B("bool_and") = Boolean(Boolean(FALSE) \notin Range(y))
    BY <2>1, AggregateArms, ZenonT(40) DEF x, y
  <2>6. A("bool_or") = Boolean(True \in Range(x)) /\ B("bool_or") = Boolean(True \in Range(y))
    BY <2>1, AggregateArms, Zenon DEF x, y
  <2> HIDE DEF A, B
  <2> QED
    BY <1>9, <1>10, <2>2, <2>3, <2>4, <2>5, <2>6, Zenon
<1> HIDE DEF A, B
<1>14. A(function) = B(function)
  BY <1>11, <1>12, <1>13 DEF AggregateFunctions
<1> QED
  BY <1>3, <1>14 DEF A, B

(* Nor does whether one of the values fails. *)
LEMMA RequiredSame ==
  ASSUME NEW function \in AggregateFunctions, NEW d \in Descriptors, NEW S, NEW u \in Seq(S), NEW v \in Seq(S),
         NEW g, Moves(g, u, v), \A k \in DOMAIN u : Fits(u[k], d)
  PROVE  SameResult(RequiredAggregate(function, u), RequiredAggregate(function, v))
<1> DEFINE x == AggregateValue(function, Len(u), u)
           y == AggregateValue(function, Len(v), v)
<1>1. DOMAIN u \subseteq Nat /\ DOMAIN v \subseteq Nat
  OBVIOUS
<1>2. Fails(u) <=> Fails(v)
  BY MovedFails
<1>3. RequiredAggregate(function, u) = Require(u, x) /\ RequiredAggregate(function, v) = Require(v, y)
  BY DEF RequiredAggregate
<1>4. ASSUME ~ Fails(u)
      PROVE  x = y
  <2>1. \A k \in DOMAIN u : Cell(u[k], d)
    BY <1>4, CellFacts DEF Fails
  <2>2. \A k \in DOMAIN u : u[k] \in Values
    BY <2>1 DEF Cell
  <2>3. \A k \in DOMAIN v : \E i \in DOMAIN u : v[k] = u[i]
    BY MovedMembers
  <2>4. \A k \in DOMAIN v : v[k] \in Values
    BY <2>2, <2>3
  <2>5. u \in Seq(Values) /\ v \in Seq(Values)
    BY <2>2, <2>4
  <2> QED
    BY <2>1, <2>5, AggregateSame
<1> HIDE DEF x, y
<1>5. \/ Fails(u) /\ Failed(Require(u, x))
      \/ ~ Fails(u) /\ Require(u, x) = x
  BY <1>1, RequireFacts DEF Fails
<1>6. \/ Fails(v) /\ Failed(Require(v, y))
      \/ ~ Fails(v) /\ Require(v, y) = y
  BY <1>1, RequireFacts DEF Fails
<1> QED
  BY <1>2, <1>3, <1>4, <1>5, <1>6 DEF SameResult

(* What evaluate_aggregate is given for a row. *)
ArgumentOf(entry, schema, row) ==
  IF entry.args = <<>> THEN True ELSE Evaluate(entry.args[1], schema, row)

(* The argument of an accepted aggregate fits a descriptor.               *)
LEMMA ArgumentFits ==
  ASSUME NEW schema, IsSchema(schema), NEW entry \in Entries,
         entry.function \in AggregateFunctions, EntryDescriptor(entry, schema) # Invalid
  PROVE  \E d \in Descriptors : \A row \in RowsOf(schema) : Fits(ArgumentOf(entry, schema, row), d)
<1>1. CASE entry.args = <<>>
  <2>1. Descriptor("BOOLEAN", TRUE) \in Descriptors /\ Descriptor("BOOLEAN", TRUE).scalar = "BOOLEAN"
    BY DescriptorType DEF Descriptor, Scalars
  <2>2. True \in ScalarValues("BOOLEAN")
    BY ValueFacts DEF True
  <2>3. \A row : ArgumentOf(entry, schema, row) = True
    BY <1>1 DEF ArgumentOf
  <2> QED
    BY <2>1, <2>2, <2>3 DEF Fits
<1>2. CASE entry.args # <<>>
  <2> DEFINE term == entry.args[1]
  <2>1. entry.function \notin Rankings /\ entry.function # "group"
    BY DEF Rankings, AggregateFunctions
  <2>2. EntryDescriptor(entry, schema) = AggregateDescriptor(entry.function, entry.args, schema)
    BY <2>1 DEF EntryDescriptor
  <2>3. /\ entry.function # "count_all"
        /\ EntryDescriptor(entry, schema) = DescriptorOver(entry.function, ValidateExpression(term, schema))
    BY <1>2, <2>2 DEF AggregateDescriptor
  <2>4. ValidateExpression(term, schema) # Invalid
    BY <2>3, InvalidOver, Zenon
  <2>5. term \in Expressions
    BY <1>2, EntryFacts
  <2>6. Typed(term, schema)
    BY <2>4 DEF Typed
  <2>7. \A row : ArgumentOf(entry, schema, row) = Evaluate(term, schema, row)
    BY <1>2 DEF ArgumentOf
  <2> HIDE DEF term
  <2>8. term.descriptor \in Descriptors
    BY <2>5, <2>6, TypedFacts
  <2>9. \A row \in RowsOf(schema) : Fits(Evaluate(term, schema, row), term.descriptor)
    BY <2>5, <2>6, TypedValue
  <2> QED
    BY <2>7, <2>8, <2>9
<1> QED
  BY <1>1, <1>2

(* What an aggregate gives for corresponding positions of rows that moved. *)
LEMMA AggregateOfSame ==
  ASSUME NEW schema, IsSchema(schema), NEW a \in Seq(RowsOf(schema)), NEW b \in Seq(RowsOf(schema)),
         NEW f, Moves(f, a, b), NEW entry \in Entries,
         entry.function \in AggregateFunctions, EntryDescriptor(entry, schema) # Invalid,
         NEW p \in Seq(DOMAIN a), NEW q \in Seq(DOMAIN b), NEW e, Permutes(e, DOMAIN p, DOMAIN q),
         \A k \in DOMAIN p : q[e[k]] = f[p[k]]
  PROVE  SameResult(AggregateOf(entry, schema, a, p), AggregateOf(entry, schema, b, q))
<1> DEFINE u == [k \in DOMAIN p |-> ArgumentOf(entry, schema, a[p[k]])]
           v == [k \in DOMAIN q |-> ArgumentOf(entry, schema, b[q[k]])]
<1>1. /\ AggregateOf(entry, schema, a, p) = RequiredAggregate(entry.function, u)
      /\ AggregateOf(entry, schema, b, q) = RequiredAggregate(entry.function, v)
  BY DEF AggregateOf, ArgumentOf
<1>2. PICK d \in Descriptors : \A row \in RowsOf(schema) : Fits(ArgumentOf(entry, schema, row), d)
  BY ArgumentFits
<1>3. /\ DOMAIN u = DOMAIN p /\ DOMAIN v = DOMAIN q
      /\ \A k \in DOMAIN p : u[k] = ArgumentOf(entry, schema, a[p[k]])
      /\ \A k \in DOMAIN q : v[k] = ArgumentOf(entry, schema, b[q[k]])
  OBVIOUS
<1>4. /\ \A k \in DOMAIN p : p[k] \in DOMAIN a
      /\ \A i \in DOMAIN a : a[i] \in RowsOf(schema) /\ b[f[i]] = a[i]
  BY Members DEF Moves
<1> DEFINE S == {ArgumentOf(entry, schema, a[p[k]]) : k \in DOMAIN p}
                  \cup {ArgumentOf(entry, schema, b[q[k]]) : k \in DOMAIN q}
<1>5. u \in Seq(S) /\ v \in Seq(S)
  <2>1. /\ Len(p) \in Nat /\ DOMAIN p = 1 .. Len(p) /\ Len(q) \in Nat /\ DOMAIN q = 1 .. Len(q)
    OBVIOUS
  <2>2. (\A k \in DOMAIN p : u[k] \in S) /\ (\A k \in DOMAIN q : v[k] \in S)
    OBVIOUS
  <2>3. u = [k \in 1 .. Len(p) |-> u[k]] /\ v = [k \in 1 .. Len(q) |-> v[k]]
    BY <2>1
  <2> HIDE DEF u, v, S
  <2>4. u \in Seq(S)
    BY <2>1, <2>2, <2>3, SequenceIntro
  <2>5. v \in Seq(S)
    BY <2>1, <2>2, <2>3, SequenceIntro
  <2> QED
    BY <2>4, <2>5
<1> HIDE DEF u, v, S
<1>6. \A k \in DOMAIN p : v[e[k]] = u[k]
  <2>1. SUFFICES ASSUME NEW k \in DOMAIN p PROVE v[e[k]] = u[k]
    OBVIOUS
  <2>2. e[k] \in DOMAIN q /\ q[e[k]] = f[p[k]]
    BY DEF Permutes
  <2>3. v[e[k]] = ArgumentOf(entry, schema, b[f[p[k]]])
    BY <1>3, <2>2
  <2>4. b[f[p[k]]] = a[p[k]]
    BY <1>4
  <2> QED
    BY <1>3, <2>3, <2>4
<1>7. Moves(e, u, v)
  BY <1>3, <1>6 DEF Moves
<1>8. \A k \in DOMAIN u : Fits(u[k], d)
  BY <1>2, <1>3, <1>4
<1>10. SameResult(RequiredAggregate(entry.function, u), RequiredAggregate(entry.function, v))
  BY <1>5, <1>7, <1>8, RequiredSame
<1> QED
  BY <1>1, <1>10

(* The rows of corresponding groups correspond. *)
GroupMove(e, f, one, far) ==
  Permutes(e, DOMAIN one, DOMAIN far) /\ \A k \in DOMAIN one : far[e[k]] = f[one[k]]

(* The keys of n rows, and those of the same rows in another order. *)
KeysMoved(f, x, y, n) == Permutes(f, 1 .. n, 1 .. n) /\ \A i \in 1 .. n : y[f[i]] = x[i]

(* Two groups of rows with one key. *)
LEMMA GroupMoves ==
  ASSUME NEW n \in Nat, NEW x, NEW y, NEW f, KeysMoved(f, x, y, n),
         NEW c, Divides(c, x, n), NEW d, Divides(d, y, n),
         NEW g \in DOMAIN c, NEW h \in DOMAIN d, x[c[g][1]] = y[d[h][1]]
  PROVE  \E e : GroupMove(e, f, c[g], d[h])
<1> DEFINE one == c[g]
           far == d[h]
           T   == Range(one)
           U   == Range(far)
<1>0. Permutes(f, 1 .. n, 1 .. n) /\ \A i \in 1 .. n : y[f[i]] = x[i]
  BY DEF KeysMoved
<1>1. /\ T = {j \in 1 .. n : x[j] = x[one[1]]} /\ DOMAIN one = 1 .. Len(one) /\ Len(one) \in Nat
      /\ \A p, q \in DOMAIN one : p < q <=> one[p] < one[q]
  BY Zenon DEF Divides
<1>2. /\ U = {j \in 1 .. n : y[j] = y[far[1]]} /\ DOMAIN far = 1 .. Len(far) /\ Len(far) \in Nat
      /\ \A p, q \in DOMAIN far : p < q <=> far[p] < far[q]
  BY Zenon DEF Divides
<1>3. x[one[1]] = y[far[1]]
  OBVIOUS
<1>4. T = {one[k] : k \in DOMAIN one} /\ U = {far[k] : k \in DOMAIN far}
  BY DEF Range
<1> HIDE DEF one, far, T, U
<1>5. Permutes(one, DOMAIN one, T)
  <2>1. \A p \in DOMAIN one : one[p] \in T /\ one[p] \in 1 .. n
    BY <1>1, <1>4
  <2>2. \A p, q \in DOMAIN one : one[p] = one[q] => p = q
    BY <1>1, <2>1
  <2> QED
    BY <1>4, <2>1, <2>2 DEF Permutes
<1>6. Permutes(far, DOMAIN far, U)
  <2>1. \A p \in DOMAIN far : far[p] \in U /\ far[p] \in 1 .. n
    BY <1>2, <1>4
  <2>2. \A p, q \in DOMAIN far : far[p] = far[q] => p = q
    BY <1>2, <2>1
  <2> QED
    BY <1>4, <2>1, <2>2 DEF Permutes
<1>7. Permutes(f, T, U)
  <2>1. \A j : j \in T <=> j \in 1 .. n /\ x[j] = x[one[1]]
    BY <1>1
  <2>2. \A j : j \in U <=> j \in 1 .. n /\ y[j] = x[one[1]]
    BY <1>2, <1>3
  <2>3. \A j \in T : f[j] \in U
    BY <1>0, <2>1, <2>2 DEF Permutes
  <2>4. \A k \in U : \E i \in T : f[i] = k
    <3>1. SUFFICES ASSUME NEW k \in U PROVE \E i \in T : f[i] = k
      OBVIOUS
    <3>2. PICK i \in 1 .. n : f[i] = k
      BY <1>0, <2>2 DEF Permutes
    <3>3. y[k] = x[i]
      BY <1>0, <3>2
    <3>4. i \in T
      BY <2>1, <2>2, <3>3
    <3> QED
      BY <3>2, <3>4
  <2>5. \A i, j \in T : f[i] = f[j] => i = j
    BY <1>0, <2>1 DEF Permutes
  <2> QED
    BY <2>3, <2>4, <2>5 DEF Permutes
<1>8. \E e : Permutes(e, DOMAIN one, DOMAIN far) /\ \A k \in DOMAIN one : far[e[k]] = f[one[k]]
  BY <1>5, <1>6, <1>7, ListMoves
<1> QED
  BY <1>8 DEF GroupMove, one, far

(* The groups of rows that moved correspond. *)
LEMMA GroupsMove ==
  ASSUME NEW n \in Nat, NEW x, NEW y, NEW f, KeysMoved(f, x, y, n),
         NEW c, Divides(c, x, n), NEW d, Divides(d, y, n)
  PROVE  \E s : /\ Permutes(s, DOMAIN c, DOMAIN d)
                /\ \A g \in DOMAIN c : x[c[g][1]] = y[d[s[g]][1]]
<1> DEFINE s == [g \in DOMAIN c |-> CHOOSE h \in DOMAIN d : x[c[g][1]] = y[d[h][1]]]
<1>0. Permutes(f, 1 .. n, 1 .. n) /\ \A i \in 1 .. n : y[f[i]] = x[i]
  BY DEF KeysMoved
<1>1. /\ \A g \in DOMAIN c : c[g][1] \in 1 .. n
      /\ \A g, h \in DOMAIN c : x[c[g][1]] = x[c[h][1]] => g = h
      /\ \A j \in 1 .. n : \E g \in DOMAIN c : x[j] = x[c[g][1]]
  <2>1. /\ \A g \in DOMAIN c : c[g][1] \in 1 .. n /\ Range(c[g]) = {j \in 1 .. n : x[j] = x[c[g][1]]}
        /\ \A g, h \in DOMAIN c : x[c[g][1]] = x[c[h][1]] => g = h
        /\ \A j \in 1 .. n : \E g \in DOMAIN c : j \in Range(c[g])
    BY Zenon DEF Divides
  <2> QED
    BY <2>1
<1>2. /\ \A g \in DOMAIN d : d[g][1] \in 1 .. n
      /\ \A g, h \in DOMAIN d : y[d[g][1]] = y[d[h][1]] => g = h
      /\ \A j \in 1 .. n : \E g \in DOMAIN d : y[j] = y[d[g][1]]
  <2>1. /\ \A g \in DOMAIN d : d[g][1] \in 1 .. n /\ Range(d[g]) = {j \in 1 .. n : y[j] = y[d[g][1]]}
        /\ \A g, h \in DOMAIN d : y[d[g][1]] = y[d[h][1]] => g = h
        /\ \A j \in 1 .. n : \E g \in DOMAIN d : j \in Range(d[g])
    BY Zenon DEF Divides
  <2> QED
    BY <2>1
<1>3. \A g \in DOMAIN c : s[g] \in DOMAIN d /\ x[c[g][1]] = y[d[s[g]][1]]
  <2>1. \A g \in DOMAIN c : \E h \in DOMAIN d : x[c[g][1]] = y[d[h][1]]
    <3>1. SUFFICES ASSUME NEW g \in DOMAIN c PROVE \E h \in DOMAIN d : x[c[g][1]] = y[d[h][1]]
      OBVIOUS
    <3>2. f[c[g][1]] \in 1 .. n /\ y[f[c[g][1]]] = x[c[g][1]]
      BY <1>0, <1>1 DEF Permutes
    <3> QED
      BY <1>2, <3>2
  <2> QED
    BY <2>1
<1> HIDE DEF s
<1>4. \A g, h \in DOMAIN c : s[g] = s[h] => g = h
  BY <1>1, <1>3
<1>5. \A h \in DOMAIN d : \E g \in DOMAIN c : s[g] = h
  <2>1. SUFFICES ASSUME NEW h \in DOMAIN d PROVE \E g \in DOMAIN c : s[g] = h
    OBVIOUS
  <2>2. PICK i \in 1 .. n : f[i] = d[h][1]
    BY <1>0, <1>2 DEF Permutes
  <2>3. PICK g \in DOMAIN c : x[i] = x[c[g][1]]
    BY <1>1
  <2>4. y[d[s[g]][1]] = y[d[h][1]] /\ s[g] \in DOMAIN d
    BY <1>0, <1>3, <2>2, <2>3
  <2> QED
    BY <1>2, <2>4
<1> QED
  BY <1>3, <1>4, <1>5 DEF Permutes

(* What is required first and what is required then. *)
LEMMA BothFail ==
  ASSUME NEW m \in Nat, NEW n \in Nat, NEW u, NEW v, DOMAIN u = 1 .. m, DOMAIN v = 1 .. n,
         \A r \in 1 .. m : DOMAIN u[r] \subseteq Nat, \A r \in 1 .. n : DOMAIN v[r] \subseteq Nat
  PROVE  /\ DOMAIN (Failures(u) \o Failures(v)) \subseteq Nat
         /\ Fails(Failures(u) \o Failures(v)) <=> AnyFails(u) \/ AnyFails(v)
<1> DEFINE x == Failures(u)
           y == Failures(v)
<1>1. DOMAIN x = 1 .. m /\ (Fails(x) <=> AnyFails(u))
  BY GridFails
<1>2. DOMAIN y = 1 .. n /\ (Fails(y) <=> AnyFails(v))
  BY GridFails
<1>3. x = [i \in 1 .. m |-> x[i]] /\ y = [i \in 1 .. n |-> y[i]]
  BY <1>1, <1>2 DEF Failures
<1> HIDE DEF x, y
<1>4. Joined(x \o y, x, m, y, n)
  BY <1>3, ConcatCases
<1>5. DOMAIN (x \o y) \subseteq Nat
  BY <1>4 DEF Joined
<1>6. Fails(x) \/ Fails(y) => Fails(x \o y)
  BY <1>1, <1>2, <1>4 DEF Joined, Fails
<1>7. Fails(x \o y) => Fails(x) \/ Fails(y)
  BY <1>1, <1>2, <1>4 DEF Joined, Fails
<1> QED
  BY <1>1, <1>2, <1>5, <1>6, <1>7 DEF x, y

(* The keys of rows that moved. *)
LEMMA KeysMove ==
  ASSUME NEW exprs, NEW schema, NEW f, NEW a, NEW b, Moves(f, a, b)
  PROVE  Moves(f, Grid(exprs, schema, a), Grid(exprs, schema, b))
BY DEF Grid, Moves, Permutes

(* The groups of an Aggregate node, of rows that moved. *)
Corresponds(s, node, schema, f, a, b, k) ==
  /\ Permutes(s, DOMAIN GroupsOf(node, schema, a), DOMAIN GroupsOf(node, schema, b))
  /\ \A g \in DOMAIN GroupsOf(node, schema, a) :
       /\ \E e : GroupMove(e, f, GroupsOf(node, schema, a)[g], GroupsOf(node, schema, b)[s[g]])
       /\ k # 0 => KeysOf(node, schema, a)[GroupsOf(node, schema, a)[g][1]]
                     = KeysOf(node, schema, b)[GroupsOf(node, schema, b)[s[g]][1]]

(* group_rows on rows that moved gives the groups moved.                  *)
LEMMA GroupsCorrespond ==
  ASSUME NEW node, NEW k, Splits(node, k), NEW schema,
         NEW S, NEW a \in Seq(S), NEW b \in Seq(S), NEW f, Moves(f, a, b)
  PROVE  \E s : Corresponds(s, node, schema, f, a, b, k)
<1> DEFINE n == Len(a)
           ga == GroupsOf(node, schema, a)
           gb == GroupsOf(node, schema, b)
           ka == KeysOf(node, schema, a)
           kb == KeysOf(node, schema, b)
<1>1. n \in Nat /\ DOMAIN a = 1 .. n /\ Permutes(f, DOMAIN a, DOMAIN b)
  <2>1. n \in Nat /\ DOMAIN a = 1 .. n
    OBVIOUS
  <2>2. Permutes(f, DOMAIN a, DOMAIN b)
    BY Zenon DEF Moves
  <2> QED
    BY <2>1, <2>2, Zenon
<1>2. Len(b) = n /\ DOMAIN b = 1 .. n
  <2>1. Len(b) \in Nat /\ DOMAIN b = 1 .. Len(b)
    OBVIOUS
  <2> QED
    BY <1>1, <2>1, MovedLength, Zenon
<1>3. CASE k = 0
  <2> DEFINE one == Positions(n)
             s == [g \in {1} |-> 1]
  <2>1. ga = <<one>> /\ gb = <<one>>
    <3>1. ga = <<Positions(Len(a))>>
      BY <1>3, GroupsOfFacts
    <3>2. gb = <<Positions(Len(b))>>
      BY <1>3, GroupsOfFacts
    <3> QED
      BY <1>2, <3>1, <3>2
  <2>2. DOMAIN ga = {1} /\ DOMAIN gb = {1} /\ ga[1] = one /\ gb[1] = one
    BY <2>1
  <2>3. DOMAIN one = 1 .. n /\ \A i \in 1 .. n : one[i] = i
    BY DEF Positions
  <2>4. \A i \in 1 .. n : f[i] \in 1 .. n
    BY <1>1, <1>2 DEF Permutes
  <2> HIDE DEF one
  <2>5. GroupMove(f, f, one, one)
    BY <1>1, <1>2, <2>3, <2>4 DEF GroupMove
  <2>6. Permutes(s, {1}, {1}) /\ s[1] = 1
    BY DEF Permutes
  <2> HIDE DEF s, ga, gb
  <2>7. Corresponds(s, node, schema, f, a, b, k)
    BY <1>3, <2>2, <2>5, <2>6 DEF Corresponds, ga, gb
  <2> QED
    BY <2>7
<1>4. CASE k # 0
  <2>1. Divides(ga, ka, n)
    BY <1>4, GroupsOfFacts
  <2>2. Divides(gb, kb, n)
    BY <1>2, <1>4, GroupsOfFacts
  <2>3. Moves(f, ka, kb)
    BY KeysMove DEF KeysOf
  <2>4. \A i \in 1 .. n : kb[f[i]] = ka[i]
    <3>1. DOMAIN ka = 1 .. n
      BY <1>1 DEF KeysOf, Grid
    <3> QED
      BY <2>3, <3>1 DEF Moves
  <2>0. KeysMoved(f, ka, kb, n) /\ n \in Nat
    <3>1. DOMAIN a = 1 .. n /\ DOMAIN b = 1 .. n
      BY <1>1, <1>2
    <3>2. Permutes(f, 1 .. n, 1 .. n) /\ n \in Nat
      BY <1>1, <3>1, Zenon
    <3> HIDE DEF ka, kb, n
    <3> QED
      BY <2>4, <3>2 DEF KeysMoved
  <2> HIDE DEF ga, gb, ka, kb, n
  <2>5. PICK s : /\ Permutes(s, DOMAIN ga, DOMAIN gb)
                 /\ \A g \in DOMAIN ga : ka[ga[g][1]] = kb[gb[s[g]][1]]
    BY <2>0, <2>1, <2>2, GroupsMove
  <2>6. \A g \in DOMAIN ga : s[g] \in DOMAIN gb
    BY <2>5 DEF Permutes
  <2>7. \A g \in DOMAIN ga : \E e : GroupMove(e, f, ga[g], gb[s[g]])
    <3>1. SUFFICES ASSUME NEW g \in DOMAIN ga PROVE \E e : GroupMove(e, f, ga[g], gb[s[g]])
      OBVIOUS
    <3>2. s[g] \in DOMAIN gb /\ ka[ga[g][1]] = kb[gb[s[g]][1]]
      BY <2>5, <2>6
    <3> QED
      BY <2>0, <2>1, <2>2, <3>2, GroupMoves
  <2>8. Corresponds(s, node, schema, f, a, b, k)
    BY <2>5, <2>7 DEF Corresponds, ga, gb, ka, kb
  <2> QED
    BY <2>8
<1> QED
  BY <1>3, <1>4

(* What the aggregates give for groups that correspond. *)
LEMMA ValuesSame ==
  ASSUME NEW node, IsNode(node), node.kind = "aggregate", NEW in, IsSchema(in.schema),
         AcceptsAggregate(node, in), NEW k, Splits(node, k),
         NEW a \in Seq(RowsOf(in.schema)), NEW b \in Seq(RowsOf(in.schema)), NEW f, Moves(f, a, b),
         NEW s, Corresponds(s, node, in.schema, f, a, b, k),
         NEW g \in DOMAIN GroupsOf(node, in.schema, a), NEW j \in 1 .. Len(node.entries) - k
  PROVE  /\ s[g] \in DOMAIN GroupsOf(node, in.schema, b)
         /\ SameResult(ValuesOf(node, in.schema, a)[g][j], ValuesOf(node, in.schema, b)[s[g]][j])
<1> DEFINE ga == GroupsOf(node, in.schema, a)
           gb == GroupsOf(node, in.schema, b)
           entry == AggregateEntries(node)[j]
           p == ga[g]
           q == gb[s[g]]
<1>1. s[g] \in DOMAIN gb
  BY DEF Corresponds, Permutes
<1>2. PICK e : GroupMove(e, f, p, q)
  BY DEF Corresponds
<1>3. p \in Seq(DOMAIN a)
  BY GroupsOfFacts
<1>4. q \in Seq(DOMAIN b)
  BY <1>1, GroupsOfFacts
<1>5. /\ j \in DOMAIN AggregateEntries(node) /\ entry = node.entries[k + j]
      /\ k + j \in k + 1 .. Len(node.entries)
  <2>1. Len(node.entries) \in Nat /\ k \in 0 .. Len(node.entries)
    BY NodeFacts DEF Splits
  <2>2. /\ AggregateEntries(node) \in Seq(Entries) /\ Len(AggregateEntries(node)) = Len(node.entries) - k
        /\ AggregateEntries(node)[j] = node.entries[k + j]
    BY DEF Splits
  <2> QED
    BY <2>1, <2>2, SMTT(30)
<1>6. /\ entry \in Entries /\ entry.function \in AggregateFunctions
      /\ EntryDescriptor(entry, in.schema) # Invalid
  BY <1>5, AggregateDescriptors
<1>7. /\ ValuesOf(node, in.schema, a)[g][j] = AggregateOf(entry, in.schema, a, p)
      /\ ValuesOf(node, in.schema, b)[s[g]][j] = AggregateOf(entry, in.schema, b, q)
  BY <1>1, <1>5 DEF ValuesOf
<1> HIDE DEF entry, p, q, ga, gb
<1>8. SameResult(AggregateOf(entry, in.schema, a, p), AggregateOf(entry, in.schema, b, q))
  BY <1>2, <1>3, <1>4, <1>6, AggregateOfSame DEF GroupMove
<1> QED
  BY <1>1, <1>7, <1>8 DEF gb

(* An Aggregate node. *)
LEMMA AggregateMoves ==
  ASSUME NEW node, IsNode(node), node.kind = "aggregate", NEW in, IsSchema(in.schema),
         AcceptsAggregate(node, in), NEW k, Splits(node, k),
         NEW a \in Seq(RowsOf(in.schema)), NEW b \in Seq(RowsOf(in.schema)), NEW f, Moves(f, a, b)
  PROVE  \E s : Twins(s, EvaluateAggregate(node, in.schema, a), EvaluateAggregate(node, in.schema, b))
<1> DEFINE m  == Len(node.entries) - k
           ga == GroupsOf(node, in.schema, a)
           gb == GroupsOf(node, in.schema, b)
           ka == KeysOf(node, in.schema, a)
           kb == KeysOf(node, in.schema, b)
           va == ValuesOf(node, in.schema, a)
           vb == ValuesOf(node, in.schema, b)
           ra == GroupedRows(node, in.schema, a)
           rb == GroupedRows(node, in.schema, b)
<1>1. PICK s : Corresponds(s, node, in.schema, f, a, b, k)
  BY GroupsCorrespond
<1>2. /\ Permutes(s, DOMAIN ga, DOMAIN gb)
      /\ \A g \in DOMAIN ga : k # 0 => ka[ga[g][1]] = kb[gb[s[g]][1]]
  BY <1>1 DEF Corresponds
<1>3. \A g \in DOMAIN ga, j \in 1 .. m : s[g] \in DOMAIN gb /\ SameResult(va[g][j], vb[s[g]][j])
  BY <1>1, ValuesSame
<1>4. \A g \in DOMAIN ga : s[g] \in DOMAIN gb
  BY <1>2 DEF Permutes
<1>5. DOMAIN AggregateEntries(node) = 1 .. m
  BY DEF Splits
<1>6. /\ DOMAIN va = DOMAIN ga /\ \A g \in DOMAIN ga : va[g] = [j \in 1 .. m |-> va[g][j]]
      /\ DOMAIN vb = DOMAIN gb /\ \A g \in DOMAIN gb : vb[g] = [j \in 1 .. m |-> vb[g][j]]
  BY <1>5 DEF ValuesOf
<1>7. Moves(f, ka, kb)
  BY KeysMove DEF KeysOf
<1>8. /\ ga \in Seq(Seq(DOMAIN a)) /\ gb \in Seq(Seq(DOMAIN b))
      /\ k = 0 <=> KeyEntries(node) = <<>>
  <2>1. ga \in Seq(Seq(DOMAIN a)) /\ (k = 0 => KeyEntries(node) = <<>>) /\ (k # 0 => KeyEntries(node) # <<>>)
    BY GroupsOfFacts
  <2>2. gb \in Seq(Seq(DOMAIN b))
    BY GroupsOfFacts, SMTT(30)
  <2> QED
    BY <2>1, <2>2
<1>9. /\ DOMAIN ra = DOMAIN ga /\ DOMAIN rb = DOMAIN gb
      /\ \A g \in DOMAIN ga : ra[g] = (IF k = 0 THEN <<>> ELSE ka[ga[g][1]]) \o va[g]
      /\ \A g \in DOMAIN gb : rb[g] = (IF k = 0 THEN <<>> ELSE kb[gb[g][1]]) \o vb[g]
  BY <1>8, Zenon DEF GroupedRows
<1>10. /\ DOMAIN ka = 1 .. Len(a) /\ Len(a) \in Nat /\ DOMAIN kb = 1 .. Len(b) /\ Len(b) \in Nat
       /\ \A r \in 1 .. Len(a) : DOMAIN ka[r] \subseteq Nat
       /\ \A r \in 1 .. Len(b) : DOMAIN kb[r] \subseteq Nat
  <2>1. DOMAIN Arguments(KeyEntries(node)) \subseteq Nat
    BY DEF Splits, Arguments
  <2>2. DOMAIN a = 1 .. Len(a) /\ Len(a) \in Nat /\ DOMAIN b = 1 .. Len(b) /\ Len(b) \in Nat
    OBVIOUS
  <2> QED
    BY <2>1, <2>2 DEF KeysOf, Grid
<1>11. /\ DOMAIN va = 1 .. Len(ga) /\ Len(ga) \in Nat /\ DOMAIN vb = 1 .. Len(gb) /\ Len(gb) \in Nat
       /\ \A g \in 1 .. Len(ga) : DOMAIN va[g] = 1 .. m
       /\ \A g \in 1 .. Len(gb) : DOMAIN vb[g] = 1 .. m
  <2>1. DOMAIN ga = 1 .. Len(ga) /\ Len(ga) \in Nat /\ DOMAIN gb = 1 .. Len(gb) /\ Len(gb) \in Nat
    BY <1>8
  <2>2. /\ \A g \in DOMAIN ga : DOMAIN va[g] = 1 .. m
        /\ \A g \in DOMAIN gb : DOMAIN vb[g] = 1 .. m
    BY <1>5 DEF ValuesOf
  <2> QED
    BY <1>6, <2>1, <2>2
<1>12. 1 .. m \subseteq Nat
  OBVIOUS
<1>13. /\ EvaluateAggregate(node, in.schema, a) = Complete(Failures(ka) \o Failures(va), ra)
       /\ EvaluateAggregate(node, in.schema, b) = Complete(Failures(kb) \o Failures(vb), rb)
  BY EvaluateAggregateIs
<1> HIDE DEF m, ga, gb, ka, kb, va, vb, ra, rb
<1>14. /\ DOMAIN (Failures(ka) \o Failures(va)) \subseteq Nat
       /\ Fails(Failures(ka) \o Failures(va)) <=> AnyFails(ka) \/ AnyFails(va)
  BY <1>10, <1>11, <1>12, BothFail, ZenonT(40)
<1>15. /\ DOMAIN (Failures(kb) \o Failures(vb)) \subseteq Nat
       /\ Fails(Failures(kb) \o Failures(vb)) <=> AnyFails(kb) \/ AnyFails(vb)
  BY <1>10, <1>11, <1>12, BothFail, ZenonT(40)
<1>16. AnyFails(ka) <=> AnyFails(kb)
  BY <1>7, MovedFails
<1>17. AnyFails(va) <=> AnyFails(vb)
  <2>1. ASSUME AnyFails(va) PROVE AnyFails(vb)
    <3>1. PICK g \in DOMAIN ga, j \in 1 .. m : Failed(va[g][j])
      BY <1>6, <1>11, <2>1 DEF AnyFails, Fails
    <3>2. s[g] \in DOMAIN vb /\ Failed(vb[s[g]][j]) /\ DOMAIN vb[s[g]] = 1 .. m
      BY <1>3, <1>6, <1>11, <3>1 DEF SameResult
    <3> QED
      BY <3>2 DEF AnyFails, Fails
  <2>2. ASSUME AnyFails(vb) PROVE AnyFails(va)
    <3>1. PICK h \in DOMAIN gb, j \in 1 .. m : Failed(vb[h][j])
      BY <1>6, <1>11, <2>2 DEF AnyFails, Fails
    <3>2. PICK g \in DOMAIN ga : s[g] = h
      BY <1>2 DEF Permutes
    <3>3. Failed(va[g][j]) /\ g \in DOMAIN va /\ DOMAIN va[g] = 1 .. m
      BY <1>3, <1>6, <1>11, <3>1, <3>2 DEF SameResult
    <3> QED
      BY <3>3 DEF AnyFails, Fails
  <2> QED
    BY <2>1, <2>2
<1>18. ASSUME ~ AnyFails(va)
       PROVE  Moves(s, ra, rb)
  <2>1. SUFFICES ASSUME NEW g \in DOMAIN ga PROVE rb[s[g]] = ra[g]
    BY <1>2, <1>9 DEF Moves
  <2>2. \A j \in 1 .. m : va[g][j] = vb[s[g]][j]
    <3>1. \A j \in 1 .. m : ~ Failed(va[g][j])
      BY <1>6, <1>11, <1>18 DEF AnyFails, Fails
    <3> QED
      BY <1>3, <3>1 DEF SameResult
  <2>3. va[g] = vb[s[g]]
    BY <1>4, <1>6, <2>2, ZenonT(40)
  <2>4. k # 0 => ka[ga[g][1]] = kb[gb[s[g]][1]]
    BY <1>2
  <2>5. (IF k = 0 THEN <<>> ELSE ka[ga[g][1]]) = (IF k = 0 THEN <<>> ELSE kb[gb[s[g]][1]])
    BY <2>4
  <2> QED
    BY <1>4, <1>9, <2>3, <2>5, Zenon
<1>19. Twins(s, Complete(Failures(ka) \o Failures(va), ra), Complete(Failures(kb) \o Failures(vb), rb))
  BY <1>14, <1>15, <1>16, <1>17, <1>18, CompleteFails, Zenon DEF Twins
<1> QED
  BY <1>13, <1>19

(* An Aggregate node gives two hosts the same rows.                       *)
LEMMA AggregateAgrees ==
  ASSUME NEW node, IsNode(node), node.kind = "aggregate", NEW in, IsSchema(in.schema),
         AcceptsAggregate(node, in),
         NEW a \in Seq(RowsOf(in.schema)), NEW b \in Seq(RowsOf(in.schema)), Alike(a, b)
  PROVE  SameOutcome(EvaluateAggregate(node, in.schema, a), EvaluateAggregate(node, in.schema, b))
<1>1. PICK k \in 0 .. Len(node.entries) : Splits(node, k)
  BY SplitFacts
<1>2. PICK f : Moves(f, a, b)
  BY StableMove
<1>3. PICK s : Twins(s, EvaluateAggregate(node, in.schema, a), EvaluateAggregate(node, in.schema, b))
  BY <1>1, <1>2, AggregateMoves
<1>4. Good(EvaluateAggregate(node, in.schema, a), AggregateProperties(node, in).schema)
  BY <1>1, AggregateGood
<1> QED
  BY <1>3, <1>4, TwinsAgree DEF Good

(* Rows, by position, with their sort keys: to other positions, rows with   *)
(* one key in the order they had.                                           *)
Carried(g, chosen, far, keys, farKeys) ==
  /\ Permutes(g, chosen, far)
  /\ \A i \in chosen : farKeys[g[i]] = keys[i]
  /\ \A i, j \in chosen : keys[i] = keys[j] /\ i < j => g[i] < g[j]

(* Sort keys without failures. *)
Whole(keys, items, chosen) ==
  \A i \in chosen : Keyed(keys[i], items) /\ keys[i] = [k \in DOMAIN items |-> keys[i][k]]

(* Items by which rows can be sorted. *)
Comparable(items) ==
  items \in Seq(OrderingItems) /\ \A i \in DOMAIN items : items[i].expr.descriptor \in Descriptors

(* Of two such rows the same comes first in both orders. *)
LEMMA PrecedesMoved ==
  ASSUME NEW items \in Seq(OrderingItems), \A i \in DOMAIN items : items[i].expr.descriptor \in Descriptors,
         NEW chosen, chosen \subseteq Nat, NEW far, far \subseteq Nat, NEW keys, NEW farKeys,
         Whole(keys, items, chosen), NEW g, Carried(g, chosen, far, keys, farKeys),
         NEW i \in chosen, NEW j \in chosen
  PROVE  Precedes(keys, items, i, j) <=> Precedes(farKeys, items, g[i], g[j])
<1> DEFINE u == keys[i]
           v == keys[j]
           c == CompareKeys(u, v, items)
<1>1. farKeys[g[i]] = u /\ farKeys[g[j]] = v
  BY DEF Carried
<1>2. Keyed(u, items) /\ Keyed(v, items)
  BY DEF Whole
<1>3. u = [k \in DOMAIN items |-> u[k]] /\ v = [k \in DOMAIN items |-> v[k]]
  BY DEF Whole
<1>4. i \in Nat /\ j \in Nat /\ g[i] \in Nat /\ g[j] \in Nat
  BY DEF Carried, Permutes
<1>5. u = v => (i < j <=> g[i] < g[j])
  <2>1. SUFFICES ASSUME u = v PROVE i < j <=> g[i] < g[j]
    OBVIOUS
  <2>2. i < j => g[i] < g[j]
    BY <2>1 DEF Carried
  <2>3. j < i => g[j] < g[i]
    BY <2>1 DEF Carried
  <2> QED
    BY <1>4, <2>2, <2>3
<1>6. /\ Precedes(keys, items, i, j) <=> c < 0 \/ (c = 0 /\ i < j)
      /\ Precedes(farKeys, items, g[i], g[j]) <=> c < 0 \/ (c = 0 /\ g[i] < g[j])
  BY <1>1 DEF Precedes
<1> HIDE DEF u, v
<1>7. c = 0 => \A k \in DOMAIN items : u[k] = v[k]
  BY <1>2, KeyOrder
<1>8. c = 0 => u = v
  BY <1>3, <1>7
<1> HIDE DEF c
<1> QED
  BY <1>5, <1>6, <1>8

(* The members of a set, listed in the order of their keys. *)
Lists(sorted, n, chosen, keys, items) ==
  /\ n \in Nat /\ DOMAIN sorted = 1 .. n
  /\ Permutes(sorted, 1 .. n, chosen)
  /\ \A j, k \in 1 .. n : j < k <=> Precedes(keys, items, sorted[j], sorted[k])

(* Sorting lists the rows in the order of their keys.                     *)
LEMMA OrderLists ==
  ASSUME NEW sorted, NEW chosen, NEW keys, NEW items, InOrder(sorted, chosen, keys, items)
  PROVE  \E n : Lists(sorted, n, chosen, keys, items)
<1> DEFINE n == Cardinality(chosen)
           Ahead(p, q) == Precedes(keys, items, p, q)
<1>1. n \in Nat
  BY Zenon DEF InOrder
<1>2. DOMAIN sorted = 1 .. n
  BY Zenon DEF InOrder
<1>3. \A p, q \in DOMAIN sorted : p < q <=> Ahead(sorted[p], sorted[q])
  BY Zenon DEF InOrder
<1>4. \A p, q \in DOMAIN sorted : sorted[p] = sorted[q] => p = q
  BY Zenon DEF InOrder
<1>5. \A i \in chosen : \E p \in DOMAIN sorted : sorted[p] = i
  BY Zenon DEF InOrder
<1>6. sorted \in Seq(chosen)
  BY Zenon DEF InOrder
<1>7. \A p \in DOMAIN sorted : sorted[p] \in chosen
  BY <1>6
<1>8. \A j, k \in 1 .. n : j < k <=> Precedes(keys, items, sorted[j], sorted[k])
  BY <1>2, <1>3
<1> HIDE DEF n, Ahead
<1>9. Permutes(sorted, 1 .. n, chosen)
  BY Zenon, <1>2, <1>4, <1>5, <1>7 DEF Permutes
<1> QED
  BY <1>1, <1>2, <1>8, <1>9 DEF Lists

(* The rows of one list, each taken to where g has it, are the other list. *)
Follows(g, list, far) == DOMAIN far = DOMAIN list /\ \A k \in DOMAIN list : far[k] = g[list[k]]

(* Rows of one key that keep their order are sorted alike.                *)
LEMMA SortedMoves ==
  ASSUME NEW items, Comparable(items),
         NEW chosen, chosen \subseteq Nat, NEW far, far \subseteq Nat, NEW keys, NEW farKeys,
         Whole(keys, items, chosen), NEW g, Carried(g, chosen, far, keys, farKeys),
         NEW sorted, InOrder(sorted, chosen, keys, items),
         NEW farSorted, InOrder(farSorted, far, farKeys, items)
  PROVE  Follows(g, sorted, farSorted)
<1>0. items \in Seq(OrderingItems) /\ \A i \in DOMAIN items : items[i].expr.descriptor \in Descriptors
  BY DEF Comparable
<1>1. PICK m : Lists(sorted, m, chosen, keys, items)
  BY OrderLists
<1>2. PICK n : Lists(farSorted, n, far, farKeys, items)
  BY OrderLists
<1>3. Permutes(g, chosen, far)
  BY DEF Carried
<1>4. /\ m \in Nat /\ DOMAIN sorted = 1 .. m /\ Permutes(sorted, 1 .. m, chosen)
      /\ n \in Nat /\ DOMAIN farSorted = 1 .. n /\ Permutes(farSorted, 1 .. n, far)
  BY <1>1, <1>2 DEF Lists
<1>5. m = n
  <2>1. \E e : Permutes(e, 1 .. m, 1 .. n) /\ \A k \in 1 .. m : farSorted[e[k]] = g[sorted[k]]
    BY <1>3, <1>4, ListMoves
  <2> QED
    BY <1>4, <2>1, MovedLength
<1> DEFINE p == [k \in 1 .. n |-> g[sorted[k]]]
           R == {pair \in far \X far : Precedes(farKeys, items, pair[1], pair[2])}
<1>6. \A k \in 1 .. n : p[k] = g[sorted[k]] /\ sorted[k] \in chosen
  BY <1>4, <1>5 DEF Permutes
<1>7. DOMAIN p = 1 .. n
  OBVIOUS
<1> HIDE DEF p
<1>8. Permutes(p, 1 .. n, far)
  <2>1. ASSUME NEW i \in far PROVE \E k \in 1 .. n : p[k] = i
    <3>1. PICK j \in chosen : g[j] = i
      BY <1>3 DEF Permutes
    <3>2. PICK k \in 1 .. n : sorted[k] = j
      BY <1>4, <1>5 DEF Permutes
    <3> QED
      BY <1>6, <3>1, <3>2
  <2>2. ASSUME NEW j \in 1 .. n, NEW k \in 1 .. n, p[j] = p[k] PROVE j = k
    <3>1. sorted[j] \in chosen /\ sorted[k] \in chosen /\ g[sorted[j]] = g[sorted[k]]
      BY <1>6, <2>2
    <3>2. sorted[j] = sorted[k]
      BY <1>3, <3>1 DEF Permutes
    <3> QED
      BY <1>4, <1>5, <3>2 DEF Permutes
  <2>3. \A k \in 1 .. n : p[k] \in far
    BY <1>3, <1>6 DEF Permutes
  <2> QED
    BY <2>1, <2>2, <2>3 DEF Permutes
<1>9. \A j, k \in 1 .. n : j < k <=> <<farSorted[j], farSorted[k]>> \in R
  <2>1. SUFFICES ASSUME NEW j \in 1 .. n, NEW k \in 1 .. n PROVE j < k <=> <<farSorted[j], farSorted[k]>> \in R
    OBVIOUS
  <2>2. j < k <=> Precedes(farKeys, items, farSorted[j], farSorted[k])
    BY <1>2 DEF Lists
  <2>3. farSorted[j] \in far /\ farSorted[k] \in far
    BY <1>4 DEF Permutes
  <2> QED
    BY <2>2, <2>3
<1>10. \A j, k \in 1 .. n : j < k <=> <<p[j], p[k]>> \in R
  <2>1. SUFFICES ASSUME NEW j \in 1 .. n, NEW k \in 1 .. n PROVE j < k <=> <<p[j], p[k]>> \in R
    OBVIOUS
  <2>2. j < k <=> Precedes(keys, items, sorted[j], sorted[k])
    BY <1>1, <1>5 DEF Lists
  <2>3. sorted[j] \in chosen /\ sorted[k] \in chosen
    BY <1>6
  <2>4. Precedes(keys, items, sorted[j], sorted[k]) <=> Precedes(farKeys, items, g[sorted[j]], g[sorted[k]])
    BY <1>0, <2>3, PrecedesMoved
  <2>5. p[j] \in far /\ p[k] \in far
    BY <1>8 DEF Permutes
  <2>6. g[sorted[j]] = p[j] /\ g[sorted[k]] = p[k]
    BY <1>6
  <2> QED
    BY <2>2, <2>4, <2>5, <2>6
<1> HIDE DEF R
<1>11. Ranked(p, n, far, R) /\ Ranked(farSorted, n, far, R)
  BY <1>4, <1>7, <1>8, <1>9, <1>10 DEF Ranked
<1>12. ASSUME NEW k \in 1 .. n PROVE p[k] = farSorted[k]
  BY <1>4, <1>11, OneOrder
<1> QED
  BY <1>4, <1>5, <1>6, <1>12 DEF Follows

(* Between rows with one key there are only rows with that key. *)
LEMMA BetweenPeers ==
  ASSUME NEW items \in Seq(OrderingItems), \A i \in DOMAIN items : items[i].expr.descriptor \in Descriptors,
         NEW chosen, NEW keys, Whole(keys, items, chosen),
         NEW sorted, NEW n, Lists(sorted, n, chosen, keys, items),
         NEW p \in 1 .. n, NEW x \in 1 .. n, NEW q \in 1 .. n, p <= x, x <= q,
         keys[sorted[p]] = keys[sorted[q]]
  PROVE  keys[sorted[x]] = keys[sorted[p]]
<1> DEFINE u == keys[sorted[p]]
           v == keys[sorted[x]]
<1>1. n \in Nat /\ sorted[p] \in chosen /\ sorted[x] \in chosen /\ sorted[q] \in chosen
  BY DEF Lists, Permutes
<1>2. Keyed(u, items) /\ Keyed(v, items)
  BY <1>1 DEF Whole
<1>3. u = [k \in DOMAIN items |-> u[k]] /\ v = [k \in DOMAIN items |-> v[k]]
  BY <1>1 DEF Whole
<1>4. p < x => CompareKeys(u, v, items) <= 0
  <2>1. p < x <=> Precedes(keys, items, sorted[p], sorted[x])
    BY DEF Lists
  <2>2. CompareKeys(u, v, items) \in {-1, 0, 1}
    BY <1>2, KeyOrder
  <2> QED
    BY <2>1, <2>2 DEF Precedes
<1>5. x < q => CompareKeys(v, u, items) <= 0
  <2>1. x < q <=> Precedes(keys, items, sorted[x], sorted[q])
    BY DEF Lists
  <2>2. CompareKeys(v, u, items) \in {-1, 0, 1}
    BY <1>2, KeyOrder
  <2>3. keys[sorted[q]] = u
    OBVIOUS
  <2> QED
    BY <2>1, <2>2, <2>3 DEF Precedes
<1>6. CASE p < x /\ x < q
  <2> HIDE DEF u, v
  <2>1. CompareKeys(u, v, items) <= 0 /\ CompareKeys(v, u, items) <= 0
    BY <1>4, <1>5, <1>6
  <2>2. CompareKeys(u, v, items) \in {-1, 0, 1} /\ CompareKeys(v, u, items) \in {-1, 0, 1}
    BY <1>2, KeyOrder
  <2>3. CompareKeys(u, v, items) = -1 <=> CompareKeys(v, u, items) = 1
    BY <1>2, KeyOrder
  <2>4. CompareKeys(v, u, items) = -1 <=> CompareKeys(u, v, items) = 1
    BY <1>2, KeyOrder
  <2>5. CompareKeys(u, v, items) = 0
    BY <2>1, <2>2, <2>3, <2>4
  <2>6. \A i \in DOMAIN items : u[i] = v[i]
    BY <1>2, <2>5, KeyOrder
  <2>7. u = v
    BY <1>3, <2>6
  <2> QED
    BY <2>7 DEF u, v
<1>7. CASE p = x
  BY <1>7
<1>8. CASE x = q
  BY <1>8
<1> QED
  BY <1>1, <1>6, <1>7, <1>8

(* The groups of peers that start no later. *)
PeersUpTo(sorted, keys, p) == {x \in NewPeers(sorted, keys) : x <= p}

(* No group of peers starts between two rows of one key.                  *)
LEMMA LaterPeers ==
  ASSUME NEW items \in Seq(OrderingItems), \A i \in DOMAIN items : items[i].expr.descriptor \in Descriptors,
         NEW chosen, NEW keys, Whole(keys, items, chosen),
         NEW sorted, NEW n, Lists(sorted, n, chosen, keys, items),
         NEW p \in 1 .. n, NEW q \in 1 .. n, p <= q, keys[sorted[p]] = keys[sorted[q]]
  PROVE  PeersUpTo(sorted, keys, p) = PeersUpTo(sorted, keys, q)
<1>1. n \in Nat /\ DOMAIN sorted = 1 .. n
  BY DEF Lists
<1>2. ASSUME NEW x \in NewPeers(sorted, keys), p < x, x <= q PROVE FALSE
  <2>1. x \in 1 .. n /\ (x = 1 \/ keys[sorted[x]] # keys[sorted[x - 1]])
    BY <1>1, <1>2 DEF NewPeers
  <2>2. x # 1 /\ x - 1 \in 1 .. n /\ p <= x - 1 /\ x - 1 <= q /\ p <= x
    BY <1>1, <1>2, <2>1
  <2>3. keys[sorted[x]] = keys[sorted[p]]
    BY <1>2, <2>1, <2>2, BetweenPeers
  <2>4. keys[sorted[x - 1]] = keys[sorted[p]]
    BY <1>2, <2>1, <2>2, BetweenPeers
  <2> QED
    BY <2>1, <2>2, <2>3, <2>4
<1>3. NewPeers(sorted, keys) \subseteq 1 .. n
  BY <1>1 DEF NewPeers
<1> QED
  BY <1>1, <1>2, <1>3 DEF PeersUpTo

(* Rows with one key are peers. *)
LEMMA EqualKeysOnePeer ==
  ASSUME NEW items \in Seq(OrderingItems), \A i \in DOMAIN items : items[i].expr.descriptor \in Descriptors,
         NEW chosen, NEW keys, Whole(keys, items, chosen),
         NEW sorted, NEW n, Lists(sorted, n, chosen, keys, items),
         NEW p \in 1 .. n, NEW q \in 1 .. n, keys[sorted[p]] = keys[sorted[q]]
  PROVE  PeersUpTo(sorted, keys, p) = PeersUpTo(sorted, keys, q)
<1>1. n \in Nat
  BY DEF Lists
<1>2. CASE p <= q
  BY <1>2, LaterPeers
<1>3. CASE q <= p
  BY <1>3, LaterPeers
<1> QED
  BY <1>1, <1>2, <1>3

(* Lists that have the same key at each position. *)
SameKeys(n, sorted, keys, far, farKeys) ==
  /\ n \in Nat /\ DOMAIN sorted = 1 .. n /\ DOMAIN far = 1 .. n
  /\ \A k \in 1 .. n : farKeys[far[k]] = keys[sorted[k]]

(* Such lists have their peers in common. *)
LEMMA SamePeers ==
  ASSUME NEW n, NEW sorted, NEW far, NEW keys, NEW farKeys, SameKeys(n, sorted, keys, far, farKeys)
  PROVE  NewPeers(far, farKeys) = NewPeers(sorted, keys)
<1> USE DEF SameKeys
<1>1. ASSUME NEW p \in 1 .. n
      PROVE  p \in NewPeers(far, farKeys) <=> p \in NewPeers(sorted, keys)
  <2>1. p = 1 \/ p - 1 \in 1 .. n
    OBVIOUS
  <2>2. farKeys[far[p]] = keys[sorted[p]]
    OBVIOUS
  <2>3. p # 1 => farKeys[far[p - 1]] = keys[sorted[p - 1]]
    BY <2>1
  <2> QED
    BY <2>2, <2>3 DEF NewPeers
<1>2. NewPeers(far, farKeys) \subseteq 1 .. n /\ NewPeers(sorted, keys) \subseteq 1 .. n
  BY DEF NewPeers
<1> QED
  BY <1>1, <1>2

(* The sort keys of rows that moved, those with one key in the order they had. *)
LEMMA KeysStable ==
  ASSUME NEW schema, IsSchema(schema), NEW a \in Seq(RowsOf(schema)), NEW b \in Seq(RowsOf(schema)),
         NEW f, Moves(f, a, b), NEW items
  PROVE  \E g : Carried(g, DOMAIN a, DOMAIN b, OrderKeys(items, schema, a), OrderKeys(items, schema, b))
<1> DEFINE keys == OrderKeys(items, schema, a)
           farKeys == OrderKeys(items, schema, b)
           S == {keys[i] : i \in DOMAIN a}
           T == {farKeys[i] : i \in DOMAIN b}
<1>1. Moves(f, keys, farKeys)
  BY KeysMove DEF OrderKeys
<1>2. DOMAIN keys = DOMAIN a /\ DOMAIN farKeys = DOMAIN b
  BY DEF OrderKeys, Grid
<1>3. keys \in Seq(S) /\ farKeys \in Seq(T)
  <2>1. /\ Len(a) \in Nat /\ DOMAIN a = 1 .. Len(a)
        /\ Len(b) \in Nat /\ DOMAIN b = 1 .. Len(b)
    OBVIOUS
  <2>2. /\ keys = [i \in 1 .. Len(a) |-> keys[i]] /\ \A i \in 1 .. Len(a) : keys[i] \in S
        /\ farKeys = [i \in 1 .. Len(b) |-> farKeys[i]] /\ \A i \in 1 .. Len(b) : farKeys[i] \in T
    BY <1>2, <2>1 DEF OrderKeys, Grid
  <2> HIDE DEF keys, farKeys, S, T
  <2>3. keys \in [1 .. Len(a) -> S] /\ farKeys \in [1 .. Len(b) -> T]
    BY <2>2
  <2> QED
    BY <2>1, <2>3
<1> HIDE DEF keys, farKeys, S, T
<1>4. Alike(keys, farKeys)
  BY <1>1, <1>3, MovedCopies
<1>5. PICK g : /\ Moves(g, keys, farKeys)
               /\ \A i, j \in DOMAIN keys : keys[i] = keys[j] /\ i < j => g[i] < g[j]
  BY <1>3, <1>4, StableMove
<1>6. Carried(g, DOMAIN a, DOMAIN b, keys, farKeys)
  BY <1>2, <1>5 DEF Moves, Carried
<1> QED
  BY <1>6 DEF keys, farKeys

(* Sort keys that do not fail can be compared.                            *)
LEMMA WholeKeys ==
  ASSUME NEW schema, IsSchema(schema), NEW rows \in Seq(RowsOf(schema)), NEW items \in Seq(OrderingItems),
         AcceptsItems(items, schema), NEW chosen, chosen \subseteq DOMAIN rows,
         \A r \in chosen : ~ Failed(Failures(OrderKeys(items, schema, rows))[r])
  PROVE  /\ Whole(OrderKeys(items, schema, rows), items, chosen)
         /\ Comparable(items)
<1> DEFINE keys == OrderKeys(items, schema, rows)
<1>1. OrderGrid(items, schema, rows)
  BY OrderGridFacts
<1>2. /\ \A i \in DOMAIN items : items[i].expr.descriptor \in Descriptors
      /\ \A r \in DOMAIN rows : ~ Failed(Failures(keys)[r]) => Keyed(keys[r], items)
  BY <1>1 DEF OrderGrid
<1>3. \A r \in DOMAIN rows : keys[r] = [k \in DOMAIN items |-> keys[r][k]]
  BY DEF OrderKeys, Grid, ItemExprs
<1> HIDE DEF keys
<1>4. Whole(keys, items, chosen)
  BY <1>2, <1>3 DEF Whole, keys
<1> QED
  BY <1>2, <1>4 DEF keys, Comparable

(* Whether sort keys fail does not depend on the order of the rows. *)
LEMMA SortFails ==
  ASSUME NEW schema, IsSchema(schema), NEW rows \in Seq(RowsOf(schema)), NEW items \in Seq(OrderingItems),
         AcceptsItems(items, schema)
  PROVE  LET keys == OrderKeys(items, schema, rows)
         IN /\ SortFailures(keys, items) = Failures(keys)
            /\ DOMAIN Failures(keys) = DOMAIN rows /\ DOMAIN rows \subseteq Nat
            /\ Fails(Failures(keys)) <=> AnyFails(keys)
            /\ ~ AnyFails(keys) => \A r \in DOMAIN rows : ~ Failed(Failures(keys)[r])
<1> DEFINE keys == OrderKeys(items, schema, rows)
<1>1. OrderGrid(items, schema, rows)
  BY OrderGridFacts
<1>2. /\ SortFailures(keys, items) = Failures(keys)
      /\ DOMAIN keys = DOMAIN rows /\ DOMAIN Failures(keys) = DOMAIN rows
      /\ DOMAIN rows = 1 .. Len(rows) /\ Len(rows) \in Nat
      /\ \A r \in DOMAIN rows : DOMAIN keys[r] = DOMAIN items
  BY <1>1 DEF OrderGrid
<1>3. DOMAIN items \subseteq Nat
  BY ItemFacts
<1> HIDE DEF keys
<1>4. DOMAIN keys \subseteq Nat /\ \A r \in DOMAIN keys : DOMAIN keys[r] \subseteq Nat
  BY <1>2, <1>3
<1>5. Fails(Failures(keys)) <=> AnyFails(keys)
  BY <1>4, GridFails
<1>6. ~ AnyFails(keys) => \A r \in DOMAIN rows : ~ Failed(Failures(keys)[r])
  BY <1>2, <1>5 DEF Fails
<1> QED
  BY <1>2, <1>5, <1>6 DEF keys

(* The numbers of peer groups never fall. *)
LEMMA PeersRise ==
  ASSUME NEW n \in Nat, NEW sorted, DOMAIN sorted = 1 .. n, NEW keys
  PROVE  /\ DOMAIN PeerNumbers(sorted, keys) = 1 .. n
         /\ \A p \in 1 .. n : PeerNumbers(sorted, keys)[p] = Cardinality(PeersUpTo(sorted, keys, p))
         /\ Rising(PeerNumbers(sorted, keys), n)
<1> DEFINE x == PeerNumbers(sorted, keys)
<1>1. DOMAIN x = 1 .. n /\ \A p \in 1 .. n : x[p] = Cardinality(PeersUpTo(sorted, keys, p))
  BY DEF PeerNumbers, PeersUpTo
<1>2. NewPeers(sorted, keys) \subseteq 1 .. n
  BY DEF NewPeers
<1>3. \A p \in 1 .. n : PeersUpTo(sorted, keys, p) \subseteq 1 .. n
  BY <1>2 DEF PeersUpTo
<1>4. \A p \in 1 .. n : IsFiniteSet(PeersUpTo(sorted, keys, p))
  BY <1>3, PositionSets
<1> HIDE DEF x
<1>5. \A p \in 1 .. n : x[p] \in Int
  BY <1>1, <1>4, FS_CardinalityType
<1>6. ASSUME NEW p \in 1 .. n, NEW q \in 1 .. n, p <= q PROVE x[p] <= x[q]
  <2>1. PeersUpTo(sorted, keys, p) \subseteq PeersUpTo(sorted, keys, q)
    <3>1. \A y \in NewPeers(sorted, keys) : y \in 1 .. n
      BY <1>2
    <3> QED
      BY <1>6, <3>1 DEF PeersUpTo
  <2>2. Cardinality(PeersUpTo(sorted, keys, p)) <= Cardinality(PeersUpTo(sorted, keys, q))
    BY <1>4, <2>1, FS_Subset
  <2> QED
    BY <1>1, <2>2
<1>7. Rising(x, n)
  BY <1>5, <1>6 DEF Rising
<1> QED
  BY <1>1, <1>7 DEF x

(* The peer groups of rows sorted for two hosts. *)
Aligned(e, n, f, sorted, keys, far, farKeys) ==
  /\ n \in Nat /\ DOMAIN sorted = 1 .. n /\ DOMAIN far = 1 .. n
  /\ Permutes(e, 1 .. n, 1 .. n) /\ \A k \in 1 .. n : far[e[k]] = f[sorted[k]]
  /\ Moves(e, PeerNumbers(sorted, keys), PeerNumbers(far, farKeys))

(* Each row is taken to one with its key. *)
Finds(f, D, E, keys, farKeys) == Permutes(f, D, E) /\ \A i \in D : farKeys[f[i]] = keys[i]

(* Rows taken to rows of one key keep the number of their peers.          *)
LEMMA PeersMove ==
  ASSUME NEW items, Comparable(items),
         NEW D, D \subseteq Nat, NEW E, E \subseteq Nat, NEW keys, NEW farKeys,
         Whole(keys, items, D), Whole(farKeys, items, E),
         NEW sorted, InOrder(sorted, D, keys, items), NEW far, InOrder(far, E, farKeys, items),
         NEW g, Carried(g, D, E, keys, farKeys),
         NEW f, Finds(f, D, E, keys, farKeys)
  PROVE  \E e, n : Aligned(e, n, f, sorted, keys, far, farKeys)
<1>0. items \in Seq(OrderingItems) /\ \A i \in DOMAIN items : items[i].expr.descriptor \in Descriptors
  BY DEF Comparable
<1>1. PICK n : Lists(sorted, n, D, keys, items)
  BY OrderLists
<1>2. PICK m : Lists(far, m, E, farKeys, items)
  BY OrderLists
<1>3. DOMAIN far = DOMAIN sorted /\ \A k \in DOMAIN sorted : far[k] = g[sorted[k]]
  <2>1. Follows(g, sorted, far)
    BY SortedMoves
  <2> QED
    BY <2>1 DEF Follows
<1>4. /\ n \in Nat /\ DOMAIN sorted = 1 .. n /\ Permutes(sorted, 1 .. n, D)
      /\ m \in Nat /\ DOMAIN far = 1 .. m /\ Permutes(far, 1 .. m, E)
  BY <1>1, <1>2 DEF Lists
<1>5. m = n
  <2>1. Permutes([k \in 1 .. n |-> k], 1 .. n, 1 .. m)
    BY <1>3, <1>4 DEF Permutes
  <2> QED
    BY <1>4, <2>1, MovedLength
<1>6. \A k \in 1 .. n : farKeys[far[k]] = keys[sorted[k]]
  BY <1>3, <1>4 DEF Carried, Permutes
<1>7. NewPeers(far, farKeys) = NewPeers(sorted, keys)
  <2>1. SameKeys(n, sorted, keys, far, farKeys)
    BY <1>4, <1>5, <1>6 DEF SameKeys
  <2> QED
    BY <2>1, SamePeers
<1>8. PICK e : Permutes(e, 1 .. n, 1 .. n) /\ \A k \in 1 .. n : far[e[k]] = f[sorted[k]]
  BY <1>4, <1>5, ListMoves DEF Finds
<1> DEFINE x == PeerNumbers(sorted, keys)
           y == PeerNumbers(far, farKeys)
<1>9. /\ DOMAIN x = 1 .. n /\ DOMAIN y = 1 .. n
      /\ \A p \in 1 .. n : x[p] = Cardinality(PeersUpTo(sorted, keys, p))
      /\ \A p \in 1 .. n : y[p] = Cardinality(PeersUpTo(far, farKeys, p))
  BY <1>4, <1>5, PeersRise
<1> HIDE DEF x, y
<1>10. ASSUME NEW k \in 1 .. n PROVE y[e[k]] = x[k]
  <2>1. sorted[k] \in D /\ e[k] \in 1 .. n
    BY <1>4, <1>8 DEF Permutes
  <2>2. farKeys[far[e[k]]] = farKeys[far[k]]
    BY <1>6, <1>8, <2>1, Zenon DEF Finds
  <2>3. PeersUpTo(far, farKeys, e[k]) = PeersUpTo(far, farKeys, k)
    BY <1>0, <1>2, <1>5, <2>1, <2>2, EqualKeysOnePeer
  <2>4. PeersUpTo(far, farKeys, k) = PeersUpTo(sorted, keys, k)
    BY <1>7 DEF PeersUpTo
  <2> QED
    BY <1>9, <2>1, <2>3, <2>4
<1>11. Moves(e, x, y)
  BY <1>8, <1>9, <1>10 DEF Moves
<1> QED
  BY <1>4, <1>5, <1>8, <1>11 DEF x, y, Aligned

(* What an Order node gives two hosts, and the peer groups of its rows. *)
Lined(e, first, second, x, y) ==
  /\ Moves(e, x, y) /\ DOMAIN x = DOMAIN first.rows /\ DOMAIN y = DOMAIN second.rows
  /\ Rising(x, Len(first.rows)) /\ Rising(y, Len(second.rows))

(* An Order node gives two hosts the same rows and peer groups.           *)
LEMMA OrderMoves ==
  ASSUME NEW node, IsNode(node), node.kind = "order", NEW in, IsSchema(in.schema), AcceptsOrder(node, in),
         NEW a \in Seq(RowsOf(in.schema)), NEW b \in Seq(RowsOf(in.schema)), NEW f, Moves(f, a, b)
  PROVE  \E e : /\ Twins(e, EvaluateOrder(node, in.schema, a), EvaluateOrder(node, in.schema, b))
                /\ EvaluateOrder(node, in.schema, a).failure = Null =>
                     Lined(e, EvaluateOrder(node, in.schema, a), EvaluateOrder(node, in.schema, b),
                           PeerNumbers(OrderIndices(node, in.schema, a),
                                       OrderKeys(node.entries[1].order, in.schema, a)),
                           PeerNumbers(OrderIndices(node, in.schema, b),
                                       OrderKeys(node.entries[1].order, in.schema, b)))
<1> DEFINE items == node.entries[1].order
           ka == OrderKeys(items, in.schema, a)
           kb == OrderKeys(items, in.schema, b)
           sa == OrderIndices(node, in.schema, a)
           sb == OrderIndices(node, in.schema, b)
           first == EvaluateOrder(node, in.schema, a)
           second == EvaluateOrder(node, in.schema, b)
<1>1. items \in Seq(OrderingItems) /\ AcceptsItems(items, in.schema)
  BY OrderItems DEF AcceptsOrder
<1>2. /\ first = Complete(SortFailures(ka, items), Pick(a, sa))
      /\ second = Complete(SortFailures(kb, items), Pick(b, sb))
  BY DEF EvaluateOrder
<1>3. first.failure = Null => /\ first.rows = Pick(a, sa)
                              /\ InOrder(sa, DOMAIN a, ka, items)
  BY OrderGood
<1>4. second.failure = Null => /\ second.rows = Pick(b, sb)
                               /\ InOrder(sb, DOMAIN b, kb, items)
  BY OrderGood
<1>5. PICK g : Carried(g, DOMAIN a, DOMAIN b, ka, kb)
  BY KeysStable
<1>6. Moves(f, ka, kb)
  BY KeysMove DEF OrderKeys
<1>7. DOMAIN ka = DOMAIN a /\ DOMAIN kb = DOMAIN b
  BY DEF OrderKeys, Grid
<1> HIDE DEF items, sa, sb, first, second
<1>8. /\ SortFailures(ka, items) = Failures(ka)
      /\ DOMAIN Failures(ka) = DOMAIN a /\ DOMAIN a \subseteq Nat
      /\ Fails(Failures(ka)) <=> AnyFails(ka)
      /\ ~ AnyFails(ka) => \A r \in DOMAIN a : ~ Failed(Failures(ka)[r])
  BY <1>1, SortFails
<1>9. /\ SortFailures(kb, items) = Failures(kb)
      /\ DOMAIN Failures(kb) = DOMAIN b /\ DOMAIN b \subseteq Nat
      /\ Fails(Failures(kb)) <=> AnyFails(kb)
      /\ ~ AnyFails(kb) => \A r \in DOMAIN b : ~ Failed(Failures(kb)[r])
  BY <1>1, SortFails
<1>10. AnyFails(ka) <=> AnyFails(kb)
  BY <1>6, MovedFails
<1>11. ~ AnyFails(ka) => Whole(ka, items, DOMAIN a) /\ Comparable(items)
  <2> HIDE DEF ka
  <2>1. ASSUME ~ AnyFails(ka) PROVE \A r \in DOMAIN a : ~ Failed(Failures(ka)[r])
    BY <1>8, <2>1
  <2> USE DEF ka
  <2> QED
    BY <1>1, <2>1, WholeKeys
<1>12. ~ AnyFails(kb) => Whole(kb, items, DOMAIN b)
  <2> HIDE DEF kb
  <2>1. ASSUME ~ AnyFails(kb) PROVE \A r \in DOMAIN b : ~ Failed(Failures(kb)[r])
    BY <1>9, <2>1
  <2> USE DEF kb
  <2> QED
    BY <1>1, <2>1, WholeKeys
<1> HIDE DEF ka, kb
<1>13. /\ first.failure = Null <=> ~ AnyFails(ka)
       /\ AnyFails(ka) => first.rows = <<>>
  <2>1. first = Complete(Failures(ka), Pick(a, sa)) /\ DOMAIN Failures(ka) \subseteq Nat
    BY <1>2, <1>8
  <2> QED
    BY <1>8, <2>1, CompleteFails
<1>14. /\ second.failure = Null <=> ~ AnyFails(kb)
       /\ AnyFails(kb) => second.rows = <<>>
  <2>1. second = Complete(Failures(kb), Pick(b, sb)) /\ DOMAIN Failures(kb) \subseteq Nat
    BY <1>2, <1>9
  <2> QED
    BY <1>9, <2>1, CompleteFails
<1> DEFINE x == PeerNumbers(sa, ka)
           y == PeerNumbers(sb, kb)
<1> SUFFICES \E e : Twins(e, first, second) /\ (first.failure = Null => Lined(e, first, second, x, y))
  BY DEF first, second, sa, sb, ka, kb, items
<1>15. CASE AnyFails(ka)
  BY <1>10, <1>13, <1>14, <1>15 DEF Twins
<1>16. CASE ~ AnyFails(ka)
  <2>1. /\ first.rows = Pick(a, sa) /\ InOrder(sa, DOMAIN a, ka, items)
        /\ second.rows = Pick(b, sb) /\ InOrder(sb, DOMAIN b, kb, items)
        /\ Whole(ka, items, DOMAIN a) /\ Whole(kb, items, DOMAIN b)
        /\ Comparable(items)
        /\ first.failure = Null /\ second.failure = Null
    BY <1>3, <1>4, <1>10, <1>11, <1>12, <1>13, <1>14, <1>16
  <2>2. Finds(f, DOMAIN a, DOMAIN b, ka, kb)
    BY <1>6, <1>7 DEF Moves, Finds
  <2>3. PICK e, n : /\ n \in Nat /\ DOMAIN sa = 1 .. n /\ DOMAIN sb = 1 .. n
                    /\ Permutes(e, 1 .. n, 1 .. n) /\ \A k \in 1 .. n : sb[e[k]] = f[sa[k]]
                    /\ Moves(e, x, y)
    <3>1. DOMAIN a \subseteq Nat /\ DOMAIN b \subseteq Nat
      BY <1>8, <1>9
    <3>2. \E e, n : Aligned(e, n, f, sa, ka, sb, kb)
      BY <1>5, <2>1, <2>2, <3>1, PeersMove
    <3> QED
      BY <3>2 DEF Aligned
  <2>4. \A k \in DOMAIN sa : sa[k] \in DOMAIN a
    <3>1. sa \in Seq(DOMAIN a)
      BY <2>1 DEF InOrder
    <3> QED
      BY <3>1
  <2>5. Moves(e, first.rows, second.rows)
    <3>1. Permutes(e, DOMAIN sa, DOMAIN sb) /\ \A k \in DOMAIN sa : sb[e[k]] = f[sa[k]]
      BY <2>3
    <3>2. Moves(e, Pick(a, sa), Pick(b, sb))
      BY <2>4, <3>1, PickMoves
    <3> QED
      BY <2>1, <3>2
  <2>6. /\ DOMAIN first.rows = 1 .. n /\ Len(first.rows) = n
        /\ DOMAIN second.rows = 1 .. n /\ Len(second.rows) = n
    BY <2>1, <2>3 DEF Pick
  <2>7. DOMAIN x = 1 .. n /\ DOMAIN y = 1 .. n /\ Rising(x, n) /\ Rising(y, n)
    BY <2>3, PeersRise
  <2> HIDE DEF x, y
  <2>8. Lined(e, first, second, x, y)
    BY <2>3, <2>6, <2>7 DEF Lined
  <2>9. Twins(e, first, second)
    BY <2>1, <2>5 DEF Twins
  <2> QED
    BY <2>8, <2>9
<1> QED
  BY <1>15, <1>16

(* Ordered rows of two hosts, and the numbers of their peer groups. *)
Moving(e, a, b, x, y) ==
  /\ Moves(e, a, b) /\ Moves(e, x, y) /\ DOMAIN x = DOMAIN a /\ DOMAIN y = DOMAIN b
  /\ Rising(x, Len(a)) /\ Rising(y, Len(b))

Lockstep(a, b, x, y) == \E e : Moving(e, a, b, x, y)

(* What a host is given, and what the other is, of a node that was put. *)
Hosts(first, second, x, y, ordered) ==
  /\ SameOutcome(first, second)
  /\ ordered /\ first.failure = Null => Lockstep(first.rows, second.rows, x, y)

(* Numbers picked in increasing order still never fall. *)
LEMMA PickRises ==
  ASSUME NEW n \in Nat, NEW x, Rising(x, n), NEW I, I \subseteq 1 .. n
  PROVE  Rising(Pick(x, Increasing(I)), Len(Pick(x, Increasing(I))))
<1> DEFINE p == Increasing(I)
           z == Pick(x, p)
<1>1. IsFiniteSet(I) /\ I \subseteq Int
  BY PositionSets
<1>2. Climbs(p, I)
  BY <1>1, IncreasingClimbs
<1> HIDE DEF p
<1> DEFINE m == Cardinality(I)
<1>3. /\ m \in Nat /\ DOMAIN p = 1 .. m /\ \A k \in 1 .. m : p[k] \in I
      /\ \A j, k \in 1 .. m : j < k <=> p[j] < p[k]
  BY <1>2 DEF Climbs
<1> HIDE DEF m
<1>4. DOMAIN z = 1 .. m /\ Len(z) = m /\ \A k \in 1 .. m : z[k] = x[p[k]]
  BY <1>3 DEF Pick
<1> HIDE DEF z
<1>5. ASSUME NEW j \in 1 .. m, NEW k \in 1 .. m, j <= k PROVE z[j] <= z[k]
  <2>1. p[j] <= p[k] /\ p[j] \in 1 .. n /\ p[k] \in 1 .. n
    <3>1. j = k \/ j < k
      BY <1>3, <1>5
    <3>2. p[j] \in Int /\ p[k] \in Int /\ p[j] \in 1 .. n /\ p[k] \in 1 .. n
      BY <1>1, <1>3
    <3>3. j < k => p[j] < p[k]
      BY <1>3
    <3> QED
      BY <3>1, <3>2, <3>3
  <2> QED
    BY <1>4, <2>1 DEF Rising
<1>6. \A k \in 1 .. m : z[k] \in Int
  BY <1>3, <1>4 DEF Rising
<1> QED
  BY <1>4, <1>5, <1>6 DEF Rising, z, p

(* Rows of which a value key is constant among peers stand in one order. *)
LEMMA SameLines ==
  ASSUME NEW schema, NEW a \in Seq(RowsOf(schema)), NEW b \in Seq(RowsOf(schema)), NEW x, NEW y,
         Lockstep(a, b, x, y), NEW fields, ConstantPeers(x, fields, schema, a),
         NEW key, key \subseteq fields, Identifies(key, schema, a)
  PROVE  a = b /\ Len(a) \in Nat /\ DOMAIN x = 1 .. Len(a) /\ DOMAIN y = 1 .. Len(a) /\ Rising(x, Len(a))
         /\ \A k \in 1 .. Len(a) : x[k] = y[k]
<1>1. PICK f : Moving(f, a, b, x, y)
  BY DEF Lockstep
<1> DEFINE n == Len(a)
<1>2. n \in Nat /\ DOMAIN a = 1 .. n /\ Len(b) \in Nat /\ DOMAIN b = 1 .. Len(b)
  OBVIOUS
<1>3. /\ Permutes(f, DOMAIN a, DOMAIN b) /\ \A i \in DOMAIN a : b[f[i]] = a[i] /\ y[f[i]] = x[i]
      /\ DOMAIN x = DOMAIN a /\ DOMAIN y = DOMAIN b /\ Rising(x, Len(a)) /\ Rising(y, Len(b))
  BY <1>1, ZenonT(40) DEF Moving, Moves
<1>4. Len(b) = n
  BY <1>2, <1>3, MovedLength, Zenon
<1>5. ASSUME NEW p \in 1 .. n PROVE x[p] = y[p]
  <2>1. Permutes(f, 1 .. n, 1 .. n) /\ \A i \in 1 .. n : y[f[i]] = x[i]
    BY <1>2, <1>3, <1>4
  <2>2. Rising(x, n) /\ Rising(y, n)
    BY <1>3, <1>4
  <2> QED
    BY <1>2, <2>1, <2>2, RisingEqual
<1>6. ASSUME NEW k \in 1 .. n PROVE a[k] = b[k]
  <2>1. PICK i \in 1 .. n : f[i] = k
    BY <1>2, <1>3, <1>4 DEF Permutes
  <2>2. x[i] = x[k] /\ b[k] = a[i]
    BY <1>2, <1>3, <1>5, <2>1
  <2>3. \A g \in fields : a[i][FieldPosition(schema, g)] = a[k][FieldPosition(schema, g)]
    BY <1>2, <2>2 DEF ConstantPeers
  <2>4. a[i] \in Range(a) /\ a[k] \in Range(a)
    BY <1>2 DEF Range
  <2>5. a[i] = a[k]
    BY <2>3, <2>4 DEF Identifies
  <2> QED
    BY <2>2, <2>5
<1>7. a = b
  BY <1>2, <1>4, <1>6
<1> QED
  BY <1>2, <1>3, <1>4, <1>5, <1>7

(* Rows that stand still. *)
LEMMA StandStill ==
  ASSUME NEW S, NEW a \in Seq(S), NEW x, DOMAIN x = DOMAIN a, Rising(x, Len(a))
  PROVE  Lockstep(a, a, x, x)
<1> DEFINE id == [i \in DOMAIN a |-> i]
<1>1. \A i \in DOMAIN a : id[i] = i
  OBVIOUS
<1> HIDE DEF id
<1>2. Permutes(id, DOMAIN a, DOMAIN a)
  BY <1>1 DEF Permutes
<1>3. Moving(id, a, a, x, x)
  BY <1>1, <1>2 DEF Moving, Moves
<1> QED
  BY <1>3 DEF Lockstep

(* Two lists with the same members can be matched. *)
LEMMA AlikeMoves ==
  ASSUME NEW S, NEW a \in Seq(S), NEW b \in Seq(S), Alike(a, b)
  PROVE  \E f : Moves(f, a, b)
BY StableMove

(* A node whose rows come from those of its input, one from each. *)
LEMMA ProjectHosts ==
  ASSUME NEW node, IsNode(node), node.kind = "project", NEW in, IsSchema(in.schema), AcceptsProject(node, in),
         NEW a \in Seq(RowsOf(in.schema)), NEW b \in Seq(RowsOf(in.schema)), Alike(a, b),
         NEW x, NEW y, in.ordered => Lockstep(a, b, x, y)
  PROVE  Hosts(EvaluateProject(node, in.schema, a), EvaluateProject(node, in.schema, b), x, y, in.ordered)
<1> DEFINE first == EvaluateProject(node, in.schema, a)
           second == EvaluateProject(node, in.schema, b)
           S == RowsOf(ProjectProperties(node, in).schema)
<1>1. first.rows \in Seq(S) /\ second.rows \in Seq(S)
  BY ProjectGood DEF Good
<1>2. /\ first.failure = Null => DOMAIN first.rows = DOMAIN a
      /\ second.failure = Null => DOMAIN second.rows = DOMAIN b
  <2>1. /\ DOMAIN ProjectedRows(node, in, a) = DOMAIN a
        /\ DOMAIN ProjectedRows(node, in, b) = DOMAIN b
    BY DEF ProjectedRows
  <2>2. first.failure = Null => first.rows = ProjectedRows(node, in, a)
    BY ProjectGood DEF ProjectedRows
  <2>3. second.failure = Null => second.rows = ProjectedRows(node, in, b)
    BY ProjectGood DEF ProjectedRows
  <2> QED
    BY <2>1, <2>2, <2>3
<1>3. DOMAIN node.entries \subseteq Nat
  BY NodeFacts
<1>4. ASSUME NEW f, Moves(f, a, b) PROVE Twins(f, first, second)
  BY <1>3, <1>4, ProjectMoves
<1> HIDE DEF first, second, S
<1>5. SameOutcome(first, second)
  <2>1. PICK f : Moves(f, a, b)
    BY AlikeMoves
  <2>2. Twins(f, first, second)
    BY <1>4, <2>1
  <2> QED
    BY <1>1, <2>2, TwinsAgree
<1>6. ASSUME in.ordered, first.failure = Null PROVE Lockstep(first.rows, second.rows, x, y)
  <2>1. PICK e : Moving(e, a, b, x, y)
    BY <1>6 DEF Lockstep
  <2>2. Twins(e, first, second)
    BY <1>4, <2>1 DEF Moving
  <2>3. Moves(e, first.rows, second.rows) /\ second.failure = Null
    BY <1>6, <2>2 DEF Twins
  <2>4. Len(first.rows) = Len(a) /\ Len(second.rows) = Len(b)
    <3>1. /\ DOMAIN first.rows = 1 .. Len(first.rows) /\ Len(first.rows) \in Nat
          /\ DOMAIN second.rows = 1 .. Len(second.rows) /\ Len(second.rows) \in Nat
      BY <1>1
    <3>2. DOMAIN a = 1 .. Len(a) /\ Len(a) \in Nat /\ DOMAIN b = 1 .. Len(b) /\ Len(b) \in Nat
      OBVIOUS
    <3> QED
      BY <1>2, <1>6, <2>3, <3>1, <3>2
  <2>5. Moving(e, first.rows, second.rows, x, y)
    BY <1>2, <1>6, <2>1, <2>3, <2>4 DEF Moving
  <2> QED
    BY <2>5 DEF Lockstep
<1> QED
  BY <1>5, <1>6 DEF Hosts, first, second

(* A Filter node keeps two hosts in step.                                 *)
LEMMA FilterHosts ==
  ASSUME NEW node, IsNode(node), node.kind = "filter", NEW in, IsSchema(in.schema), AcceptsFilter(node, in),
         NEW a \in Seq(RowsOf(in.schema)), NEW b \in Seq(RowsOf(in.schema)), Alike(a, b),
         NEW x, NEW y, in.ordered => Lockstep(a, b, x, y), NEW u, NEW v,
         in.ordered => /\ u = Pick(x, FilterIndices(node, in.schema, a))
                       /\ v = Pick(y, FilterIndices(node, in.schema, b))
  PROVE  Hosts(EvaluateFilter(node, in.schema, a), EvaluateFilter(node, in.schema, b), u, v, in.ordered)
<1> DEFINE first == EvaluateFilter(node, in.schema, a)
           second == EvaluateFilter(node, in.schema, b)
           p == FilterIndices(node, in.schema, a)
           q == FilterIndices(node, in.schema, b)
           I == {i \in DOMAIN a : Evaluate(node.entries[1].args[1], in.schema, a[i]) = True}
           J == {i \in DOMAIN b : Evaluate(node.entries[1].args[1], in.schema, b[i]) = True}
<1>1. first.rows \in Seq(RowsOf(in.schema)) /\ second.rows \in Seq(RowsOf(in.schema))
  BY FilterGood DEF Good
<1>2. /\ first.failure = Null => first.rows = Pick(a, p)
      /\ second.failure = Null => second.rows = Pick(b, q)
  BY FilterGood
<1>3. p = Increasing(I) /\ q = Increasing(J) /\ I \subseteq DOMAIN a /\ J \subseteq DOMAIN b
  BY DEF FilterIndices
<1>4. PICK d \in Nat : DOMAIN node.entries[1].args = 1 .. d
  <2>1. Len(node.entries) = 1
    BY NodeFacts, Zenon DEF HasEntries
  <2>2. node.entries[1] \in Entries
    BY <2>1, NodeFacts
  <2>3. node.entries[1].args \in Seq(Expressions)
    BY <2>2, EntryFacts
  <2> QED
    BY <2>3
<1>5. \A f : Moves(f, a, b) =>
        \E e : /\ Twins(e, first, second)
               /\ \A s, t : Moves(f, s, t) /\ DOMAIN s = DOMAIN a => Moves(e, Pick(s, p), Pick(t, q))
  BY <1>4, FilterMoves
<1> HIDE DEF first, second, p, q, I, J
<1>6. SameOutcome(first, second)
  <2>1. PICK f : Moves(f, a, b)
    BY AlikeMoves
  <2>2. PICK e : Twins(e, first, second)
    BY <1>5, <2>1
  <2> QED
    BY <1>1, <2>2, TwinsAgree
<1>7. ASSUME in.ordered, first.failure = Null PROVE Lockstep(first.rows, second.rows, u, v)
  <2>1. PICK f : Moving(f, a, b, x, y)
    BY <1>7 DEF Lockstep
  <2>2. /\ Moves(f, a, b) /\ Moves(f, x, y) /\ DOMAIN x = DOMAIN a /\ DOMAIN y = DOMAIN b
        /\ Rising(x, Len(a)) /\ Rising(y, Len(b))
    BY <2>1 DEF Moving
  <2>3. PICK e : Twins(e, first, second) /\ Moves(e, Pick(x, p), Pick(y, q))
    BY <1>5, <2>2
  <2>4. Moves(e, first.rows, second.rows) /\ second.failure = Null
    BY <1>7, <2>3 DEF Twins
  <2>5. u = Pick(x, p) /\ v = Pick(y, q)
    BY <1>7 DEF p, q
  <2>6. first.rows = Pick(a, p) /\ second.rows = Pick(b, q)
    BY <1>2, <1>7, <2>4
  <2>7. DOMAIN u = DOMAIN first.rows /\ DOMAIN v = DOMAIN second.rows
    BY <2>5, <2>6 DEF Pick
  <2>8. Len(a) \in Nat /\ DOMAIN a = 1 .. Len(a) /\ Len(b) \in Nat /\ DOMAIN b = 1 .. Len(b)
    OBVIOUS
  <2>9. Rising(u, Len(u)) /\ Rising(v, Len(v))
    <3>1. Rising(u, Len(u))
      BY <1>3, <2>2, <2>5, <2>8, PickRises
    <3>2. Rising(v, Len(v))
      BY <1>3, <2>2, <2>5, <2>8, PickRises
    <3> QED
      BY <3>1, <3>2
  <2>10. Len(u) = Len(first.rows) /\ Len(v) = Len(second.rows)
    <3>1. p \in Seq(DOMAIN a) /\ q \in Seq(DOMAIN b)
      BY <1>3, SelectionFacts
    <3>2. DOMAIN p = 1 .. Len(p) /\ Len(p) \in Nat /\ DOMAIN q = 1 .. Len(q) /\ Len(q) \in Nat
      BY <3>1
    <3> QED
      BY <2>5, <2>6, <3>2 DEF Pick
  <2>11. Moving(e, first.rows, second.rows, u, v)
    BY <2>3, <2>4, <2>5, <2>7, <2>9, <2>10 DEF Moving
  <2> QED
    BY <2>11 DEF Lockstep
<1> QED
  BY <1>6, <1>7 DEF Hosts, first, second

(* A Slice node chooses the same rows for two hosts.                      *)
LEMMA SliceHosts ==
  ASSUME NEW node, NEW in, AcceptsSlice(node, in),
         NEW a \in Seq(RowsOf(in.schema)), NEW b \in Seq(RowsOf(in.schema)),
         NEW x, NEW y, Lockstep(a, b, x, y), ConstantPeers(x, in.peerConstant, in.schema, a),
         \A key \in in.valueKeys : Identifies(key, in.schema, a), NEW u, NEW v,
         u = Pick(x, SliceIndices(node, Len(a))), v = Pick(y, SliceIndices(node, Len(b)))
  PROVE  Hosts(EvaluateSlice(node, a), EvaluateSlice(node, b), u, v, in.ordered)
<1>1. PICK key \in in.valueKeys : key \subseteq in.peerConstant
  BY DEF AcceptsSlice, Subsumes
<1>2. Identifies(key, in.schema, a)
  OBVIOUS
<1>3. a = b /\ Len(a) \in Nat /\ DOMAIN x = 1 .. Len(a) /\ DOMAIN y = 1 .. Len(a) /\ Rising(x, Len(a))
      /\ \A k \in 1 .. Len(a) : x[k] = y[k]
  BY <1>1, <1>2, SameLines
<1> DEFINE out == EvaluateSlice(node, a)
           p == SliceIndices(node, Len(a))
           I == {i \in 1 .. Len(a) : /\ i > node.bounds[1]
                                     /\ Len(node.bounds) > 1 => i <= node.bounds[1] + node.bounds[2]}
<1>4. out.rows = Pick(a, p) /\ p \in Seq(DOMAIN a) /\ p = Increasing(I)
  BY SliceGood DEF SliceIndices
<1>5. out.rows \in Seq(RowsOf(in.schema))
  BY SliceGood DEF Good
<1>6. I \subseteq 1 .. Len(a)
  OBVIOUS
<1> HIDE DEF out, p, I
<1>7. DOMAIN p = 1 .. Len(p) /\ Len(p) \in Nat /\ \A k \in DOMAIN p : p[k] \in 1 .. Len(a)
  <2>1. DOMAIN p = 1 .. Len(p) /\ Len(p) \in Nat /\ DOMAIN a = 1 .. Len(a)
    BY <1>4
  <2>2. \A k \in DOMAIN p : p[k] \in DOMAIN a
    BY <1>4, Members
  <2> QED
    BY <2>1, <2>2
<1>8. u = Pick(x, p) /\ v = Pick(y, p)
  BY <1>3 DEF p
<1>9. u = v
  BY <1>3, <1>7, <1>8 DEF Pick
<1>10. Rising(u, Len(u))
  BY <1>3, <1>4, <1>6, <1>8, PickRises
<1>11. DOMAIN u = DOMAIN out.rows /\ Len(u) = Len(out.rows)
  BY <1>4, <1>7, <1>8 DEF Pick
<1>12. Lockstep(out.rows, out.rows, u, u)
  BY <1>5, <1>10, <1>11, StandStill
<1>13. SameOutcome(out, out)
  BY DEF SameOutcome, Alike
<1> QED
  BY <1>3, <1>9, <1>12, <1>13 DEF Hosts, out

(* An Order node puts two hosts in step.                                  *)
LEMMA OrderHosts ==
  ASSUME NEW node, IsNode(node), node.kind = "order", NEW in, IsSchema(in.schema), AcceptsOrder(node, in),
         NEW a \in Seq(RowsOf(in.schema)), NEW b \in Seq(RowsOf(in.schema)), Alike(a, b), NEW u, NEW v,
         /\ EvaluateOrder(node, in.schema, a).failure = Null
         /\ EvaluateOrder(node, in.schema, b).failure = Null
         => /\ u = PeerNumbers(OrderIndices(node, in.schema, a), OrderKeys(node.entries[1].order, in.schema, a))
            /\ v = PeerNumbers(OrderIndices(node, in.schema, b), OrderKeys(node.entries[1].order, in.schema, b))
  PROVE  Hosts(EvaluateOrder(node, in.schema, a), EvaluateOrder(node, in.schema, b), u, v, TRUE)
<1> DEFINE first == EvaluateOrder(node, in.schema, a)
           second == EvaluateOrder(node, in.schema, b)
           x == PeerNumbers(OrderIndices(node, in.schema, a), OrderKeys(node.entries[1].order, in.schema, a))
           y == PeerNumbers(OrderIndices(node, in.schema, b), OrderKeys(node.entries[1].order, in.schema, b))
<1>1. PICK f : Moves(f, a, b)
  BY AlikeMoves
<1>2. PICK e : Twins(e, first, second) /\ (first.failure = Null => Lined(e, first, second, x, y))
  BY <1>1, OrderMoves
<1>3. first.rows \in Seq(RowsOf(in.schema))
  BY OrderGood DEF Good
<1>4. first.failure = Null /\ second.failure = Null => u = x /\ v = y
  OBVIOUS
<1> HIDE DEF first, second, x, y
<1>5. SameOutcome(first, second)
  BY <1>2, <1>3, TwinsAgree
<1>6. ASSUME first.failure = Null PROVE Lockstep(first.rows, second.rows, u, v)
  <2>1. Moves(e, first.rows, second.rows) /\ second.failure = Null /\ Lined(e, first, second, x, y)
    BY <1>2, <1>6 DEF Twins
  <2>2. u = x /\ v = y
    BY <1>4, <1>6, <2>1
  <2>3. Moving(e, first.rows, second.rows, u, v)
    BY <2>1, <2>2 DEF Moving, Lined
  <2> QED
    BY <2>3 DEF Lockstep
<1> QED
  BY <1>5, <1>6 DEF Hosts, first, second

(* The rows with the key of row r. *)
Fellows(keys, n, r) == {j \in 1 .. n : keys[j] = keys[r]}

(* The partition of a row has the rows with its key.                      *)
LEMMA GroupOfIs ==
  ASSUME NEW n \in Nat, NEW keys, NEW groups, Divides(groups, keys, n), NEW r \in 1 .. n
  PROVE  /\ GroupOf(groups, r) \in DOMAIN groups
         /\ groups[GroupOf(groups, r)] \in Seq(1 .. n)
         /\ keys[groups[GroupOf(groups, r)][1]] = keys[r]
         /\ Range(groups[GroupOf(groups, r)]) = Fellows(keys, n, r)
<1> DEFINE g == GroupOf(groups, r)
<1>1. g \in DOMAIN groups /\ r \in Range(groups[g])
  BY GroupOfFacts
<1> HIDE DEF g
<1>2. Range(groups[g]) = {j \in 1 .. n : keys[j] = keys[groups[g][1]]}
  BY Zenon, <1>1 DEF Divides
<1>3. groups[g] \in Seq(1 .. n)
  BY Zenon, <1>1 DEF Divides
<1>4. keys[r] = keys[groups[g][1]]
  BY <1>1, <1>2
<1>5. Range(groups[g]) = Fellows(keys, n, r)
  BY <1>2, <1>4 DEF Fellows
<1> QED
  BY <1>1, <1>3, <1>4, <1>5 DEF g

(* The rows of a partition move to the rows of a partition. *)
LEMMA PartitionMoves ==
  ASSUME NEW n \in Nat, NEW x, NEW y, NEW f, KeysMoved(f, x, y, n), NEW r \in 1 .. n
  PROVE  f[r] \in 1 .. n /\ Permutes(f, Fellows(x, n, r), Fellows(y, n, f[r]))
<1>1. /\ \A i \in 1 .. n : f[i] \in 1 .. n /\ y[f[i]] = x[i]
      /\ \A i, j \in 1 .. n : f[i] = f[j] => i = j
      /\ \A k \in 1 .. n : \E i \in 1 .. n : f[i] = k
  BY DEF KeysMoved, Permutes
<1> DEFINE T == Fellows(x, n, r)
           U == Fellows(y, n, f[r])
<1>2. \A j : j \in T <=> j \in 1 .. n /\ x[j] = x[r]
  BY DEF Fellows
<1>3. \A j : j \in U <=> j \in 1 .. n /\ y[j] = x[r]
  BY <1>1 DEF Fellows
<1> HIDE DEF T, U
<1>4. \A i \in T : f[i] \in U
  BY <1>1, <1>2, <1>3
<1>5. \A i, j \in T : f[i] = f[j] => i = j
  BY <1>1, <1>2
<1>6. ASSUME NEW k \in U PROVE \E i \in T : f[i] = k
  <2>1. k \in 1 .. n /\ y[k] = x[r]
    BY <1>3
  <2>2. PICK i \in 1 .. n : f[i] = k
    BY <1>1, <2>1
  <2>3. x[i] = x[r]
    BY <1>1, <2>1, <2>2
  <2> QED
    BY <1>2, <2>2, <2>3
<1> QED
  BY <1>1, <1>4, <1>5, <1>6 DEF Permutes, T, U

(* The partition keys of rows that moved. *)
LEMMA PartitionKeys ==
  ASSUME NEW exprs, NEW schema, NEW S, NEW a \in Seq(S), NEW b \in Seq(S), NEW f, Moves(f, a, b)
  PROVE  /\ Len(a) \in Nat /\ DOMAIN a = 1 .. Len(a) /\ Len(b) = Len(a) /\ DOMAIN b = 1 .. Len(a)
         /\ KeysMoved(f, Grid(exprs, schema, a), Grid(exprs, schema, b), Len(a))
<1> DEFINE n == Len(a)
           x == Grid(exprs, schema, a)
           y == Grid(exprs, schema, b)
<1>1. n \in Nat /\ DOMAIN a = 1 .. n /\ Len(b) \in Nat /\ DOMAIN b = 1 .. Len(b)
  OBVIOUS
<1>2. Permutes(f, 1 .. n, 1 .. Len(b))
  <2>1. Permutes(f, DOMAIN a, DOMAIN b)
    BY Zenon DEF Moves
  <2> HIDE DEF n
  <2> QED
    BY <1>1, <2>1, Zenon
<1>3. Len(b) = n
  BY <1>1, <1>2, MovedLength, Zenon
<1>4. Moves(f, x, y) /\ DOMAIN x = DOMAIN a
  BY KeysMove DEF Grid
<1> HIDE DEF x, y
<1>5. KeysMoved(f, x, y, n)
  BY <1>1, <1>2, <1>3, <1>4 DEF Moves, KeysMoved
<1> QED
  BY <1>1, <1>3, <1>5 DEF x, y

(* An aggregate over partitions. *)
LEMMA AggregateColumnSame ==
  ASSUME NEW in, IsSchema(in.schema), NEW entry, WindowEntry(entry, in), entry.function \notin Rankings,
         NEW a \in Seq(RowsOf(in.schema)), NEW b \in Seq(RowsOf(in.schema)), NEW f, Moves(f, a, b),
         NEW r \in DOMAIN a
  PROVE  SameResult(AggregateColumn(entry, in.schema, a)[r], AggregateColumn(entry, in.schema, b)[f[r]])
<1> DEFINE n == Len(a)
           x == Grid(entry.partition, in.schema, a)
           y == Grid(entry.partition, in.schema, b)
           c == Partitions(entry, in.schema, a)
           d == Partitions(entry, in.schema, b)
           g == GroupOf(c, r)
           h == GroupOf(d, f[r])
<1>1. /\ n \in Nat /\ DOMAIN a = 1 .. n /\ Len(b) = n /\ DOMAIN b = 1 .. n
      /\ KeysMoved(f, x, y, n)
  BY PartitionKeys
<1>2. Divides(c, x, n) /\ Divides(d, y, n)
  <2>1. Divides(c, x, Len(a))
    BY PartitionFacts
  <2>2. Divides(d, y, Len(b))
    BY PartitionFacts
  <2> QED
    BY <1>1, <2>1, <2>2
<1>3. /\ AggregateColumn(entry, in.schema, a) = [i \in DOMAIN a |-> AggregateOf(entry, in.schema, a, c[GroupOf(c, i)])]
         \/ \E i \in DOMAIN a : GroupOf(c, i) \notin DOMAIN c
      /\ AggregateColumn(entry, in.schema, b) = [i \in DOMAIN b |-> AggregateOf(entry, in.schema, b, d[GroupOf(d, i)])]
         \/ \E i \in DOMAIN b : GroupOf(d, i) \notin DOMAIN d
  BY DEF AggregateColumn, Aggregates
<1> HIDE DEF x, y, c, d
<1>4. \A i \in DOMAIN a : GroupOf(c, i) \in DOMAIN c
  BY <1>1, <1>2, GroupOfFacts
<1>5. \A i \in DOMAIN b : GroupOf(d, i) \in DOMAIN d
  BY <1>1, <1>2, GroupOfFacts
<1>6. f[r] \in DOMAIN b /\ y[f[r]] = x[r]
  BY <1>1 DEF KeysMoved, Permutes
<1>7. /\ AggregateColumn(entry, in.schema, a)[r] = AggregateOf(entry, in.schema, a, c[g])
      /\ AggregateColumn(entry, in.schema, b)[f[r]] = AggregateOf(entry, in.schema, b, d[h])
  BY <1>3, <1>4, <1>5, <1>6
<1>8. g \in DOMAIN c /\ c[g] \in Seq(1 .. n) /\ x[c[g][1]] = x[r]
  <2>1. r \in 1 .. n /\ n \in Nat /\ Divides(c, x, n)
    BY <1>1, <1>2
  <2> HIDE DEF n
  <2> QED
    BY <2>1, GroupOfIs
<1>9. h \in DOMAIN d /\ d[h] \in Seq(1 .. n) /\ y[d[h][1]] = y[f[r]]
  <2>1. f[r] \in 1 .. n
    BY <1>1, <1>6
  <2> HIDE DEF n
  <2>2. ASSUME NEW k \in 1 .. n
        PROVE  /\ GroupOf(d, k) \in DOMAIN d /\ d[GroupOf(d, k)] \in Seq(1 .. n)
               /\ y[d[GroupOf(d, k)][1]] = y[k]
    BY <1>1, <1>2, GroupOfIs
  <2> QED
    BY <2>1, <2>2
<1> HIDE DEF g, h
<1>10. x[c[g][1]] = y[d[h][1]]
  BY <1>6, <1>8, <1>9
<1>11. PICK e : GroupMove(e, f, c[g], d[h])
  BY <1>1, <1>2, <1>8, <1>9, <1>10, GroupMoves
<1>12. Permutes(e, DOMAIN c[g], DOMAIN d[h]) /\ \A k \in DOMAIN c[g] : d[h][e[k]] = f[c[g][k]]
  BY <1>11 DEF GroupMove
<1>13. entry \in Entries /\ entry.function \in AggregateFunctions /\ EntryDescriptor(entry, in.schema) # Invalid
  BY DEF WindowEntry
<1> DEFINE p == c[g]
           q == d[h]
<1>14. p \in Seq(DOMAIN a) /\ q \in Seq(DOMAIN b) /\ Permutes(e, DOMAIN p, DOMAIN q)
       /\ \A k \in DOMAIN p : q[e[k]] = f[p[k]]
  BY <1>1, <1>8, <1>9, <1>12
<1> HIDE DEF p, q, n
<1>15. SameResult(AggregateOf(entry, in.schema, a, p), AggregateOf(entry, in.schema, b, q))
  BY <1>13, <1>14, AggregateOfSame
<1> QED
  BY <1>7, <1>15 DEF p, q

(* The rank of a row, from its place among the sorted rows. *)
LEMMA RankAt ==
  ASSUME NEW n, NEW chosen, NEW keys, NEW items, NEW sorted, Lists(sorted, n, chosen, keys, items),
         NEW r \in chosen, NEW function
  PROVE  \E p \in 1 .. n : /\ sorted[p] = r
                           /\ RankOf(r, function, sorted, keys)
                                = Checked(RankingValue(function, p, NewPeers(sorted, keys)))
<1> DEFINE p == CHOOSE k \in DOMAIN sorted : sorted[k] = r
<1>1. DOMAIN sorted = 1 .. n /\ \E k \in 1 .. n : sorted[k] = r
  BY DEF Lists, Permutes
<1>2. p \in 1 .. n /\ sorted[p] = r
  BY <1>1
<1>3. RankOf(r, function, sorted, keys) = Checked(RankingValue(function, p, NewPeers(sorted, keys)))
  BY DEF RankOf
<1> QED
  BY <1>2, <1>3

(* A ranking depends on the peers up to a place, ROW_NUMBER on the place. *)
LEMMA RankingSame ==
  ASSUME NEW function \in Rankings, NEW sorted, NEW keys, NEW far, NEW farKeys, NEW p, NEW q,
         PeersUpTo(sorted, keys, p) = PeersUpTo(far, farKeys, q), function = "row_number" => p = q
  PROVE  RankingValue(function, p, NewPeers(sorted, keys)) = RankingValue(function, q, NewPeers(far, farKeys))
<1>1. CASE function = "row_number"
  BY <1>1 DEF RankingValue
<1>2. CASE function = "rank"
  BY <1>2 DEF RankingValue, PeersUpTo
<1>3. CASE function = "dense_rank"
  BY <1>3 DEF RankingValue, PeersUpTo
<1> QED
  BY <1>1, <1>2, <1>3 DEF Rankings

(* Rows with one key, in partitions that correspond. *)
Paired(function, D, E, g, u, v, r, t) ==
  r \in D /\ t \in E /\ v[t] = u[r] /\ (function = "row_number" => t = g[r])

(* The sorted rows of a partition. *)
Ordered(sorted, chosen, keys, items) ==
  chosen \subseteq Nat /\ Whole(keys, items, chosen) /\ InOrder(sorted, chosen, keys, items)

(* Two rows with one key have one rank in partitions that correspond. *)
LEMMA RankSame ==
  ASSUME NEW function \in Rankings, NEW items, Comparable(items), NEW D, NEW E, NEW keys, NEW farKeys,
         NEW sorted, Ordered(sorted, D, keys, items), NEW far, Ordered(far, E, farKeys, items),
         NEW g, Carried(g, D, E, keys, farKeys),
         NEW r, NEW t, Paired(function, D, E, g, keys, farKeys, r, t)
  PROVE  RankOf(r, function, sorted, keys) = RankOf(t, function, far, farKeys)
<1>p. /\ r \in D /\ t \in E /\ farKeys[t] = keys[r] /\ (function = "row_number" => t = g[r])
      /\ D \subseteq Nat /\ Whole(keys, items, D) /\ InOrder(sorted, D, keys, items)
      /\ E \subseteq Nat /\ Whole(farKeys, items, E) /\ InOrder(far, E, farKeys, items)
  BY DEF Paired, Ordered
<1>0. items \in Seq(OrderingItems) /\ \A i \in DOMAIN items : items[i].expr.descriptor \in Descriptors
  BY DEF Comparable
<1>1. PICK n : Lists(sorted, n, D, keys, items)
  BY <1>p, OrderLists
<1>2. PICK m : Lists(far, m, E, farKeys, items)
  BY <1>p, OrderLists
<1>3. DOMAIN far = DOMAIN sorted /\ \A k \in DOMAIN sorted : far[k] = g[sorted[k]]
  <2>1. Follows(g, sorted, far)
    BY <1>p, SortedMoves
  <2> QED
    BY <2>1 DEF Follows
<1>4. /\ n \in Nat /\ DOMAIN sorted = 1 .. n /\ Permutes(sorted, 1 .. n, D)
      /\ m \in Nat /\ DOMAIN far = 1 .. m /\ Permutes(far, 1 .. m, E)
  BY <1>1, <1>2 DEF Lists
<1>5. m = n
  <2>1. Permutes([k \in 1 .. n |-> k], 1 .. n, 1 .. m)
    BY <1>3, <1>4 DEF Permutes
  <2> QED
    BY <1>4, <2>1, MovedLength
<1>6. \A k \in 1 .. n : farKeys[far[k]] = keys[sorted[k]]
  BY <1>3, <1>4 DEF Carried, Permutes
<1>7. NewPeers(far, farKeys) = NewPeers(sorted, keys)
  <2>1. SameKeys(n, sorted, keys, far, farKeys)
    BY <1>4, <1>5, <1>6 DEF SameKeys
  <2> QED
    BY <2>1, SamePeers
<1>8. PICK p \in 1 .. n : /\ sorted[p] = r
                          /\ RankOf(r, function, sorted, keys)
                               = Checked(RankingValue(function, p, NewPeers(sorted, keys)))
  BY <1>1, <1>p, RankAt
<1>9. PICK q \in 1 .. n : /\ far[q] = t
                          /\ RankOf(t, function, far, farKeys)
                               = Checked(RankingValue(function, q, NewPeers(far, farKeys)))
  BY <1>2, <1>5, <1>p, RankAt
<1>10. PeersUpTo(far, farKeys, q) = PeersUpTo(far, farKeys, p)
  <2>1. farKeys[far[q]] = farKeys[far[p]]
    BY <1>6, <1>8, <1>9, <1>p
  <2> QED
    BY <1>0, <1>2, <1>5, <1>p, <2>1, EqualKeysOnePeer
<1>11. PeersUpTo(far, farKeys, p) = PeersUpTo(sorted, keys, p)
  BY <1>7 DEF PeersUpTo
<1>12. function = "row_number" => p = q
  <2>1. ASSUME function = "row_number" PROVE p = q
    <3>1. far[q] = far[p]
      BY <1>3, <1>4, <1>8, <1>9, <1>p, <2>1
    <3> QED
      BY <1>4, <1>5, <3>1 DEF Permutes
  <2> QED
    BY <2>1
<1>13. RankingValue(function, p, NewPeers(sorted, keys)) = RankingValue(function, q, NewPeers(far, farKeys))
  BY <1>10, <1>11, <1>12, RankingSame
<1> QED
  BY <1>8, <1>9, <1>13

(* The rows of a partition, those with one sort key in the order they had. *)
LEMMA PartitionStable ==
  ASSUME NEW n \in Nat, NEW x, NEW y, NEW u, NEW v, NEW f, KeysMoved(f, x, y, n), KeysMoved(f, u, v, n),
         NEW r \in 1 .. n
  PROVE  \E g : Carried(g, Fellows(x, n, r), Fellows(y, n, f[r]), u, v)
<1> DEFINE a == [i \in 1 .. n |-> <<x[i], u[i]>>]
           b == [i \in 1 .. n |-> <<y[i], v[i]>>]
           S == {<<x[i], u[i]>> : i \in 1 .. n}
           T == {<<y[i], v[i]>> : i \in 1 .. n}
<1>1. /\ \A i \in 1 .. n : f[i] \in 1 .. n /\ y[f[i]] = x[i] /\ v[f[i]] = u[i]
      /\ Permutes(f, 1 .. n, 1 .. n)
  BY DEF KeysMoved, Permutes
<1>2. /\ a \in Seq(S) /\ b \in Seq(T) /\ DOMAIN a = 1 .. n /\ DOMAIN b = 1 .. n
      /\ \A i \in 1 .. n : a[i] = <<x[i], u[i]>> /\ b[i] = <<y[i], v[i]>>
  <2>1. /\ a = [i \in 1 .. n |-> a[i]] /\ \A i \in 1 .. n : a[i] = <<x[i], u[i]>>
        /\ b = [i \in 1 .. n |-> b[i]] /\ \A i \in 1 .. n : b[i] = <<y[i], v[i]>>
    OBVIOUS
  <2> HIDE DEF a, b
  <2>2. \A i \in 1 .. n : a[i] \in S /\ b[i] \in T
    BY <2>1
  <2> HIDE DEF S, T
  <2>3. a \in [1 .. n -> S] /\ b \in [1 .. n -> T]
    BY <2>1, <2>2
  <2> QED
    BY <2>1, <2>3
<1> HIDE DEF a, b, S, T
<1>3. Moves(f, a, b)
  <2>1. ASSUME NEW i \in 1 .. n PROVE b[f[i]] = a[i]
    <3>1. b[f[i]] = <<y[f[i]], v[f[i]]>> /\ a[i] = <<x[i], u[i]>>
      BY <1>1, <1>2
    <3> QED
      BY <1>1, <3>1
  <2> QED
    BY <1>1, <1>2, <2>1 DEF Moves
<1>4. Alike(a, b)
  BY <1>2, <1>3, MovedCopies
<1>5. PICK g : Moves(g, a, b) /\ \A i, j \in DOMAIN a : a[i] = a[j] /\ i < j => g[i] < g[j]
  BY <1>2, <1>4, StableMove
<1>6. Permutes(g, 1 .. n, 1 .. n) /\ \A i \in 1 .. n : y[g[i]] = x[i] /\ v[g[i]] = u[i]
  <2>1. Permutes(g, 1 .. n, 1 .. n) /\ \A i \in 1 .. n : b[g[i]] = a[i]
    BY <1>2, <1>5 DEF Moves
  <2>2. ASSUME NEW i \in 1 .. n PROVE y[g[i]] = x[i] /\ v[g[i]] = u[i]
    <3>1. g[i] \in 1 .. n
      BY <2>1 DEF Permutes
    <3>2. b[g[i]] = <<y[g[i]], v[g[i]]>> /\ a[i] = <<x[i], u[i]>>
      BY <1>2, <3>1
    <3>3. <<y[g[i]], v[g[i]]>> = <<x[i], u[i]>>
      BY <2>1, <3>2
    <3> QED
      BY <3>3
  <2> QED
    BY <2>1, <2>2
<1>7. KeysMoved(g, x, y, n)
  BY <1>6 DEF KeysMoved
<1>8. Permutes(g, Fellows(x, n, r), Fellows(y, n, g[r]))
  BY <1>7, PartitionMoves
<1>9. Fellows(y, n, g[r]) = Fellows(y, n, f[r])
  BY <1>1, <1>6 DEF Fellows
<1>10. ASSUME NEW i \in Fellows(x, n, r), NEW j \in Fellows(x, n, r), u[i] = u[j], i < j
       PROVE  g[i] < g[j]
  <2>1. i \in 1 .. n /\ j \in 1 .. n /\ x[i] = x[j]
    BY DEF Fellows
  <2>2. a[i] = a[j]
    BY <1>2, <1>10, <2>1
  <2> QED
    BY <1>2, <1>5, <1>10, <2>1, <2>2
<1>11. \A i \in Fellows(x, n, r) : v[g[i]] = u[i]
  BY <1>6 DEF Fellows
<1>12. Carried(g, Fellows(x, n, r), Fellows(y, n, f[r]), u, v)
  BY <1>8, <1>9, <1>10, <1>11 DEF Carried
<1> QED
  BY <1>12

(* How a ranking is computed for a row. *)
RankedAt(entry, schema, rows, r) ==
  LET keys   == OrderKeys(entry.order, schema, rows)
      chosen == Fellows(Grid(entry.partition, schema, rows), Len(rows), r)
      sorted == Sorted(chosen, keys, entry.order)
  IN /\ r \in chosen /\ chosen \subseteq Nat
     /\ RankingColumn(entry, schema, rows)[r] = RankOf(r, entry.function, sorted, keys)
     /\ InOrder(sorted, chosen, keys, entry.order)
     /\ Whole(keys, entry.order, chosen) /\ Comparable(entry.order)

(* A ranking, when no sort key fails.                                     *)
LEMMA RankingAt ==
  ASSUME NEW in, IsSchema(in.schema), NEW rows \in Seq(RowsOf(in.schema)),
         NEW entry, WindowEntry(entry, in), entry.function \in Rankings,
         \A r \in DOMAIN rows : ~ Failed(Failures(OrderKeys(entry.order, in.schema, rows))[r]),
         NEW r \in DOMAIN rows
  PROVE  RankedAt(entry, in.schema, rows, r)
<1> DEFINE keys == OrderKeys(entry.order, in.schema, rows)
           groups == Partitions(entry, in.schema, rows)
           grid == Grid(entry.partition, in.schema, rows)
           chosen == Fellows(grid, Len(rows), r)
           sorted == Sorted(chosen, keys, entry.order)
<1>1. DOMAIN rows = 1 .. Len(rows) /\ Len(rows) \in Nat
  OBVIOUS
<1>2. Divides(groups, grid, Len(rows))
  BY PartitionFacts
<1>3. entry.order \in Seq(OrderingItems) /\ AcceptsItems(entry.order, in.schema)
  BY EntryFacts DEF WindowEntry
<1>4. GroupOf(groups, r) \in DOMAIN groups /\ Range(groups[GroupOf(groups, r)]) = chosen
  <2> HIDE DEF groups, grid
  <2>1. r \in 1 .. Len(rows)
    BY <1>1
  <2> QED
    BY <1>1, <1>2, <2>1, GroupOfIs
<1>5. RankingColumn(entry, in.schema, rows)[r] = RankOf(r, entry.function, sorted, keys)
  <2>1. RankingColumn(entry, in.schema, rows)[r]
          = RankOf(r, entry.function, Sorted(Range(groups[GroupOf(groups, r)]), keys, entry.order), keys)
    BY <1>4 DEF RankingColumn, Ranks
  <2> QED
    BY <1>4, <2>1
<1>6. r \in chosen /\ chosen \subseteq DOMAIN rows /\ chosen \subseteq Nat
  BY <1>1 DEF Fellows
<1> HIDE DEF chosen
<1>7. InOrder(Sorted(chosen, keys, entry.order), chosen, keys, entry.order)
  BY <1>3, <1>6, SortedFacts
<1>8. Whole(keys, entry.order, chosen) /\ Comparable(entry.order)
  BY <1>3, <1>6, WholeKeys
<1> QED
  BY <1>5, <1>6, <1>7, <1>8 DEF RankedAt, chosen

(* Rows that are the same stay in the order they had. *)
Stable(f, a) == \A i, j \in DOMAIN a : a[i] = a[j] /\ i < j => f[i] < f[j]

(* Rows with one sort key are one row. *)
KeysTell(u, a) == \A i, j \in DOMAIN a : u[i] = u[j] => a[i] = a[j]

(* The rows of a partition, when one sort key is one row.                 *)
LEMMA StableCarried ==
  ASSUME NEW n \in Nat, NEW a, DOMAIN a = 1 .. n, NEW f, Stable(f, a), NEW x, NEW y, NEW u, NEW v,
         KeysMoved(f, x, y, n), KeysMoved(f, u, v, n), KeysTell(u, a), NEW r \in 1 .. n
  PROVE  Carried(f, Fellows(x, n, r), Fellows(y, n, f[r]), u, v)
<1>1. Permutes(f, Fellows(x, n, r), Fellows(y, n, f[r]))
  BY PartitionMoves
<1>2. \A i \in Fellows(x, n, r) : i \in 1 .. n
  BY DEF Fellows
<1>3. \A i \in Fellows(x, n, r) : v[f[i]] = u[i]
  BY <1>2 DEF KeysMoved
<1>4. \A i, j \in Fellows(x, n, r) : u[i] = u[j] /\ i < j => f[i] < f[j]
  BY <1>2 DEF Stable, KeysTell
<1> QED
  BY <1>1, <1>3, <1>4 DEF Carried

(* ROW_NUMBER is accepted where the items it sorts by hold a value key. *)
LEMMA RowNumberKeys ==
  ASSUME NEW in, IsSchema(in.schema), NEW a \in Seq(RowsOf(in.schema)),
         \A key \in in.valueKeys : Identifies(key, in.schema, a),
         NEW entry, WindowEntry(entry, in), AcceptsRanking(entry, in), entry.function = "row_number"
  PROVE  KeysTell(OrderKeys(entry.order, in.schema, a), a)
<1> DEFINE items == entry.order
           keys == OrderKeys(items, in.schema, a)
<1>1. items \in Seq(OrderingItems) /\ AcceptsItems(items, in.schema)
  BY EntryFacts DEF WindowEntry, AcceptsRanking
<1>2. PICK key \in in.valueKeys : key \subseteq ItemFields(items)
  BY DEF AcceptsRanking, Subsumes
<1>3. Identifies(key, in.schema, a)
  OBVIOUS
<1>4. OrderGrid(items, in.schema, a)
  BY <1>1, OrderGridFacts
<1>5. \A r \in DOMAIN a, i \in DOMAIN items : keys[r][i] = Evaluate(items[i].expr, in.schema, a[r])
  BY <1>4 DEF OrderGrid
<1> HIDE DEF keys, items
<1>6. ASSUME NEW i \in DOMAIN a, NEW j \in DOMAIN a, keys[i] = keys[j] PROVE a[i] = a[j]
  <2>1. ASSUME NEW g \in key PROVE a[i][FieldPosition(in.schema, g)] = a[j][FieldPosition(in.schema, g)]
    <3>1. PICK k \in DOMAIN items : \A row : Evaluate(items[k].expr, in.schema, row) = row[FieldPosition(in.schema, g)]
      BY <1>1, <1>2, ItemFieldValue
    <3>2. keys[i][k] = a[i][FieldPosition(in.schema, g)] /\ keys[j][k] = a[j][FieldPosition(in.schema, g)]
      BY <1>5, <3>1
    <3> QED
      BY <1>6, <3>2
  <2>2. a[i] \in Range(a) /\ a[j] \in Range(a)
    BY DEF Range
  <2> QED
    BY <1>3, <2>1, <2>2 DEF Identifies
<1> QED
  BY <1>6 DEF KeysTell, keys, items

(* A ranking over partitions. *)
LEMMA RankingColumnSame ==
  ASSUME NEW in, IsSchema(in.schema), NEW entry, WindowEntry(entry, in), entry.function \in Rankings,
         NEW a \in Seq(RowsOf(in.schema)), NEW b \in Seq(RowsOf(in.schema)), NEW f, Moves(f, a, b), Stable(f, a),
         entry.function = "row_number" => KeysTell(OrderKeys(entry.order, in.schema, a), a),
         NEW r \in DOMAIN a, RankedAt(entry, in.schema, a, r), RankedAt(entry, in.schema, b, f[r])
  PROVE  RankingColumn(entry, in.schema, a)[r] = RankingColumn(entry, in.schema, b)[f[r]]
<1> DEFINE n == Len(a)
           x == Grid(entry.partition, in.schema, a)
           y == Grid(entry.partition, in.schema, b)
           u == OrderKeys(entry.order, in.schema, a)
           v == OrderKeys(entry.order, in.schema, b)
           D == Fellows(x, n, r)
           E == Fellows(y, n, f[r])
           sorted == Sorted(D, u, entry.order)
           far == Sorted(E, v, entry.order)
<1>1. /\ n \in Nat /\ DOMAIN a = 1 .. n /\ Len(b) = n /\ DOMAIN b = 1 .. n
      /\ KeysMoved(f, x, y, n)
  BY PartitionKeys
<1>2. KeysMoved(f, u, v, n)
  BY PartitionKeys DEF OrderKeys
<1>3. /\ r \in D /\ D \subseteq Nat
      /\ RankingColumn(entry, in.schema, a)[r] = RankOf(r, entry.function, sorted, u)
      /\ InOrder(sorted, D, u, entry.order)
      /\ Whole(u, entry.order, D) /\ Comparable(entry.order)
  BY DEF RankedAt
<1>4. /\ f[r] \in E /\ E \subseteq Nat
      /\ RankingColumn(entry, in.schema, b)[f[r]] = RankOf(f[r], entry.function, far, v)
      /\ InOrder(far, E, v, entry.order)
      /\ Whole(v, entry.order, E)
  <2>1. LET chosen == Fellows(y, Len(b), f[r])
            list == Sorted(chosen, v, entry.order)
        IN /\ f[r] \in chosen /\ chosen \subseteq Nat
           /\ RankingColumn(entry, in.schema, b)[f[r]] = RankOf(f[r], entry.function, list, v)
           /\ InOrder(list, chosen, v, entry.order)
           /\ Whole(v, entry.order, chosen)
    BY DEF RankedAt
  <2> HIDE DEF n, y, v
  <2> QED
    BY <1>1, <2>1
<1> HIDE DEF x, y, u, v, sorted, far, n
<1>5. v[f[r]] = u[r]
  BY <1>1, <1>2 DEF KeysMoved
<1>6. \E g : Carried(g, D, E, u, v) /\ (entry.function = "row_number" => f[r] = g[r])
  <2>1. CASE entry.function = "row_number"
    <3>1. KeysTell(u, a)
      BY <2>1 DEF u
    <3>2. Carried(f, D, E, u, v)
      BY <1>1, <1>2, <3>1, StableCarried
    <3> QED
      BY <3>2
  <2>2. CASE entry.function # "row_number"
    <3>1. \E g : Carried(g, D, E, u, v)
      BY <1>1, <1>2, PartitionStable
    <3> QED
      BY <2>2, <3>1
  <2> QED
    BY <2>1, <2>2
<1>7. PICK g : Carried(g, D, E, u, v) /\ (entry.function = "row_number" => f[r] = g[r])
  BY <1>6
<1> HIDE DEF D, E
<1>8. ASSUME NEW t \in E, v[t] = u[r], entry.function = "row_number" => t = g[r]
      PROVE  RankOf(r, entry.function, sorted, u) = RankOf(t, entry.function, far, v)
  <2> DEFINE function == entry.function
             items == entry.order
  <2>1. /\ function \in Rankings /\ Comparable(items) /\ Carried(g, D, E, u, v)
        /\ Ordered(sorted, D, u, items) /\ Ordered(far, E, v, items)
        /\ Paired(function, D, E, g, u, v, r, t)
    BY <1>3, <1>4, <1>7, <1>8 DEF Paired, Ordered
  <2> HIDE DEF function, items
  <2>2. RankOf(r, function, sorted, u) = RankOf(t, function, far, v)
    BY <2>1, RankSame
  <2> QED
    BY <2>2 DEF function
<1>9. RankOf(r, entry.function, sorted, u) = RankOf(f[r], entry.function, far, v)
  <2>1. f[r] \in E /\ v[f[r]] = u[r] /\ (entry.function = "row_number" => f[r] = g[r])
    BY <1>4, <1>5, <1>7
  <2> QED
    BY <1>8, <2>1
<1> QED
  BY <1>3, <1>4, <1>9

(* What a column requires fails where a partition or a sort key does. *)
LEMMA WindowFails ==
  ASSUME NEW in, IsSchema(in.schema), NEW rows \in Seq(RowsOf(in.schema)),
         NEW entry, WindowEntry(entry, in)
  PROVE  /\ DOMAIN WindowRequired(entry, in.schema, rows) \subseteq Nat
         /\ Fails(WindowRequired(entry, in.schema, rows))
              <=> \/ AnyFails(Grid(entry.partition, in.schema, rows))
                  \/ entry.function \in Rankings /\ AnyFails(OrderKeys(entry.order, in.schema, rows))
<1> DEFINE n == Len(rows)
           grid == Grid(entry.partition, in.schema, rows)
           keys == OrderKeys(entry.order, in.schema, rows)
<1>1. n \in Nat /\ DOMAIN rows = 1 .. n
  OBVIOUS
<1>2. entry.partition \in Seq(Expressions) /\ entry.order \in Seq(OrderingItems)
  BY EntryFacts DEF WindowEntry
<1>3. DOMAIN grid = 1 .. n /\ \A r \in 1 .. n : DOMAIN grid[r] \subseteq Nat
  <2>1. DOMAIN entry.partition \subseteq Nat
    BY <1>2
  <2> QED
    BY <1>1, <2>1 DEF Grid
<1>4. CASE entry.function \in Rankings
  <2>1. AcceptsItems(entry.order, in.schema)
    BY <1>4 DEF WindowEntry
  <2>2. OrderGrid(entry.order, in.schema, rows)
    BY <1>2, <2>1, OrderGridFacts
  <2>3. DOMAIN keys = 1 .. n /\ \A r \in 1 .. n : DOMAIN keys[r] \subseteq Nat
    <3>1. DOMAIN entry.order \subseteq Nat
      BY <1>2
    <3> QED
      BY <1>1, <2>2, <3>1 DEF OrderGrid
  <2>4. WindowRequired(entry, in.schema, rows) = Failures(grid) \o Failures(keys)
    BY <1>4, <2>2 DEF WindowRequired, OrderGrid
  <2> HIDE DEF grid, keys, n
  <2>5. /\ DOMAIN (Failures(grid) \o Failures(keys)) \subseteq Nat
        /\ Fails(Failures(grid) \o Failures(keys)) <=> AnyFails(grid) \/ AnyFails(keys)
    BY <1>1, <1>3, <2>3, BothFail
  <2> QED
    BY <1>4, <2>4, <2>5 DEF grid, keys
<1>5. CASE entry.function \notin Rankings
  <2>1. WindowRequired(entry, in.schema, rows) = Failures(grid) \o <<>>
    BY <1>5 DEF WindowRequired
  <2>2. DOMAIN Failures(grid) = 1 .. n /\ (Fails(Failures(grid)) <=> AnyFails(grid))
    <3> HIDE DEF grid
    <3> QED
      BY <1>1, <1>3, GridFails
  <2>3. Failures(grid) = [i \in 1 .. n |-> Failures(grid)[i]]
    BY <1>3 DEF Failures
  <2> HIDE DEF grid, n
  <2>4. /\ DOMAIN (Failures(grid) \o <<>>) \subseteq Nat
        /\ Fails(Failures(grid) \o <<>>) <=> Fails(Failures(grid))
    <3> DEFINE x == Failures(grid)
    <3>1. x = [i \in 1 .. n |-> x[i]] /\ <<>> = [i \in 1 .. 0 |-> <<>>[i]] /\ DOMAIN x = 1 .. n
      BY <2>2, <2>3
    <3> HIDE DEF x
    <3>2. Joined(x \o <<>>, x, n, <<>>, 0)
      BY <1>1, <3>1, ConcatCases
    <3>3. DOMAIN (x \o <<>>) \subseteq Nat
      BY <3>2 DEF Joined
    <3>4. Fails(x \o <<>>) <=> Fails(x)
      BY <1>1, <3>1, <3>2 DEF Joined, Fails
    <3> QED
      BY <3>3, <3>4 DEF x
  <2> QED
    BY <1>1, <1>5, <2>1, <2>2, <2>4 DEF grid
<1> QED
  BY <1>4, <1>5

(* A ranking is accepted as the validator asks. *)
RankingAccepted(entry, in) == entry.function \in Rankings => AcceptsRanking(entry, in)

(* The column of an entry, for a row and where the row moved. *)
LEMMA WindowColumnSame ==
  ASSUME NEW in, IsSchema(in.schema), NEW entry, WindowEntry(entry, in), RankingAccepted(entry, in),
         NEW a \in Seq(RowsOf(in.schema)), NEW b \in Seq(RowsOf(in.schema)),
         \A key \in in.valueKeys : Identifies(key, in.schema, a),
         NEW f, Moves(f, a, b), Stable(f, a), NEW r \in DOMAIN a
  PROVE  SameResult(WindowColumn(entry, in.schema, a)[r], WindowColumn(entry, in.schema, b)[f[r]])
<1> DEFINE ra == WindowRequired(entry, in.schema, a)
           rb == WindowRequired(entry, in.schema, b)
           fa == Require(ra, Null)
           fb == Require(rb, Null)
           ca == IF entry.function \in Rankings THEN RankingColumn(entry, in.schema, a)
                 ELSE AggregateColumn(entry, in.schema, a)
           cb == IF entry.function \in Rankings THEN RankingColumn(entry, in.schema, b)
                 ELSE AggregateColumn(entry, in.schema, b)
<1>0. f[r] \in DOMAIN b
  BY DEF Moves, Permutes
<1>1. /\ WindowColumn(entry, in.schema, a) = IF fa # Null THEN [i \in DOMAIN a |-> fa] ELSE ca
      /\ WindowColumn(entry, in.schema, b) = IF fb # Null THEN [i \in DOMAIN b |-> fb] ELSE cb
  BY DEF WindowColumn, WindowRequired, Unless
<1>2. /\ DOMAIN ra \subseteq Nat
      /\ Fails(ra) <=> \/ AnyFails(Grid(entry.partition, in.schema, a))
                       \/ entry.function \in Rankings /\ AnyFails(OrderKeys(entry.order, in.schema, a))
  BY WindowFails
<1>3. /\ DOMAIN rb \subseteq Nat
      /\ Fails(rb) <=> \/ AnyFails(Grid(entry.partition, in.schema, b))
                       \/ entry.function \in Rankings /\ AnyFails(OrderKeys(entry.order, in.schema, b))
  BY WindowFails
<1>4. AnyFails(Grid(entry.partition, in.schema, a)) <=> AnyFails(Grid(entry.partition, in.schema, b))
  <2>1. Moves(f, Grid(entry.partition, in.schema, a), Grid(entry.partition, in.schema, b))
    BY KeysMove
  <2> QED
    BY <2>1, MovedFails
<1>5. AnyFails(OrderKeys(entry.order, in.schema, a)) <=> AnyFails(OrderKeys(entry.order, in.schema, b))
  <2>1. Moves(f, OrderKeys(entry.order, in.schema, a), OrderKeys(entry.order, in.schema, b))
    BY KeysMove DEF OrderKeys
  <2> QED
    BY <2>1, MovedFails
<1>6. Fails(ra) <=> Fails(rb)
  BY <1>2, <1>3, <1>4, <1>5
<1>7. ~ Fails(ra) /\ entry.function \in Rankings
        => RankingColumn(entry, in.schema, a)[r] = RankingColumn(entry, in.schema, b)[f[r]]
  <2>1. SUFFICES ASSUME ~ Fails(ra), entry.function \in Rankings
                 PROVE  RankingColumn(entry, in.schema, a)[r] = RankingColumn(entry, in.schema, b)[f[r]]
    OBVIOUS
  <2>2. \A i \in DOMAIN a : ~ Failed(Failures(OrderKeys(entry.order, in.schema, a))[i])
    BY <2>1, WindowRequiredFacts DEF Fails
  <2>3. \A i \in DOMAIN b : ~ Failed(Failures(OrderKeys(entry.order, in.schema, b))[i])
    BY <1>6, <2>1, WindowRequiredFacts DEF Fails
  <2>4. RankedAt(entry, in.schema, a, r)
    BY <2>1, <2>2, RankingAt
  <2>5. RankedAt(entry, in.schema, b, f[r])
    <3>1. \A i \in DOMAIN b : RankedAt(entry, in.schema, b, i)
      BY <2>1, <2>3, RankingAt
    <3> QED
      BY <1>0, <3>1
  <2>6. entry.function = "row_number" => KeysTell(OrderKeys(entry.order, in.schema, a), a)
    <3>1. AcceptsRanking(entry, in)
      BY <2>1 DEF RankingAccepted
    <3> QED
      BY <3>1, RowNumberKeys
  <2> QED
    BY <2>1, <2>4, <2>5, <2>6, RankingColumnSame, SMTT(30)
<1>8. /\ \/ Fails(ra) /\ Failed(fa)
         \/ ~ Fails(ra) /\ fa = Null
      /\ \/ Fails(rb) /\ Failed(fb)
         \/ ~ Fails(rb) /\ fb = Null
  BY <1>2, <1>3, RequireFacts DEF Fails
<1>9. ~ Failed(Null)
  BY NullFacts
<1> HIDE DEF ra, rb, fa, fb
<1>10. CASE Fails(ra)
  BY <1>0, <1>1, <1>6, <1>8, <1>9, <1>10 DEF SameResult
<1>11. CASE ~ Fails(ra) /\ entry.function \in Rankings
  BY <1>1, <1>6, <1>7, <1>8, <1>9, <1>11 DEF SameResult
<1>12. CASE ~ Fails(ra) /\ entry.function \notin Rankings
  <2>1. SameResult(AggregateColumn(entry, in.schema, a)[r], AggregateColumn(entry, in.schema, b)[f[r]])
    BY <1>12, AggregateColumnSame
  <2> QED
    BY <1>1, <1>6, <1>8, <1>9, <1>12, <2>1
<1> QED
  BY <1>10, <1>11, <1>12

(* A Window node gives the rows in the order of its input. *)
LEMMA WindowAgrees ==
  ASSUME NEW node, IsNode(node), node.kind = "window", NEW in, IsSchema(in.schema), AcceptsWindow(node, in),
         NEW a \in Seq(RowsOf(in.schema)), NEW b \in Seq(RowsOf(in.schema)), Alike(a, b),
         \A key \in in.valueKeys : Identifies(key, in.schema, a)
  PROVE  SameOutcome(EvaluateWindow(node, in.schema, a), EvaluateWindow(node, in.schema, b))
<1> DEFINE count == Len(node.entries)
           xa == ColumnsOf(node, in.schema, a)
           xb == ColumnsOf(node, in.schema, b)
           oa == [r \in DOMAIN a |-> a[r] \o [k \in DOMAIN xa |-> xa[k][r]]]
           ob == [r \in DOMAIN b |-> b[r] \o [k \in DOMAIN xb |-> xb[k][r]]]
<1>1. PICK f : Moves(f, a, b) /\ Stable(f, a)
  BY StableMove DEF Stable
<1>2. /\ node.entries \in Seq(Entries) /\ count \in Nat /\ DOMAIN node.entries = 1 .. count
      /\ \A i \in 1 .. count : WindowEntry(node.entries[i], in)
  BY WindowEntries
<1>3. \A i \in 1 .. count : RankingAccepted(node.entries[i], in)
  BY <1>2 DEF AcceptsWindow, RankingAccepted
<1>4. \A i \in 1 .. count, r \in DOMAIN a :
        SameResult(WindowColumn(node.entries[i], in.schema, a)[r], WindowColumn(node.entries[i], in.schema, b)[f[r]])
  BY <1>1, <1>2, <1>3, WindowColumnSame
<1>5. \A i \in 1 .. count : /\ DOMAIN WindowColumn(node.entries[i], in.schema, a) = DOMAIN a
                            /\ DOMAIN WindowColumn(node.entries[i], in.schema, b) = DOMAIN b
  <2>1. \A i \in 1 .. count : DOMAIN WindowColumn(node.entries[i], in.schema, a) = DOMAIN a
    BY <1>2, ColumnFits
  <2>2. \A i \in 1 .. count : DOMAIN WindowColumn(node.entries[i], in.schema, b) = DOMAIN b
    BY <1>2, ColumnFits
  <2> QED
    BY <2>1, <2>2
<1>6. /\ DOMAIN xa = 1 .. count /\ \A i \in 1 .. count : xa[i] = WindowColumn(node.entries[i], in.schema, a)
      /\ DOMAIN xb = 1 .. count /\ \A i \in 1 .. count : xb[i] = WindowColumn(node.entries[i], in.schema, b)
  BY <1>2 DEF ColumnsOf
<1>7. /\ EvaluateWindow(node, in.schema, a) = Complete(Failures(xa), oa)
      /\ EvaluateWindow(node, in.schema, b) = Complete(Failures(xb), ob)
  BY DEF EvaluateWindow, WithColumns, ColumnsOf
<1>8. DOMAIN a \subseteq Nat /\ DOMAIN b \subseteq Nat /\ 1 .. count \subseteq Nat
  BY <1>2
<1> HIDE DEF xa, xb, count
<1>9. /\ DOMAIN Failures(xa) \subseteq Nat /\ (Fails(Failures(xa)) <=> AnyFails(xa))
      /\ DOMAIN Failures(xb) \subseteq Nat /\ (Fails(Failures(xb)) <=> AnyFails(xb))
  <2>1. /\ DOMAIN xa \subseteq Nat /\ \A i \in DOMAIN xa : DOMAIN xa[i] \subseteq Nat
        /\ DOMAIN xb \subseteq Nat /\ \A i \in DOMAIN xb : DOMAIN xb[i] \subseteq Nat
    BY <1>5, <1>6, <1>8
  <2>2. DOMAIN Failures(xa) = DOMAIN xa /\ (Fails(Failures(xa)) <=> AnyFails(xa))
    BY <2>1, GridFails
  <2>3. DOMAIN Failures(xb) = DOMAIN xb /\ (Fails(Failures(xb)) <=> AnyFails(xb))
    BY <2>1, GridFails
  <2> QED
    BY <2>1, <2>2, <2>3
<1>10. Permutes(f, DOMAIN a, DOMAIN b) /\ \A r \in DOMAIN a : f[r] \in DOMAIN b /\ b[f[r]] = a[r]
  BY <1>1 DEF Moves, Permutes
<1>11. \A i \in 1 .. count, r \in DOMAIN a : SameResult(xa[i][r], xb[i][f[r]])
  BY <1>4, <1>6
<1>12. AnyFails(xa) <=> AnyFails(xb)
  <2>1. ASSUME AnyFails(xa) PROVE AnyFails(xb)
    <3>1. PICK i \in 1 .. count, r \in DOMAIN a : Failed(xa[i][r])
      BY <1>5, <1>6, <2>1 DEF AnyFails, Fails
    <3>2. f[r] \in DOMAIN xb[i] /\ Failed(xb[i][f[r]])
      BY <1>5, <1>6, <1>10, <1>11, <3>1 DEF SameResult
    <3> QED
      BY <1>6, <3>2 DEF AnyFails, Fails
  <2>2. ASSUME AnyFails(xb) PROVE AnyFails(xa)
    <3>1. PICK i \in 1 .. count, t \in DOMAIN b : Failed(xb[i][t])
      BY <1>5, <1>6, <2>2 DEF AnyFails, Fails
    <3>2. PICK r \in DOMAIN a : f[r] = t
      BY <1>10 DEF Permutes
    <3>3. r \in DOMAIN xa[i] /\ Failed(xa[i][r])
      BY <1>5, <1>6, <1>11, <3>1, <3>2 DEF SameResult
    <3> QED
      BY <1>6, <3>3 DEF AnyFails, Fails
  <2> QED
    BY <2>1, <2>2
<1>13. ASSUME ~ AnyFails(xa)
       PROVE  Moves(f, oa, ob)
  <2>1. \A i \in 1 .. count, r \in DOMAIN a : xa[i][r] = xb[i][f[r]]
    BY <1>5, <1>6, <1>11, <1>13 DEF AnyFails, Fails, SameResult
  <2>2. ASSUME NEW r \in DOMAIN a PROVE ob[f[r]] = oa[r]
    <3>1. [k \in DOMAIN xa |-> xa[k][r]] = [k \in DOMAIN xb |-> xb[k][f[r]]]
      BY <1>6, <2>1
    <3> QED
      BY <1>10, <3>1
  <2> QED
    BY <1>10, <2>2 DEF Moves
<1>14. Good(EvaluateWindow(node, in.schema, a), WindowProperties(node, in).schema)
  BY WindowGood
<1> HIDE DEF oa, ob
<1>15. Twins(f, EvaluateWindow(node, in.schema, a), EvaluateWindow(node, in.schema, b))
  BY <1>7, <1>9, <1>12, <1>13, CompleteFails DEF Twins
<1> QED
  BY <1>14, <1>15, TwinsAgree DEF Good

(* Every order of a list of rows moves them. *)
LEMMA OrdersMove ==
  ASSUME NEW S, NEW rows \in Seq(S), NEW order \in SetToSeqs(DOMAIN rows)
  PROVE  Pick(rows, order) \in Seq(S) /\ Moves(order, Pick(rows, order), rows)
<1> DEFINE n == Cardinality(DOMAIN rows)
           D == 1 .. n
           E == DOMAIN rows
           I == {order[i] : i \in D}
<1>1. DOMAIN rows = 1 .. Len(rows) /\ Len(rows) \in Nat
  OBVIOUS
<1>2. IsFiniteSet(E) /\ n \in Nat
  <2>1. IsFiniteSet(E)
    BY <1>1, PositionSets
  <2> HIDE DEF E
  <2> QED
    BY <2>1, FS_CardinalityType DEF E
<1>3. order \in [D -> E] /\ \A i, j \in D : i # j => order[i] # order[j]
  <2>1. \A T : \A f \in SetToSeqs(T) : /\ f \in [1 .. Cardinality(T) -> T]
                                       /\ \A i, j \in 1 .. Cardinality(T) : i # j => f[i] # f[j]
    BY DEF SetToSeqs
  <2> HIDE DEF E
  <2>2. order \in SetToSeqs(E)
    BY DEF E
  <2> QED
    BY <2>1, <2>2 DEF E
<1>4. IsFiniteSet(D) /\ Cardinality(D) = n
  BY <1>2, FS_Interval
<1> HIDE DEF n
<1>5. I \subseteq E /\ Permutes(order, D, I)
  BY <1>3 DEF Permutes
<1>6. \A i \in D : order[i] \in I
  OBVIOUS
<1> HIDE DEF D, E, I
<1>7. Cardinality(D) = Cardinality(I)
  BY <1>4, <1>5, <1>6, PermutedSize
<1>8. I = E
  <2>1. Cardinality(E) = Cardinality(I)
    BY <1>4, <1>7 DEF E, n
  <2> QED
    BY <1>2, <1>5, <2>1, FS_Subset
<1>9. order = [i \in 1 .. n |-> order[i]] /\ DOMAIN order = D /\ \A i \in 1 .. n : order[i] \in DOMAIN rows
  BY <1>3 DEF D, E
<1>10. order \in Seq(DOMAIN rows)
  BY <1>2, <1>9, SequenceIntro
<1>11. /\ Pick(rows, order) \in Seq(S) /\ DOMAIN Pick(rows, order) = DOMAIN order
       /\ \A k \in DOMAIN order : Pick(rows, order)[k] = rows[order[k]]
  BY <1>10, PickFacts
<1>12. Permutes(order, D, E)
  BY <1>5, <1>8
<1> QED
  BY <1>9, <1>11, <1>12 DEF Moves, E

(* Whether rows fit a schema. *)
FitsInput(rows, schema) ==
  \A r \in DOMAIN rows :
    /\ Len(rows[r]) = Len(schema)
    /\ \A i \in DOMAIN schema : ValueFits(rows[r][i], schema[i].descriptor)

(* Hosts that list the rows of a relation in different orders. *)
LEMMA InputAgrees ==
  ASSUME NEW relation, DOMAIN relation = {"schema", "rows"}, relation.rows \in Seq(Seq(Values)),
         NEW order \in SetToSeqs(DOMAIN relation.rows)
  PROVE  SameOutcome(EvaluateInput(relation, SourceSchema),
                     EvaluateInput([relation EXCEPT !.rows = Pick(relation.rows, order)], SourceSchema))
<1> DEFINE rows == relation.rows
           mixed == Pick(rows, order)
           changed == [relation EXCEPT !.rows = mixed]
           first == EvaluateInput(relation, SourceSchema)
           second == EvaluateInput(changed, SourceSchema)
<1>1. mixed \in Seq(Seq(Values)) /\ Moves(order, mixed, rows)
  BY OrdersMove
<1>2. changed.rows = mixed /\ changed.schema = relation.schema
  OBVIOUS
<1>3. FitsInput(rows, SourceSchema) <=> FitsInput(mixed, SourceSchema)
  <2> HIDE DEF rows, mixed
  <2>1. \A i \in DOMAIN mixed : order[i] \in DOMAIN rows /\ rows[order[i]] = mixed[i]
    BY <1>1 DEF Moves, Permutes
  <2>2. \A k \in DOMAIN rows : \E i \in DOMAIN mixed : order[i] = k
    BY <1>1 DEF Moves, Permutes
  <2>3. \A k \in DOMAIN rows : \E i \in DOMAIN mixed : rows[k] = mixed[i]
    BY <2>1, <2>2
  <2>4. FitsInput(rows, SourceSchema) => FitsInput(mixed, SourceSchema)
    <3>1. \A i \in DOMAIN mixed : \E k \in DOMAIN rows : mixed[i] = rows[k]
      BY <2>1
    <3> QED
      BY <3>1 DEF FitsInput
  <2>5. FitsInput(mixed, SourceSchema) => FitsInput(rows, SourceSchema)
    BY <2>3 DEF FitsInput
  <2> QED
    BY <2>4, <2>5
<1>4. Alike(rows, mixed)
  <2>1. Alike(mixed, rows)
    BY <1>1, MovedCopies
  <2> QED
    BY <2>1 DEF Alike
<1>5. /\ first = IF relation.schema = SourceSchema /\ FitsInput(rows, SourceSchema)
                 THEN Result(Null, rows) ELSE Result(UnfitInput, <<>>)
      /\ second = IF changed.schema = SourceSchema /\ FitsInput(changed.rows, SourceSchema)
                  THEN Result(Null, changed.rows) ELSE Result(UnfitInput, <<>>)
  BY DEF EvaluateInput, FitsInput
<1> HIDE DEF rows, mixed, changed, first, second
<1>6. Alike(<<>>, <<>>)
  BY DEF Alike
<1> QED
  BY <1>2, <1>3, <1>4, <1>5, <1>6 DEF SameOutcome, Result, first, second, changed, mixed, rows

(* The inductive invariant of the two hosts. *)
HostsInv == Hosts(given, other, peers.given, peers.other, props.ordered)

(* Two hosts that list one relation begin with the same rows.             *)
LEMMA InitHosts == ChainInit => HostsInv
<1> SUFFICES ASSUME ChainInit PROVE HostsInv
  OBVIOUS
<1>1. PICK relation \in Relations : \E order \in SetToSeqs(DOMAIN relation.rows) :
        /\ given = EvaluateInput(relation, SourceSchema)
        /\ other = EvaluateInput([relation EXCEPT !.rows = Pick(relation.rows, order)], SourceSchema)
  BY Zenon DEF ChainInit
<1>2. PICK order \in SetToSeqs(DOMAIN relation.rows) :
        /\ given = EvaluateInput(relation, SourceSchema)
        /\ other = EvaluateInput([relation EXCEPT !.rows = Pick(relation.rows, order)], SourceSchema)
  BY <1>1
<1>3. DOMAIN relation = {"schema", "rows"} /\ relation.rows \in Seq(Seq(Values))
  BY RelationsAssumption
<1>4. SameOutcome(given, other)
  BY <1>2, <1>3, InputAgrees
<1>5. props.ordered = FALSE
  BY DEF ChainInit, BagOf, Properties
<1> QED
  BY <1>4, <1>5 DEF HostsInv, Hosts

(* Rows without an order are only compared as bags. *)
LEMMA BagHosts ==
  ASSUME NEW first, NEW second, SameOutcome(first, second), NEW x, NEW y, NEW ordered, ordered = FALSE
  PROVE  Hosts(first, second, x, y, ordered)
BY DEF Hosts

(* Every node put on top leaves two hosts with the same rows.             *)
LEMMA StepHosts == ChainInv /\ HostsInv /\ [ChainNext]_chainVars => HostsInv'
<1> SUFFICES ASSUME ChainInv, HostsInv, [ChainNext]_chainVars PROVE HostsInv'
  OBVIOUS
<1> DEFINE schema == props.schema
           a == given.rows
           b == other.rows
<1>1. Sound(props, definedFields, given, other, peers.given)
  BY DEF ChainInv
<1>2. /\ IsSchema(schema) /\ a \in Seq(RowsOf(schema)) /\ b \in Seq(RowsOf(schema))
      /\ \A key \in props.valueKeys : Identifies(key, schema, a)
      /\ DOMAIN props = {"schema", "ordered", "valueKeys", "peerConstant"}
  BY <1>1, SoundFacts DEF Sound, SoundProperties
<1>3. Alike(a, b) /\ (props.ordered /\ given.failure = Null => Lockstep(a, b, peers.given, peers.other))
  BY DEF HostsInv, Hosts, SameOutcome
<1>0. SUFFICES Hosts(given', other', peers'.given, peers'.other, props'.ordered)
  BY DEF HostsInv
<1>15. ASSUME NEW side \in Sides
       PROVE  /\ IsSchema(side.properties.schema)
              /\ side.rows \in Seq(RowsOf(side.properties.schema))
              /\ Reverse(side.rows) \in Seq(RowsOf(side.properties.schema))
              /\ Alike(side.rows, Reverse(side.rows))
  <2>1. IsSchema(side.properties.schema) /\ side.rows \in Seq(RowsOf(side.properties.schema))
        /\ Reverse(side.rows) \in Seq(RowsOf(side.properties.schema))
    BY SideFacts
  <2> QED
    BY <2>1, ReverseMoves
<1>4. CASE PutProject
  <2>1. PICK node \in Candidates("project", schema) :
          /\ AcceptsProject(node, props) /\ peers' = peers
          /\ Puts(node, ProjectProperties(node, props), EvaluateProject(node, schema, a),
                  EvaluateProject(node, schema, b))
    BY <1>4 DEF PutProject, Put, Puts
  <2>2. IsNode(node) /\ node.kind = "project"
    BY <1>2, CandidateFacts
  <2>3. props.ordered => Lockstep(a, b, peers.given, peers.other)
    BY <1>3, <2>1 DEF Puts
  <2>4. Hosts(EvaluateProject(node, schema, a), EvaluateProject(node, schema, b),
              peers.given, peers.other, props.ordered)
    BY <1>2, <1>3, <2>1, <2>2, <2>3, ProjectHosts
  <2>5. ProjectProperties(node, props).ordered = props.ordered
    BY DEF ProjectProperties, Properties
  <2> QED
    BY <2>1, <2>4, <2>5 DEF Puts
<1>5. CASE PutFilter
  <2>1. PICK node \in Candidates("filter", schema) :
          /\ AcceptsFilter(node, props)
          /\ Puts(node, props, EvaluateFilter(node, schema, a), EvaluateFilter(node, schema, b))
          /\ props.ordered => /\ peers'.given = Pick(peers.given, FilterIndices(node, schema, a))
                              /\ peers'.other = Pick(peers.other, FilterIndices(node, schema, b))
    BY <1>5 DEF PutFilter, Put, Puts, SelectPeers
  <2>2. IsNode(node) /\ node.kind = "filter"
    BY <1>2, CandidateFacts
  <2>3. props.ordered => Lockstep(a, b, peers.given, peers.other)
    BY <1>3, <2>1 DEF Puts
  <2>4. Hosts(EvaluateFilter(node, schema, a), EvaluateFilter(node, schema, b),
              peers'.given, peers'.other, props.ordered)
    BY <1>2, <1>3, <2>1, <2>2, <2>3, FilterHosts
  <2> QED
    BY <2>1, <2>4 DEF Puts
<1>6. CASE PutJoin
  <2>1. PICK side \in Sides : \E node \in Candidates("join", schema \o side.properties.schema) :
          /\ AcceptsJoin(node, props, side.properties)
          /\ Puts(node, JoinProperties(node, props, side.properties),
                  EvaluateJoin(node, schema, side.properties.schema, a, side.rows),
                  EvaluateJoin(node, schema, side.properties.schema, b, Reverse(side.rows)))
    BY <1>6 DEF PutJoin, Put, Puts
  <2>2. PICK node \in Candidates("join", schema \o side.properties.schema) :
          /\ AcceptsJoin(node, props, side.properties)
          /\ Puts(node, JoinProperties(node, props, side.properties),
                  EvaluateJoin(node, schema, side.properties.schema, a, side.rows),
                  EvaluateJoin(node, schema, side.properties.schema, b, Reverse(side.rows)))
    BY <2>1
  <2>3. IsSchema(schema \o side.properties.schema)
    BY <1>2, SideFacts, SchemaConcat
  <2>4. IsNode(node) /\ node.kind = "join"
    BY <2>3, CandidateFacts
  <2>5. SameOutcome(EvaluateJoin(node, schema, side.properties.schema, a, side.rows),
                    EvaluateJoin(node, schema, side.properties.schema, b, Reverse(side.rows)))
    BY <1>2, <1>3, <1>15, <2>2, <2>4, JoinAgrees
  <2>6. JoinProperties(node, props, side.properties).ordered = FALSE
    BY DEF JoinProperties, BagOf, Properties
  <2> QED
    BY <2>2, <2>5, <2>6, BagHosts DEF Puts
<1>7. CASE PutAggregate
  <2>1. PICK node \in Candidates("aggregate", schema) :
          /\ AcceptsAggregate(node, props)
          /\ Puts(node, AggregateProperties(node, props), EvaluateAggregate(node, schema, a),
                  EvaluateAggregate(node, schema, b))
    BY <1>7 DEF PutAggregate, Put, Puts
  <2>2. IsNode(node) /\ node.kind = "aggregate"
    BY <1>2, CandidateFacts
  <2>3. SameOutcome(EvaluateAggregate(node, schema, a), EvaluateAggregate(node, schema, b))
    BY <1>2, <1>3, <2>1, <2>2, AggregateAgrees
  <2>4. AggregateProperties(node, props).ordered = FALSE
    BY DEF AggregateProperties, BagOf, Properties
  <2> QED
    BY <2>1, <2>3, <2>4, BagHosts DEF Puts
<1>8. CASE PutWindow
  <2>1. PICK node \in Candidates("window", schema) :
          /\ AcceptsWindow(node, props)
          /\ Puts(node, WindowProperties(node, props), EvaluateWindow(node, schema, a),
                  EvaluateWindow(node, schema, b))
    BY <1>8 DEF PutWindow, Put, Puts
  <2>2. IsNode(node) /\ node.kind = "window"
    BY <1>2, CandidateFacts
  <2>3. SameOutcome(EvaluateWindow(node, schema, a), EvaluateWindow(node, schema, b))
    BY <1>2, <1>3, <2>1, <2>2, WindowAgrees
  <2>4. WindowProperties(node, props).ordered = FALSE
    BY DEF WindowProperties, BagOf, Properties
  <2> QED
    BY <2>1, <2>3, <2>4, BagHosts DEF Puts
<1>9. CASE PutDistinct
  <2>1. PICK node \in Candidates("distinct", schema) :
          Puts(node, DistinctProperties(props), EvaluateDistinct(a), EvaluateDistinct(b))
    BY <1>9 DEF PutDistinct, Put, Puts
  <2>2. SameOutcome(EvaluateDistinct(a), EvaluateDistinct(b))
    BY <1>2, <1>3, DistinctAgrees
  <2>3. DistinctProperties(props).ordered = FALSE
    BY DEF DistinctProperties, BagOf, Properties
  <2> QED
    BY <2>1, <2>2, <2>3, BagHosts DEF Puts
<1>10. CASE PutSet
  <2>1. PICK side \in Sides, node \in Candidates("set", schema) :
          /\ AcceptsSet(node, props, side.properties)
          /\ Puts(node, SetProperties(node, props, side.properties), EvaluateSet(node, a, side.rows),
                  EvaluateSet(node, b, Reverse(side.rows)))
    BY <1>10 DEF PutSet, Put, Puts
  <2>2. IsNode(node) /\ node.kind = "set"
    BY <1>2, CandidateFacts
  <2>3. node.how \in SetOperators
    BY <2>2, NodeFacts, Zenon DEF HasEntries, SetOperators
  <2> DEFINE S == RowsOf(schema) \cup RowsOf(side.properties.schema)
  <2>4. a \in Seq(S) /\ b \in Seq(S)
    BY <1>2, SequenceWiden
  <2>5. side.rows \in Seq(S) /\ Reverse(side.rows) \in Seq(S)
    BY <1>15, SequenceWiden
  <2> HIDE DEF S
  <2>6. SameOutcome(EvaluateSet(node, a, side.rows), EvaluateSet(node, b, Reverse(side.rows)))
    BY <1>3, <1>15, <2>3, <2>4, <2>5, SetAgrees
  <2>7. SetProperties(node, props, side.properties).ordered = FALSE
    BY DEF SetProperties, BagOf, Properties
  <2> QED
    BY <2>1, <2>6, <2>7, BagHosts DEF Puts
<1>11. CASE PutOrder
  <2>1. PICK node \in Candidates("order", schema) :
          /\ AcceptsOrder(node, props)
          /\ Puts(node, OrderProperties(node, props), EvaluateOrder(node, schema, a), EvaluateOrder(node, schema, b))
          /\ given'.failure = Null /\ other'.failure = Null =>
               peers'.given = OrderPeers(node, a) /\ peers'.other = OrderPeers(node, b)
    BY <1>11 DEF PutOrder, Put, Puts
  <2>2. IsNode(node) /\ node.kind = "order"
    BY <1>2, CandidateFacts
  <2>3. /\ OrderPeers(node, a)
             = PeerNumbers(OrderIndices(node, schema, a), OrderKeys(node.entries[1].order, schema, a))
        /\ OrderPeers(node, b)
             = PeerNumbers(OrderIndices(node, schema, b), OrderKeys(node.entries[1].order, schema, b))
    BY DEF OrderPeers, PeerNumbers
  <2>4. Hosts(EvaluateOrder(node, schema, a), EvaluateOrder(node, schema, b), peers'.given, peers'.other, TRUE)
    <3>1. /\ EvaluateOrder(node, schema, a).failure = Null
          /\ EvaluateOrder(node, schema, b).failure = Null
          => /\ peers'.given = PeerNumbers(OrderIndices(node, schema, a),
                                           OrderKeys(node.entries[1].order, schema, a))
             /\ peers'.other = PeerNumbers(OrderIndices(node, schema, b),
                                           OrderKeys(node.entries[1].order, schema, b))
      BY <2>1, <2>3 DEF Puts
    <3> QED
      BY <1>2, <1>3, <2>1, <2>2, <3>1, OrderHosts
  <2>5. OrderProperties(node, props).ordered = TRUE
    BY <1>2 DEF OrderProperties
  <2> QED
    BY <2>1, <2>4, <2>5 DEF Puts
<1>12. CASE PutSlice
  <2>1. PICK node \in Candidates("slice", schema) :
          /\ AcceptsSlice(node, props)
          /\ Puts(node, props, EvaluateSlice(node, a), EvaluateSlice(node, b))
          /\ props.ordered => /\ peers'.given = Pick(peers.given, SliceIndices(node, Len(a)))
                              /\ peers'.other = Pick(peers.other, SliceIndices(node, Len(b)))
    BY <1>12 DEF PutSlice, Put, Puts, SelectPeers
  <2>2. props.ordered /\ given.failure = Null /\ other.failure = Null
    BY <2>1 DEF AcceptsSlice, Puts
  <2>3. Lockstep(a, b, peers.given, peers.other) /\ ConstantPeers(peers.given, props.peerConstant, schema, a)
    BY <1>1, <1>3, <2>2 DEF Sound
  <2>4. Hosts(EvaluateSlice(node, a), EvaluateSlice(node, b), peers'.given, peers'.other, props.ordered)
    BY <1>2, <2>1, <2>2, <2>3, SliceHosts
  <2> QED
    BY <2>1, <2>4 DEF Puts
<1>13. CASE PutForgetOrder
  <2>1. PICK node \in Candidates("forget_order", schema) :
          Puts(node, ForgetOrderProperties(props), Result(Null, a), Result(Null, b))
    BY <1>13 DEF PutForgetOrder, Put, Puts
  <2>2. SameOutcome(Result(Null, a), Result(Null, b))
    BY <1>3 DEF SameOutcome, Result
  <2>3. ForgetOrderProperties(props).ordered = FALSE
    BY <1>2 DEF ForgetOrderProperties
  <2> QED
    BY <2>1, <2>2, <2>3, BagHosts DEF Puts
<1>14. CASE UNCHANGED chainVars
  BY <1>14 DEF chainVars, HostsInv
<1> QED
  BY <1>4, <1>5, <1>6, <1>7, <1>8, <1>9, <1>10, <1>11, <1>12, <1>13, <1>14 DEF ChainNext

(* THEOREM: the second inductive invariant.  Hosts that list the rows of a *)
(* relation in different orders fail together and have the same bag of     *)
(* rows under every node; where the order is meant, they have the same     *)
(* rows in each group of peers.                                            *)
THEOREM HostsCorrespond == ChainSpec => []HostsInv
BY InitHosts, StepHosts, ChainIsSound, PTL DEF ChainSpec

(* THEOREM: the bag of rows a graph gives does not depend on the order in  *)
(* which the host lists rows: what ROW_NUMBER numbers and Slice keeps is   *)
(* settled by the value keys the validator asked for.                      *)
THEOREM ResultsAgree == ChainSpec => []ResultIndependentOfHostOrder
<1>1. ChainInv /\ HostsInv => ResultIndependentOfHostOrder
  <2> SUFFICES ASSUME ChainInv, HostsInv PROVE ResultIndependentOfHostOrder
    OBVIOUS
  <2>1. given.rows \in Seq(RowsOf(props.schema)) /\ other.rows \in Seq(RowsOf(props.schema))
    BY SoundFacts DEF ChainInv
  <2>2. Alike(given.rows, other.rows)
    BY DEF HostsInv, Hosts, SameOutcome
  <2> QED
    BY <2>1, <2>2, AlikeRange DEF ResultIndependentOfHostOrder
<1> QED
  BY <1>1, ChainIsSound, HostsCorrespond, PTL

(* THEOREM: nor does it depend on that order whether the graph fails: a    *)
(* SUM that is in range in one order is in range in all.                   *)
THEOREM FailuresAgree == ChainSpec => []FailureIndependentOfHostOrder
<1>1. HostsInv => FailureIndependentOfHostOrder
  BY DEF HostsInv, Hosts, SameOutcome, FailureIndependentOfHostOrder
<1> QED
  BY <1>1, HostsCorrespond, PTL
=============================================================================
