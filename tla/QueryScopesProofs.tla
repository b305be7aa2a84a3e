------------------------- MODULE QueryScopesProofs -------------------------
(***************************************************************************)
(* Facts about the trees of query expressions that programs are and about  *)
(* what names mean in them, for every set of programs: the lemmas that the *)
(* proofs about the binder, the type checker and the lowerer share.        *)
(***************************************************************************)
EXTENDS BindingVerdict, SequenceTheorems, WellFoundedInduction, TLAPS

-----------------------------------------------------------------------------
(* Facts about natural numbers and syntax.                                 *)

(* A set of natural numbers that is not empty has a least element.         *)
LEMMA LeastElement ==
  ASSUME NEW S \in SUBSET Nat, S # {}
  PROVE  \E i \in S : \A j \in S : i <= j
<1>1. PICK i \in S : \A j \in S : <<j, i>> \notin OpToRel(<, Nat)
  BY WFMin, NatLessThanWellFounded
<1>2. ASSUME NEW j \in S, j < i PROVE <<j, i>> \in OpToRel(<, Nat)
  <2>1. <<j, i>> \in Nat \X Nat /\ <<j, i>>[1] < <<j, i>>[2]
    BY <1>2
  <2> QED
    BY <2>1, Zenon DEF OpToRel
<1>3. ASSUME NEW j \in S PROVE i <= j
  <2>1. ~ (j < i) /\ i \in Nat /\ j \in Nat
    BY <1>1, <1>2
  <2> QED
    BY <2>1
<1> QED
  BY <1>3

(* The positions of a sequence that are in a set have a least and a        *)
(* greatest one.                                                           *)
LEMMA FirstAndLast ==
  ASSUME NEW n \in Nat, NEW S \in SUBSET (1 .. n), S # {}
  PROVE  /\ \E i \in S : \A j \in S : i <= j
         /\ \E i \in S : \A j \in S : j <= i
<1>1. \E i \in S : \A j \in S : i <= j
  BY LeastElement
<1> DEFINE T == {m \in Nat : \E j \in S : m = n - j}
<1>2. T \in SUBSET Nat /\ T # {}
  <2>1. PICK j \in S : j \in 1 .. n
    OBVIOUS
  <2>2. n - j \in T
    BY <2>1
  <2> QED
    BY <2>2
<1>3. PICK m \in T : \A k \in T : m <= k
  BY <1>2, LeastElement
<1>4. PICK i \in S : m = n - i
  OBVIOUS
<1>5. ASSUME NEW j \in S PROVE j <= i
  <2>1. j \in 1 .. n /\ i \in 1 .. n
    OBVIOUS
  <2>2. n - j \in T
    BY <2>1
  <2>3. m <= n - j
    BY <1>3, <2>2
  <2> HIDE DEF T
  <2> QED
    BY <1>4, <2>1, <2>3
<1> QED
  BY <1>1, <1>5

(* The clauses and items of a query expression are finite sequences of     *)
(* declarations and items.                                                 *)
LEMMA SyntaxFacts ==
  ASSUME NEW p \in Programs, NEW q \in QueryId
  PROVE  /\ p.root \in QueryId
         /\ p.relations \in [Name -> Nat]
         /\ Len(p.queries[q].ctes) \in Nat
         /\ DOMAIN p.queries[q].ctes = 1 .. Len(p.queries[q].ctes)
         /\ \A i \in DOMAIN p.queries[q].ctes :
              /\ p.queries[q].ctes[i].name \in Name
              /\ p.queries[q].ctes[i].query \in QueryId
         /\ Len(p.queries[q].items) \in Nat
         /\ DOMAIN p.queries[q].items = 1 .. Len(p.queries[q].items)
         /\ \A i \in DOMAIN p.queries[q].items :
              /\ p.queries[q].items[i] \in Item
              /\ p.queries[q].items[i].name # None =>
                   p.queries[q].items[i].name \in Name
              /\ p.queries[q].items[i].name = None =>
                   p.queries[q].items[i].query \in QueryId
<1>1. p \in Program
  BY ProgramsAssumption
<1>2. /\ p.root \in QueryId /\ p.relations \in [Name -> Nat]
      /\ p.queries[q] \in QuerySyntax
  BY <1>1 DEF Program
<1>3. /\ p.queries[q].ctes \in Seq([name : Name, query : QueryId])
      /\ p.queries[q].items \in Seq(Item)
  BY <1>2 DEF QuerySyntax
<1>4. \A i \in DOMAIN p.queries[q].ctes :
        p.queries[q].ctes[i] \in [name : Name, query : QueryId]
  BY <1>3, LenProperties, ElementOfSeq
<1>5. \A i \in DOMAIN p.queries[q].items : p.queries[q].items[i] \in Item
  BY <1>3, LenProperties, ElementOfSeq
<1>6. \A item \in Item : /\ item.name # None => item.name \in Name
                         /\ item.name = None => item.query \in QueryId
  BY NoneAssumption DEF Item
<1> QED
  BY <1>2, <1>3, <1>4, <1>5, <1>6, LenProperties

(* What is directly within a query expression, and in one place only.      *)
LEMMA PartsFacts ==
  ASSUME NEW p \in Programs, NEW q \in QueryId
  PROVE  /\ Parts(p, q) \subseteq QueryId
         /\ p.root \notin Parts(p, q)
         /\ \A r \in QueryId, x \in Parts(p, q) : x \in Parts(p, r) => r = q
         /\ \A i \in DOMAIN p.queries[q].ctes : p.queries[q].ctes[i].query \in Parts(p, q)
         /\ \A i \in DOMAIN p.queries[q].items :
              p.queries[q].items[i].name = None =>
                p.queries[q].items[i].query \in Parts(p, q)
<1>1. IsTree(p)
  BY ProgramsAssumption
<1>2. \A item \in Item : item.query # None => item.query \in QueryId
  BY DEF Item
<1>3. Parts(p, q) \subseteq QueryId
  BY <1>2, SyntaxFacts DEF Parts, Elements
<1>4. \A r \in QueryId : r # q => Parts(p, q) \cap Parts(p, r) = {}
  BY <1>1 DEF IsTree
<1>5. \A i \in DOMAIN p.queries[q].ctes : p.queries[q].ctes[i].query \in Parts(p, q)
  BY DEF Parts, Elements
<1>6. \A i \in DOMAIN p.queries[q].items :
        p.queries[q].items[i].name = None => p.queries[q].items[i].query \in Parts(p, q)
  BY SyntaxFacts, NoneAssumption DEF Parts, Elements
<1>7. p.root \notin Parts(p, q)
  BY <1>1 DEF IsTree
<1> QED
  BY <1>3, <1>4, <1>5, <1>6, <1>7

-----------------------------------------------------------------------------
(* Enclosure is the ancestry of a tree.                                    *)

(* A query expression encloses itself, and what is within what it encloses.*)
LEMMA EnclosesDown ==
  ASSUME NEW p \in Programs, NEW a \in QueryId
  PROVE  /\ Encloses(p, a, a)
         /\ \A q \in QueryId : \A c \in Parts(p, q) :
              Encloses(p, a, q) => Encloses(p, a, c)
BY DEF Encloses

(* Enclosure is transitive.                                                *)
LEMMA EnclosesTransitive ==
  ASSUME NEW p \in Programs, NEW a \in QueryId, NEW b \in QueryId, NEW c \in QueryId,
         Encloses(p, a, b), Encloses(p, b, c)
  PROVE  Encloses(p, a, c)
BY DEF Encloses

(* What encloses a part of q, but the part itself, encloses q.             *)
LEMMA EnclosesUp ==
  ASSUME NEW p \in Programs, NEW q \in QueryId, NEW c \in Parts(p, q),
         NEW a \in QueryId, Encloses(p, a, c), a # c
  PROVE  Encloses(p, a, q)
<1> SUFFICES ASSUME ~ Encloses(p, a, q) PROVE FALSE
  OBVIOUS
<1> DEFINE S == {r \in QueryId : Encloses(p, a, r) /\ r # c}
<1>1. a \in S
  BY EnclosesDown
<1>2. ASSUME NEW r \in S PROVE Parts(p, r) \subseteq S
  <2> SUFFICES ASSUME NEW x \in Parts(p, r) PROVE x \in S
    OBVIOUS
  <2>1. x \in QueryId /\ Encloses(p, a, x)
    BY PartsFacts, EnclosesDown
  <2>2. x # c
    BY PartsFacts
  <2> QED
    BY <2>1, <2>2
<1>3. c \in S
  BY <1>1, <1>2 DEF Encloses
<1> QED
  BY <1>3

(* Nothing but the root encloses the root.                                 *)
LEMMA EnclosesRoot ==
  ASSUME NEW p \in Programs, NEW a \in QueryId, Encloses(p, a, p.root)
  PROVE  a = p.root
<1> SUFFICES ASSUME a # p.root PROVE FALSE
  OBVIOUS
<1> DEFINE S == QueryId \ {p.root}
<1>1. S \in SUBSET QueryId /\ a \in S /\ \A r \in S : Parts(p, r) \subseteq S
  BY PartsFacts
<1>2. p.root \in S
  BY <1>1 DEF Encloses
<1> QED
  BY <1>2

(* What a query expression encloses, but itself, is enclosed by a part.    *)
LEMMA EnclosesByPart ==
  ASSUME NEW p \in Programs, NEW a \in QueryId, NEW b \in QueryId,
         Encloses(p, a, b), a # b
  PROVE  \E c \in Parts(p, a) : Encloses(p, c, b)
<1> DEFINE S == {a} \cup {r \in QueryId : \E c \in Parts(p, a) : Encloses(p, c, r)}
<1>1. \A c \in Parts(p, a) : c \in QueryId
  BY PartsFacts
<1>2. ASSUME NEW r \in S, NEW x \in Parts(p, r) PROVE x \in S
  <2>1. x \in QueryId
    BY PartsFacts
  <2>2. CASE r = a
    BY <2>1, <2>2, EnclosesDown
  <2>3. CASE r # a
    <3>1. PICK c \in Parts(p, a) : Encloses(p, c, r)
      BY <2>3
    <3>2. Encloses(p, c, x)
      BY <1>1, <3>1, EnclosesDown
    <3> QED
      BY <2>1, <3>2
  <2> QED
    BY <2>2, <2>3
<1>3. S \in SUBSET QueryId /\ a \in S /\ \A r \in S : Parts(p, r) \subseteq S
  BY <1>2
<1>4. b \in S
  BY <1>3 DEF Encloses
<1> QED
  BY <1>4

(* Two query expressions that enclose each other are the same.             *)
LEMMA EnclosesAntisymmetric ==
  ASSUME NEW p \in Programs, NEW a \in QueryId, NEW b \in QueryId,
         Encloses(p, a, b), Encloses(p, b, a)
  PROVE  a = b
<1> SUFFICES ASSUME a # b PROVE FALSE
  OBVIOUS
<1> DEFINE S == {r \in QueryId : Encloses(p, a, r) /\ Encloses(p, r, a)}
<1>1. S \in SUBSET QueryId /\ a \in S /\ b \in S
  BY EnclosesDown
<1>2. PICK q \in S : Parts(p, q) \cap S = {}
  BY <1>1, ProgramsAssumption DEF IsTree
<1>3. PICK x \in S : x # q
  BY <1>1
<1>4. Encloses(p, q, x)
  BY EnclosesTransitive
<1>5. PICK c \in Parts(p, q) : Encloses(p, c, x)
  BY <1>3, <1>4, EnclosesByPart
<1>6. c \in QueryId
  BY PartsFacts
<1>7. Encloses(p, a, c)
  BY EnclosesDown
<1>8. Encloses(p, c, a)
  BY <1>5, <1>6, EnclosesTransitive
<1> QED
  BY <1>2, <1>6, <1>7, <1>8

(* No query expression is a part of itself.                                *)
LEMMA NoPartOfItself ==
  ASSUME NEW p \in Programs, NEW q \in QueryId
  PROVE  q \notin Parts(p, q)
<1>1. \A S \in SUBSET QueryId : S # {} => \E r \in S : Parts(p, r) \cap S = {}
  BY ProgramsAssumption DEF IsTree
<1>2. {q} \in SUBSET QueryId /\ {q} # {}
  OBVIOUS
<1>3. PICK r \in {q} : Parts(p, r) \cap {q} = {}
  BY <1>1, <1>2
<1> QED
  BY <1>3

(* What stands in a place of a program stands in no other.                 *)
LEMMA PlaceFacts ==
  ASSUME NEW p \in Programs, NEW q \in QueryId, NEW r \in QueryId
  PROVE  /\ \A i \in DOMAIN p.queries[q].ctes : \A j \in DOMAIN p.queries[r].ctes :
              p.queries[q].ctes[i].query = p.queries[r].ctes[j].query => q = r /\ i = j
         /\ \A i \in DOMAIN p.queries[q].ctes : \A j \in DOMAIN p.queries[r].items :
              p.queries[r].items[j].name = None =>
                p.queries[q].ctes[i].query # p.queries[r].items[j].query
         /\ \A i \in DOMAIN p.queries[q].items : \A j \in DOMAIN p.queries[r].items :
              /\ p.queries[q].items[i].name = None
              /\ p.queries[r].items[j].name = None
              /\ p.queries[q].items[i].query = p.queries[r].items[j].query
              => q = r /\ i = j
<1>1. Placed(p, q)
  BY ProgramsAssumption DEF IsTree
<1>2. /\ \A i \in DOMAIN p.queries[q].ctes : p.queries[q].ctes[i].query \in Parts(p, q)
      /\ \A i \in DOMAIN p.queries[q].items :
           p.queries[q].items[i].name = None => p.queries[q].items[i].query \in Parts(p, q)
      /\ \A i \in DOMAIN p.queries[r].ctes : p.queries[r].ctes[i].query \in Parts(p, r)
      /\ \A i \in DOMAIN p.queries[r].items :
           p.queries[r].items[i].name = None => p.queries[r].items[i].query \in Parts(p, r)
      /\ \A x \in Parts(p, q) : x \in Parts(p, r) => r = q
  BY PartsFacts
<1>3. \A i \in DOMAIN p.queries[q].items :
        p.queries[q].items[i].name = None => p.queries[q].items[i].query # None
  BY SyntaxFacts, NoneAssumption
<1> QED
  BY <1>1, <1>2, <1>3 DEF Placed

-----------------------------------------------------------------------------
(* What names mean.                                                        *)

(* The declarations of a program are given by a query and a place.         *)
LEMMA CteFacts ==
  ASSUME NEW p
  PROVE  /\ \A q \in QueryId : \A i \in DOMAIN p.queries[q].ctes : Cte(q, i) \in Ctes(p)
         /\ \A c \in Ctes(p) : \E q \in QueryId : \E i \in DOMAIN p.queries[q].ctes :
              c = Cte(q, i)
<1>1. ASSUME NEW q \in QueryId, NEW i \in DOMAIN p.queries[q].ctes PROVE Cte(q, i) \in Ctes(p)
  <2>1. Cte(q, i) \in {Cte(q, j) : j \in DOMAIN p.queries[q].ctes}
    OBVIOUS
  <2> QED
    BY <2>1 DEF Ctes
<1>2. \A c \in Ctes(p) : \E q \in QueryId : \E i \in DOMAIN p.queries[q].ctes : c = Cte(q, i)
  BY DEF Ctes
<1> QED
  BY <1>1, <1>2

(* A name that a clause declares has a first place there.                  *)
LEMMA IndexFacts ==
  ASSUME NEW p \in Programs, NEW q \in QueryId, NEW name \in DeclaredNames(p, q)
  PROVE  IndexOf(p, q, name) \in DOMAIN p.queries[q].ctes
<1> DEFINE ctes == p.queries[q].ctes
           S == {i \in DOMAIN ctes : ctes[i].name = name}
<1>1. Len(ctes) \in Nat /\ DOMAIN ctes = 1 .. Len(ctes)
  BY SyntaxFacts
<1>2. S # {}
  BY DEF DeclaredNames, Elements
<1>3. S \in SUBSET (1 .. Len(ctes))
  BY <1>1
<1>4. PICK i \in S : \A j \in S : i <= j
  BY <1>1, <1>2, <1>3, FirstAndLast
<1>5. \A j \in 1 .. i - 1 : ctes[j].name # name
  <2> SUFFICES ASSUME NEW j \in 1 .. i - 1, ctes[j].name = name PROVE FALSE
    OBVIOUS
  <2>1. i \in 1 .. Len(ctes)
    BY <1>3
  <2>2. j \in 1 .. Len(ctes) /\ ~ (i <= j)
    BY <1>1, <2>1
  <2>3. j \in S
    BY <1>1, <2>2
  <2> QED
    BY <1>4, <2>2, <2>3
<1>6. \E k \in DOMAIN ctes :
        ctes[k].name = name /\ \A j \in 1 .. k - 1 : ctes[j].name # name
  BY <1>4, <1>5
<1> QED
  BY <1>6 DEF IndexOf

-----------------------------------------------------------------------------
(* Two query expressions around the same one enclose one another.          *)
LEMMA EnclosesComparable ==
  ASSUME NEW p \in Programs, NEW a \in QueryId, NEW b \in QueryId, NEW q \in QueryId,
         Encloses(p, a, q), Encloses(p, b, q)
  PROVE  Encloses(p, a, b) \/ Encloses(p, b, a)
<1> DEFINE comparable == Encloses(p, a, b) \/ Encloses(p, b, a)
           S == {r \in QueryId : Encloses(p, a, r) /\ (Encloses(p, b, r) => comparable)}
<1>1. a \in S
  BY EnclosesDown
<1>2. ASSUME NEW r \in S, NEW x \in Parts(p, r) PROVE x \in S
  <2>1. x \in QueryId /\ Encloses(p, a, x)
    BY PartsFacts, EnclosesDown
  <2>2. ASSUME Encloses(p, b, x) PROVE comparable
    <3>1. CASE b = x
      BY <2>1, <3>1
    <3>2. CASE b # x
      BY <2>2, <3>2, EnclosesUp
    <3> QED
      BY <3>1, <3>2
  <2> QED
    BY <2>1, <2>2
<1>3. q \in S
  BY <1>1, <1>2 DEF Encloses
<1> QED
  BY <1>3

(* What encloses a query expression of the program is of the program.      *)
LEMMA EnclosedByRoot ==
  ASSUME NEW p \in Programs, NEW a \in QueryId, NEW q \in QueryId,
         Encloses(p, p.root, q), Encloses(p, a, q)
  PROVE  Encloses(p, p.root, a)
<1>1. p.root \in QueryId
  BY SyntaxFacts
<1>2. CASE Encloses(p, p.root, a)
  BY <1>2
<1>3. CASE Encloses(p, a, p.root)
  <2>1. a = p.root
    BY <1>3, EnclosesRoot
  <2> QED
    BY <2>1, EnclosesDown
<1> QED
  BY <1>1, <1>2, <1>3, EnclosesComparable

(* Of the query expressions around q in a set one is the innermost.        *)
LEMMA InnermostExists ==
  ASSUME NEW p \in Programs, NEW q \in QueryId, NEW D \in SUBSET QueryId, D # {},
         \A d \in D : Encloses(p, d, q)
  PROVE  Innermost(p, D) \in D
<1> DEFINE S == {r \in QueryId : \E d \in D : Encloses(p, r, d)}
<1>1. S \in SUBSET QueryId /\ S # {}
  BY EnclosesDown
<1>2. PICK r \in S : Parts(p, r) \cap S = {}
  BY <1>1, ProgramsAssumption DEF IsTree
<1>3. ASSUME NEW d \in D, Encloses(p, r, d) PROVE r = d
  <2> SUFFICES ASSUME r # d PROVE FALSE
    OBVIOUS
  <2>1. PICK c \in Parts(p, r) : Encloses(p, c, d)
    BY <1>3, EnclosesByPart
  <2>2. c \in S
    BY <2>1, PartsFacts
  <2> QED
    BY <1>2, <2>2
<1>4. r \in D
  BY <1>3
<1>5. ASSUME NEW e \in D PROVE Encloses(p, e, r)
  <2>1. Encloses(p, e, r) \/ Encloses(p, r, e)
    BY <1>4, EnclosesComparable
  <2> QED
    BY <1>3, <2>1, EnclosesDown
<1>6. \E d \in D : \A e \in D : Encloses(p, e, d)
  BY <1>4, <1>5
<1> QED
  BY <1>6 DEF Innermost

(* The query of a declaration is a part of the one that declares it, and   *)
(* of no other declaration.                                                *)
LEMMA CteQueryFacts ==
  ASSUME NEW p \in Programs, NEW c \in Ctes(p)
  PROVE  /\ c # NoCte
         /\ c.query \in QueryId
         /\ CteQuery(p, c) \in QueryId
         /\ CteQuery(p, c) \in Parts(p, c.query)
         /\ \A d \in Ctes(p) : CteQuery(p, d) = CteQuery(p, c) => d = c
         /\ \A q \in QueryId : \A i \in DOMAIN p.queries[q].items :
              p.queries[q].items[i].name = None => p.queries[q].items[i].query # CteQuery(p, c)
<1>1. PICK q \in QueryId : \E i \in DOMAIN p.queries[q].ctes : c = Cte(q, i)
  BY CteFacts
<1>2. PICK i \in DOMAIN p.queries[q].ctes : c = Cte(q, i)
  BY <1>1
<1>3. c.query = q /\ c.index = i /\ CteQuery(p, c) = p.queries[q].ctes[i].query
  BY <1>2 DEF Cte, CteQuery
<1>4. c # NoCte
  BY <1>2, NoneAssumption DEF Cte, NoCte
<1>5. CteQuery(p, c) \in QueryId
  BY <1>3, SyntaxFacts
<1>6. CteQuery(p, c) \in Parts(p, c.query)
  BY <1>3, PartsFacts
<1>7. ASSUME NEW d \in Ctes(p), CteQuery(p, d) = CteQuery(p, c) PROVE d = c
  <2>1. PICK r \in QueryId : \E j \in DOMAIN p.queries[r].ctes : d = Cte(r, j)
    BY CteFacts
  <2>2. PICK j \in DOMAIN p.queries[r].ctes : d = Cte(r, j)
    BY <2>1
  <2>3. CteQuery(p, d) = p.queries[r].ctes[j].query
    BY <2>2 DEF Cte, CteQuery
  <2>4. p.queries[q].ctes[i].query = p.queries[r].ctes[j].query
    BY <1>3, <1>7, <2>3
  <2>5. \A k \in DOMAIN p.queries[q].ctes : \A l \in DOMAIN p.queries[r].ctes :
          p.queries[q].ctes[k].query = p.queries[r].ctes[l].query => q = r /\ k = l
    BY PlaceFacts
  <2>6. r = q /\ j = i
    BY <2>4, <2>5
  <2> QED
    BY <1>2, <2>2, <2>6
<1>8. ASSUME NEW r \in QueryId, NEW j \in DOMAIN p.queries[r].items,
             p.queries[r].items[j].name = None
      PROVE  p.queries[r].items[j].query # CteQuery(p, c)
  BY <1>3, <1>8, PlaceFacts
<1> QED
  BY <1>3, <1>4, <1>5, <1>6, <1>7, <1>8

(* What a name means is a declaration of a clause around it, if any.       *)
LEMMA MeaningFacts ==
  ASSUME NEW p \in Programs, NEW q \in QueryId, NEW name, Meaning(p, q, name) # NoCte
  PROVE  /\ Meaning(p, q, name) \in Ctes(p)
         /\ Encloses(p, Meaning(p, q, name).query, q)
<1> DEFINE D == Declarers(p, q, name)
           d == Innermost(p, D)
<1>1. D # {} /\ Meaning(p, q, name) = Cte(d, IndexOf(p, d, name))
  BY DEF Meaning
<1>2. /\ D \in SUBSET QueryId
      /\ \A e \in D : Encloses(p, e, q) /\ name \in DeclaredNames(p, e)
  BY DEF Declarers
<1> HIDE DEF D
<1>3. d \in D
  BY <1>1, <1>2, InnermostExists
<1>4. d \in QueryId /\ Encloses(p, d, q) /\ name \in DeclaredNames(p, d)
  BY <1>2, <1>3
<1> HIDE DEF d
<1>5. IndexOf(p, d, name) \in DOMAIN p.queries[d].ctes
  BY <1>4, IndexFacts
<1>6. Meaning(p, q, name) \in Ctes(p)
  BY <1>1, <1>4, <1>5, CteFacts
<1>7. Meaning(p, q, name).query = d
  BY <1>1 DEF Cte
<1> QED
  BY <1>4, <1>6, <1>7

-----------------------------------------------------------------------------
(* What depends on what.                                                   *)

(* S has all that c, or one of S, depends on.                              *)
ClosedFrom(p, c, S) ==
  \A d, e \in Ctes(p) : (d = c \/ d \in S) /\ DependsOn(p, d, e) => e \in S

(* What c depends on, directly or not.                                     *)
Dependencies(p, c) ==
  {d \in Ctes(p) : \A S \in SUBSET Ctes(p) : ClosedFrom(p, c, S) => d \in S}

(* q is within the query of c, or of a declaration that c depends on.      *)
IsFor(p, c, q) ==
  \E d \in Dependencies(p, c) \cup {c} : Encloses(p, CteQuery(p, d), q)

(* q names the declaration c, or has it in its own clause.                 *)
Asks(p, q, c) ==
  /\ c \in Ctes(p)
  /\ c.query = q \/ \E name \in Names(p, q) : Meaning(p, q, name) = c

(* Dependencies are closed.                                                *)
LEMMA DependenciesClosed ==
  ASSUME NEW p, NEW c \in Ctes(p), NEW d \in Dependencies(p, c) \cup {c}, NEW e \in Ctes(p),
         DependsOn(p, d, e)
  PROVE  e \in Dependencies(p, c)
<1> SUFFICES ASSUME NEW S \in SUBSET Ctes(p), ClosedFrom(p, c, S) PROVE e \in S
  BY DEF Dependencies
<1>1. d = c \/ d \in S
  BY DEF Dependencies
<1>2. d \in Ctes(p)
  BY DEF Dependencies
<1> QED
  BY <1>1, <1>2 DEF ClosedFrom

(* A declaration that has c within it depends on all that c depends on.    *)
LEMMA DependenciesWithin ==
  ASSUME NEW p \in Programs, NEW c \in Ctes(p), NEW d \in Ctes(p),
         Encloses(p, CteQuery(p, d), CteQuery(p, c))
  PROVE  Dependencies(p, c) \subseteq Dependencies(p, d)
<1> SUFFICES ASSUME NEW e \in Dependencies(p, c), NEW S \in SUBSET Ctes(p),
                    ClosedFrom(p, d, S)
             PROVE  e \in S
  BY DEF Dependencies
<1>1. CteQuery(p, c) \in QueryId /\ CteQuery(p, d) \in QueryId
  BY CteQueryFacts
<1>2. ASSUME NEW f \in Ctes(p), DependsOn(p, c, f) PROVE f \in S
  <2>1. PICK q \in QueryId : /\ Encloses(p, CteQuery(p, c), q)
                             /\ \E name \in Names(p, q) : Meaning(p, q, name) = f
    BY <1>2 DEF DependsOn
  <2>2. Encloses(p, CteQuery(p, d), q)
    BY <1>1, <2>1, EnclosesTransitive
  <2>3. DependsOn(p, d, f)
    BY <2>1, <2>2 DEF DependsOn
  <2> QED
    BY <2>3 DEF ClosedFrom
<1>3. ClosedFrom(p, c, S)
  BY <1>2 DEF ClosedFrom
<1> QED
  BY <1>3 DEF Dependencies

(* What is for c has its parts for c, and is within what c is declared for.*)
LEMMA IsForFacts ==
  ASSUME NEW p \in Programs, NEW c \in Ctes(p)
  PROVE  /\ IsFor(p, c, CteQuery(p, c))
         /\ \A q \in QueryId : \A x \in Parts(p, q) : IsFor(p, c, q) => IsFor(p, c, x)
         /\ \A q \in QueryId : \A e : IsFor(p, c, q) /\ Asks(p, q, e) => IsFor(p, c, CteQuery(p, e))
<1>0. \A d \in Dependencies(p, c) \cup {c} : d \in Ctes(p) /\ CteQuery(p, d) \in QueryId
  BY CteQueryFacts DEF Dependencies
<1>1. IsFor(p, c, CteQuery(p, c))
  BY CteQueryFacts, EnclosesDown DEF IsFor
<1>2. ASSUME NEW q \in QueryId, NEW x \in Parts(p, q), IsFor(p, c, q) PROVE IsFor(p, c, x)
  BY <1>0, <1>2, EnclosesDown DEF IsFor
<1>3. ASSUME NEW q \in QueryId, NEW e, IsFor(p, c, q), Asks(p, q, e)
      PROVE  IsFor(p, c, CteQuery(p, e))
  <2>1. e \in Ctes(p)
    BY <1>3 DEF Asks
  <2>2. CASE e.query = q
    BY <1>2, <1>3, <2>1, <2>2, CteQueryFacts
  <2>3. CASE \E name \in Names(p, q) : Meaning(p, q, name) = e
    <3>1. PICK d \in Dependencies(p, c) \cup {c} : Encloses(p, CteQuery(p, d), q)
      BY <1>3 DEF IsFor
    <3>2. DependsOn(p, d, e)
      BY <2>3, <3>1 DEF DependsOn
    <3>3. e \in Dependencies(p, c)
      BY <2>1, <3>2, DependenciesClosed
    <3>4. Encloses(p, CteQuery(p, e), CteQuery(p, e))
      BY <2>1, CteQueryFacts, EnclosesDown
    <3> QED
      BY <3>3, <3>4 DEF IsFor
  <2> QED
    BY <1>3, <2>2, <2>3 DEF Asks
<1> QED
  BY <1>1, <1>2, <1>3

(* The query of what q asks for is within what encloses q.                 *)
LEMMA AskedFacts ==
  ASSUME NEW p \in Programs, NEW q \in QueryId, NEW c, Asks(p, q, c)
  PROVE  /\ c \in Ctes(p)
         /\ Encloses(p, c.query, q)
         /\ \A d \in QueryId : Encloses(p, d, CteQuery(p, c)) =>
              d = CteQuery(p, c) \/ Encloses(p, d, q)
         /\ Encloses(p, p.root, q) => Encloses(p, p.root, CteQuery(p, c))
<1>1. c \in Ctes(p)
  BY DEF Asks
<1>2. /\ c # NoCte /\ c.query \in QueryId
      /\ CteQuery(p, c) \in QueryId /\ CteQuery(p, c) \in Parts(p, c.query)
  BY <1>1, CteQueryFacts
<1>3. Encloses(p, c.query, q)
  <2>1. CASE c.query = q
    BY <2>1, EnclosesDown
  <2>2. CASE \E name \in Names(p, q) : Meaning(p, q, name) = c
    BY <1>2, <2>2, MeaningFacts
  <2> QED
    BY <2>1, <2>2 DEF Asks
<1>4. ASSUME NEW d \in QueryId, Encloses(p, d, CteQuery(p, c)), d # CteQuery(p, c)
      PROVE  Encloses(p, d, q)
  <2>1. Encloses(p, d, c.query)
    BY <1>2, <1>4, EnclosesUp
  <2> QED
    BY <1>2, <1>3, <2>1, EnclosesTransitive
<1>5. ASSUME Encloses(p, p.root, q) PROVE Encloses(p, p.root, CteQuery(p, c))
  <2>1. Encloses(p, p.root, c.query)
    BY <1>2, <1>3, <1>5, EnclosedByRoot
  <2> QED
    BY <1>2, <2>1, SyntaxFacts, EnclosesDown
<1> QED
  BY <1>1, <1>3, <1>4, <1>5

(* A declaration that is asked for by what is for it is on a cycle, or has *)
(* one that is around it: the program is not well scoped.                  *)
LEMMA AskedIsNotFor ==
  ASSUME NEW p \in Programs, WellScoped(p), NEW q \in QueryId, Encloses(p, p.root, q),
         NEW c, Asks(p, q, c), IsFor(p, c, q)
  PROVE  FALSE
<1>1. c \in Ctes(p) /\ Encloses(p, c.query, q)
  BY AskedFacts
<1>2. PICK d \in Dependencies(p, c) \cup {c} : Encloses(p, CteQuery(p, d), q)
  BY DEF IsFor
<1>3. d \in Ctes(p)
  BY <1>1 DEF Dependencies
<1>4. /\ d.query \in QueryId /\ CteQuery(p, d) \in QueryId
      /\ CteQuery(p, d) \in Parts(p, d.query)
      /\ c.query \in QueryId /\ CteQuery(p, c) \in QueryId
      /\ CteQuery(p, c) \in Parts(p, c.query)
  BY <1>1, <1>3, CteQueryFacts
<1>5. p.root \in QueryId
  BY SyntaxFacts
<1>6. Encloses(p, p.root, c.query)
  BY <1>1, <1>4, EnclosedByRoot
<1>7. Encloses(p, p.root, d.query)
  <2>1. Encloses(p, d.query, CteQuery(p, d))
    BY <1>4, EnclosesDown
  <2>2. Encloses(p, d.query, q)
    BY <1>2, <1>4, <2>1, EnclosesTransitive
  <2> QED
    BY <1>4, <2>2, EnclosedByRoot
<1>8. ASSUME NEW e \in Ctes(p), e \in Dependencies(p, e) PROVE OnCycle(p, e)
  BY <1>8 DEF OnCycle, Dependencies, ClosedFrom
<1>9. CASE \E name \in Names(p, q) : Meaning(p, q, name) = c
  <2>1. DependsOn(p, d, c)
    BY <1>2, <1>9 DEF DependsOn
  <2>2. c \in Dependencies(p, c)
    BY <1>1, <2>1, DependenciesClosed
  <2> QED
    BY <1>1, <1>6, <1>8, <2>2 DEF WellScoped
<1>10. CASE c.query = q
  <2>1. Encloses(p, CteQuery(p, d), CteQuery(p, c))
    BY <1>2, <1>4, <1>10, EnclosesDown
  <2>2. CASE d = c
    <3>1. Encloses(p, q, CteQuery(p, c))
      BY <1>4, <1>10, EnclosesDown
    <3>2. CteQuery(p, c) = q
      BY <1>2, <1>4, <2>2, <3>1, EnclosesAntisymmetric
    <3> QED
      BY <1>4, <1>10, <3>2, NoPartOfItself
  <2>3. CASE d # c
    <3>1. d \in Dependencies(p, d)
      BY <1>1, <1>2, <1>3, <2>1, <2>3, DependenciesWithin
    <3> QED
      BY <1>3, <1>7, <1>8, <3>1 DEF WellScoped
  <2> QED
    BY <2>2, <2>3
<1> QED
  BY <1>9, <1>10 DEF Asks
=============================================================================
