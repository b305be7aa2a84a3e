----------------------------- MODULE QueryScopes -----------------------------
(***************************************************************************)
(* The names of relations in a program and what they mean                  *)
(* (docs/specification/07, section 4): WITH clauses nest with the query    *)
(* expressions that carry them, a clause is visible in its own queries and *)
(* in all that it governs, and the innermost one decides.                  *)
(*                                                                         *)
(* Of the syntax tree (src/ast.rs) only this is kept: the query expressions,*)
(* the declarations of each, and, in the order bind_query_expression comes *)
(* to them, the names and the query expressions in its body and ORDER BY.  *)
(***************************************************************************)
EXTENDS Naturals, Sequences

CONSTANTS
  QueryId,    \* query expressions, told apart by where they stand
  Name,       \* names of relations, case folded
  Programs,   \* the programs and catalogs a caller may submit
  None

(* A named table, or a query expression nested as a derived table, in      *)
(* parentheses, or in EXISTS or IN.                                        *)
Item == [name : Name, query : {None}, place : {"table"}]
          \cup [name  : {None}, query : QueryId,
                place : {"table", "parentheses", "exists", "in"}]

QuerySyntax == [ctes         : Seq([name : Name, query : QueryId]),
                items        : Seq(Item),
                setOperation : BOOLEAN]     \* the body is UNION, INTERSECT or EXCEPT

Program == [root      : QueryId,
            queries   : [QueryId -> QuerySyntax],
            relations : [Name -> Nat]]   \* how many the catalog has of a name

Elements(s) == {s[i] : i \in DOMAIN s}

Names(p, q) == {i.name : i \in Elements(p.queries[q].items)} \ {None}

DeclaredNames(p, q) == {c.name : c \in Elements(p.queries[q].ctes)}

(* The query expressions directly within one.                              *)
Parts(p, q) ==
  {c.query : c \in Elements(p.queries[q].ctes)}
    \cup ({i.query : i \in Elements(p.queries[q].items)} \ {None})

(* Syntax is a tree: every query expression stands in one place.           *)
Placed(p, q) ==
  LET ctes == p.queries[q].ctes
      items == p.queries[q].items
  IN /\ \A i, j \in DOMAIN ctes : ctes[i].query = ctes[j].query => i = j
     /\ \A i, j \in DOMAIN items :
          items[i].query = items[j].query /\ items[i].query # None => i = j
     /\ \A i \in DOMAIN ctes, j \in DOMAIN items : ctes[i].query # items[j].query

IsTree(p) ==
  /\ \A q \in QueryId : p.root \notin Parts(p, q) /\ Placed(p, q)
  /\ \A q, r \in QueryId : q # r => Parts(p, q) \cap Parts(p, r) = {}
  /\ \A S \in SUBSET QueryId : S # {} => \E q \in S : Parts(p, q) \cap S = {}

ASSUME NoneAssumption     == None \notin QueryId \cup Name
ASSUME ProgramsAssumption == Programs \subseteq {p \in Program : IsTree(p)}

-----------------------------------------------------------------------------
(* `outer` is q or has q somewhere within it.                              *)
Encloses(p, outer, q) ==
  \A S \in SUBSET QueryId :
     outer \in S /\ (\A r \in S : Parts(p, r) \subseteq S) => q \in S

(* The query expressions whose WITH clause declares a name visible in q.   *)
Declarers(p, q, name) ==
  {d \in QueryId : Encloses(p, d, q) /\ name \in DeclaredNames(p, d)}

Innermost(p, D) == CHOOSE d \in D : \A e \in D : Encloses(p, e, d)

(* A declaration is named by its clause and its place there.               *)
Cte(query, index) == [query |-> query, index |-> index]

NoCte == Cte(None, 0)

Ctes(p) == UNION {{Cte(q, i) : i \in DOMAIN p.queries[q].ctes} : q \in QueryId}

CteName(p, cte) == p.queries[cte.query].ctes[cte.index].name
CteQuery(p, cte) == p.queries[cte.query].ctes[cte.index].query

IndexOf(p, q, name) ==
  CHOOSE i \in DOMAIN p.queries[q].ctes :
    /\ p.queries[q].ctes[i].name = name
    /\ \A j \in 1 .. i - 1 : p.queries[q].ctes[j].name # name

(* What a name means in q: a declaration, or NoCte for a catalog relation. *)
Meaning(p, q, name) ==
  LET D == Declarers(p, q, name)
  IN IF D = {} THEN NoCte
     ELSE Cte(Innermost(p, D), IndexOf(p, Innermost(p, D), name))
=============================================================================
