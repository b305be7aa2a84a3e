----------------------------- MODULE QueryTrees -----------------------------
(***************************************************************************)
(* Syntax trees for TLC.  Each of four query expressions is given a place: *)
(* the query it stands in, and as what, a declaration or a nested query.   *)
(* A body is a SELECT from one named table, and what is nested: joined to  *)
(* it, in its WHERE, or an operand of a set operation.                     *)
(***************************************************************************)
EXTENDS QueryScopes, SequencesExt

CONSTANTS x, y, z

TreeQueryId == 0 .. 3

Nested == {"table", "parentheses", "exists", "in"}

(* Every query but the root stands in an earlier one.                      *)
PlacesAs(kinds) ==
  {place \in [1 .. 3 -> [in : 0 .. 2, as : kinds]] : \A q \in 1 .. 3 : place[q].in < q}

LOCAL Sorted(S) == SetToSortSeq(S, LAMBDA q, r : q < r)

(* A body with parentheses is a set operation; one with derived tables is, *)
(* if `unions` says so, and else a join.                                   *)
Syntax(place, names, namesFirst, unions) ==
  [q \in 0 .. 3 |->
     LET within  == {r \in 1 .. 3 : place[r].in = q}
         ctes    == Sorted({r \in within : place[r].as \notin Nested})
         sources == Sorted({r \in within : place[r].as \in {"table", "parentheses"}})
         queries == Sorted({r \in within : place[r].as \in {"exists", "in"}})
         Part(r) == [name |-> None, query |-> r, place |-> place[r].as]
         name    == <<[name |-> names[q], query |-> None, place |-> "table"]>>
         nested  == [i \in DOMAIN sources |-> Part(sources[i])]
     IN [ctes  |-> [i \in DOMAIN ctes |-> [name |-> place[ctes[i]].as, query |-> ctes[i]]],
         items |-> (IF namesFirst THEN name \o nested ELSE nested \o name)
                      \o [i \in DOMAIN queries |-> Part(queries[i])],
         setOperation |->
           \/ unions /\ sources # <<>>
           \/ \E r \in within : place[r].as = "parentheses"]]

ProgramOf(syntax, relations) == [root |-> 0, queries |-> syntax, relations |-> relations]

(* A catalog with one relation of each name, and those where the number of *)
(* relations named y makes the name unknown or ambiguous.                  *)
OneOfEach == [n \in {x, y, z} |-> 1]
NoneOrTwo == {[OneOfEach EXCEPT ![y] = n] : n \in {0, 2}}
=============================================================================
