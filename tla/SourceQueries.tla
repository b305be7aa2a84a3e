--------------------------- MODULE SourceQueries ---------------------------
(***************************************************************************)
(* Queries as the parser leaves them (src/ast.rs) and as the binder and    *)
(* the type checker hand them on (src/hir.rs), without WITH clauses, which *)
(* CteBinding and CtePhases model.  One shape of record serves both: the   *)
(* binder resolves names, the type checker fills in descriptors.           *)
(*                                                                         *)
(* A place, the path from the program to a part of it, stands for what the *)
(* code draws from counters or reads from spans: two parts have one place  *)
(* only where two select items come from one wildcard.                     *)
(***************************************************************************)
EXTENDS NodeRules

(* kind: the ExpressionKind; op: operator, function, cast target, "else" or *)
(* "negated"; ref: column, field or query; over: at most one OVER clause.  *)
Term(kind, op, ref, args, value, over) ==
  [kind |-> kind, op |-> op, ref |-> ref, args |-> args, value |-> value, over |-> over,
   place |-> <<>>, descriptor |-> Invalid]

OverClause(partition, order) == <<[partition |-> partition, order |-> order]>>

(* A SELECT item, one joined table of FROM, a block, a body, a query.      *)
SelectItem(wildcard, qualifier, expr, alias) ==
  [wildcard |-> wildcard, qualifier |-> qualifier, expr |-> expr, alias |-> alias]

TablePrimary(relation, query, alias) == [relation |-> relation, query |-> query, alias |-> alias]

JoinedTable(left, joins) == [left |-> left, joins |-> joins]

Join1(how, right, condition) == [how |-> how, right |-> right, condition |-> condition]

Block(distinct, items, from, where, groupBy, having) ==
  [distinct |-> distinct, items |-> items, from |-> from, where |-> where,
   groupBy |-> groupBy, having |-> having]

(* kind: "select", "parenthesized" or "set"; parts: the block, the query,  *)
(* or the two operand bodies.                                              *)
Body(kind, how, parts) == [kind |-> kind, how |-> how, parts |-> parts]

Query(body, orderBy, bounds) == [body |-> body, orderBy |-> orderBy, bounds |-> bounds]

-----------------------------------------------------------------------------
OrderExprs(order) == [i \in DOMAIN order |-> order[i].expr]

(* Every subexpression one level down, those of an OVER clause included.   *)
Children(e) ==
  e.args \o (IF e.over = <<>> THEN <<>> ELSE e.over[1].partition \o OrderExprs(e.over[1].order))

(* An order with another expression in each item.                          *)
Reordered(order, exprs) == [i \in DOMAIN order |-> [order[i] EXCEPT !.expr = exprs[i]]]

(* The empty sequence in front makes TLC compute every image once and keep *)
(* it, where a bare function is computed anew at each application.         *)
MapAll(exprs, F(_)) == <<>> \o [i \in DOMAIN exprs |-> F(exprs[i])]

MapChildren(e, F(_)) ==
  [e EXCEPT
     !.args = MapAll(@, F),
     !.over = [i \in DOMAIN @ |->
                 [partition |-> MapAll(@[i].partition, F),
                  order |-> Reordered(@[i].order, MapAll(OrderExprs(@[i].order), F))]]]

(* Every subexpression in the order of the source, the expression first.   *)
RECURSIVE Subterms(_)
Subterms(e) == <<e>> \o FlattenSeq(MapAll(Children(e), Subterms))

IsGroupingAggregate(e) == e.kind = "aggregate" /\ e.over = <<>>
IsWindow(e)            == e.over # <<>>

(* contains_grouping_aggregate.                                            *)
HasGroupingAggregate(e) == \E x \in Range(Subterms(e)) : IsGroupingAggregate(x)

RECURSIVE WithoutParentheses(_)
WithoutParentheses(e) == IF e.kind = "parenthesized" THEN WithoutParentheses(e.args[1]) ELSE e

(* direct_field of the type checker, expression_field of the binder.       *)
IsDirectField(e) == WithoutParentheses(e).kind = "field"
DirectField(e)   == WithoutParentheses(e).ref

SameOver(a, b) ==
  /\ DOMAIN a = DOMAIN b
  /\ \A i \in DOMAIN a :
       /\ Len(a[i].partition) = Len(b[i].partition) /\ Len(a[i].order) = Len(b[i].order)
       /\ \A k \in DOMAIN a[i].order :
            /\ a[i].order[k].descending = b[i].order[k].descending
            /\ a[i].order[k].nulls = b[i].order[k].nulls

(* Mutant: parentheses make expressions differ.                            *)
RECURSIVE EqualWithParentheses(_, _)
EqualWithParentheses(a, b) ==
  /\ a.kind = b.kind /\ a.op = b.op /\ a.kind \notin {"exists", "in_query"}
  /\ a.ref = b.ref /\ a.value = b.value /\ SameOver(a.over, b.over)
  /\ Len(Children(a)) = Len(Children(b))
  /\ \A i \in DOMAIN Children(a) : EqualWithParentheses(Children(a)[i], Children(b)[i])

(* structurally_equal: of bound expressions, redundant parentheses ignored; *)
(* what holds a query equals nothing.                                      *)
RECURSIVE StructurallyEqual(_, _)
StructurallyEqual(left, right) ==
  LET a == WithoutParentheses(left)
      b == WithoutParentheses(right)
  IN /\ a.kind = b.kind /\ a.op = b.op /\ a.kind \notin {"exists", "in_query"}
     /\ a.ref = b.ref /\ a.value = b.value /\ SameOver(a.over, b.over)
     /\ Len(Children(a)) = Len(Children(b))
     /\ \A i \in DOMAIN Children(a) : StructurallyEqual(Children(a)[i], Children(b)[i])

-----------------------------------------------------------------------------
(* Identities: what fresh_field and temporary_field give.                  *)
FieldAt(use, place, i) == <<use, place, i>>

RECURSIVE Placed(_, _)
Placed(e, place) ==
  [e EXCEPT
     !.place = place,
     !.args = [i \in DOMAIN @ |-> Placed(@[i], place \o <<1, i>>)],
     !.over = [k \in DOMAIN @ |->
                 [partition |-> [i \in DOMAIN @[k].partition |->
                                   Placed(@[k].partition[i], place \o <<2, i>>)],
                  order |-> [i \in DOMAIN @[k].order |->
                               [@[k].order[i] EXCEPT !.expr = Placed(@, place \o <<3, i>>)]]]]]
=============================================================================
