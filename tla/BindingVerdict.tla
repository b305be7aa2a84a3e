--------------------------- MODULE BindingVerdict ---------------------------
(***************************************************************************)
(* What binding promises about the relation names of a program             *)
(* (docs/specification/07, section 4, and 03, section 3): a program is     *)
(* bound exactly when every clause declares each name once, every name has *)
(* one meaning and no declaration depends on itself, in unreferenced       *)
(* declarations as well; an error is true of the name it gives.  Which of  *)
(* several errors is reported is left open here.                           *)
(***************************************************************************)
EXTENDS QueryScopes

VARIABLES
  program,    \* the program and catalog submitted
  verdict     \* the result of bind, or Pending

verdictVars == <<program, verdict>>

Verdict(kind, name) == [kind |-> kind, name |-> name]

Pending == Verdict("pending", None)
Bound   == Verdict("bound", None)

VerdictKinds ==
  {"pending", "bound", "DuplicateCommonTableExpression", "UnknownRelation",
   "AmbiguousRelation", "CommonTableExpressionCycle"}

-----------------------------------------------------------------------------
(* The query of c, or a query expression within it, names d.               *)
DependsOn(p, c, d) ==
  \E q \in QueryId : /\ Encloses(p, CteQuery(p, c), q)
                     /\ \E name \in Names(p, q) : Meaning(p, q, name) = d

OnCycle(p, c) ==
  \A S \in SUBSET Ctes(p) :
     (\A d, e \in Ctes(p) : (d = c \/ d \in S) /\ DependsOn(p, d, e) => e \in S) => c \in S

Repeated(p, q, name) ==
  \E i, j \in DOMAIN p.queries[q].ctes :
     i # j /\ p.queries[q].ctes[i].name = name /\ p.queries[q].ctes[j].name = name

FromCatalog(p, q, name) == name \in Names(p, q) /\ Meaning(p, q, name) = NoCte

(* The error v is true of the program p.                                   *)
Justified(p, v) ==
  \/ \E name \in Name :
       \/ /\ \E q \in QueryId : Encloses(p, p.root, q) /\ Repeated(p, q, name)
          /\ v = Verdict("DuplicateCommonTableExpression", name)
       \/ /\ \E q \in QueryId : FromCatalog(p, q, name)
          /\ \/ p.relations[name] = 0 /\ v = Verdict("UnknownRelation", name)
             \/ p.relations[name] > 1 /\ v = Verdict("AmbiguousRelation", name)
  \/ \E c \in Ctes(p) :
       OnCycle(p, c) /\ v = Verdict("CommonTableExpressionCycle", CteName(p, c))

WellScoped(p) ==
  /\ \A q \in QueryId : Encloses(p, p.root, q) =>
       /\ \A name \in Name : ~ Repeated(p, q, name)
       /\ \A name \in Name : FromCatalog(p, q, name) => p.relations[name] = 1
  /\ \A c \in Ctes(p) : Encloses(p, p.root, c.query) => ~ OnCycle(p, c)

Correct(p, v) == IF WellScoped(p) THEN v = Bound ELSE Justified(p, v)

Init == program \in Programs /\ verdict = Pending

Decide ==
  /\ verdict = Pending
  /\ Correct(program, verdict')
  /\ UNCHANGED program

(* There is always a verdict in the end.                                   *)
Spec == Init /\ [][Decide]_verdictVars /\ <>(verdict # Pending)
=============================================================================
