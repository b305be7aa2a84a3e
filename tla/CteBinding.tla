----------------------------- MODULE CteBinding -----------------------------
(***************************************************************************)
(* How the binder of src/bind.rs finds the meaning of relation names.  A   *)
(* declaration is bound when it is first named, or at the latest at the    *)
(* end of the query expression that carries its WITH clause: by recursion  *)
(* from wherever the name stands, but in the scopes of the clause.         *)
(*                                                                         *)
(* The recursion of bind_query_expression is modelled by a call stack.  In *)
(* each query expression the body comes first, then ORDER BY, then         *)
(* finish_cte_scope.  Names of fields and the fresh identities are left out.*)
(***************************************************************************)
EXTENDS BindingVerdict

VARIABLES
  call,         \* the bind_query_expression being entered, or NoCall
  stack,        \* the active ones: [query, chain, scope, next, for]
  scopes,       \* Binder.cte_scopes: [query, chain, states]
  meanings,     \* history: what each name was bound to
  bindings      \* history: how often each query expression was entered

binderVars == <<program, verdict, call, stack, scopes, meanings, bindings>>

(* A call binds `query` in the scopes `chain`; `for` is the declaration    *)
(* that bind_cte binds by it, if any.                                      *)
Call(query, chain, for) == [query |-> query, chain |-> chain, for |-> for]

(* CteReference: a scope of the binder and a declaration of that scope.    *)
Reference(scope, declaration) == [scope |-> scope, declaration |-> declaration]

NoReference == Reference(0, 0)
NoCall      == Call(None, <<>>, NoReference)

BinderInit ==
  /\ Init
  /\ call = Call(program.root, <<>>, NoReference)
  /\ stack = <<>>
  /\ scopes = <<>>
  /\ meanings = {}
  /\ bindings = [q \in QueryId |-> 0]

Fail(kind, name) ==
  /\ verdict' = Verdict(kind, name)
  /\ UNCHANGED <<program, call, stack, scopes, meanings, bindings>>

-----------------------------------------------------------------------------
(* bind_query_expression is entered: establish_cte_scope.                  *)

RejectDuplicate ==
  /\ verdict = Pending
  /\ call # NoCall
  /\ LET ctes == program.queries[call.query].ctes
         again == {i \in DOMAIN ctes : \E j \in 1 .. i - 1 : ctes[j].name = ctes[i].name}
     IN \E i \in again : /\ \A j \in again : i <= j
                         /\ Fail("DuplicateCommonTableExpression", ctes[i].name)

FreshScope == Len(scopes) + 1

EstablishScope ==
  /\ verdict = Pending
  /\ call # NoCall
  /\ \A name \in Name : ~ Repeated(program, call.query, name)
  /\ LET ctes  == program.queries[call.query].ctes
         scope == IF ctes = <<>> THEN 0 ELSE FreshScope
         chain == IF ctes = <<>> THEN call.chain ELSE Append(call.chain, scope)
     IN /\ stack' = Append(stack, [query |-> call.query, chain |-> chain, scope |-> scope,
                                   next |-> 1, for |-> call.for])
        /\ scopes' = IF ctes = <<>> THEN scopes
                     ELSE Append(scopes, [query |-> call.query, chain |-> chain,
                                          states |-> [i \in DOMAIN ctes |-> "Unvisited"]])
  /\ bindings' = [bindings EXCEPT ![call.query] = @ + 1]
  /\ call' = NoCall
  /\ UNCHANGED <<program, verdict, meanings>>

-----------------------------------------------------------------------------
Binding == stack[Len(stack)]

Items == program.queries[Binding.query].items

(* The body and ORDER BY of the innermost query expression: not yet done.  *)
InBody == verdict = Pending /\ call = NoCall /\ stack # <<>> /\ Binding.next <= Len(Items)

(* finish_cte_scope, and the return when it has nothing left to do.        *)
AtEnd == verdict = Pending /\ call = NoCall /\ stack # <<>> /\ Binding.next > Len(Items)

ThisName == Items[Binding.next].name

StateOf(ref) == scopes[ref.scope].states[ref.declaration]

Declares(scope, name) == name \in DeclaredNames(program, scopes[scope].query)

(* resolve_cte: the chain is searched from its innermost scope outwards.   *)
ResolveCte(chain, name) ==
  LET found == {k \in DOMAIN chain : Declares(chain[k], name)}
  IN IF found = {} THEN NoReference
     ELSE LET k == CHOOSE k \in found : \A j \in found : j <= k
          IN Reference(chain[k], IndexOf(program, scopes[chain[k]].query, name))

(* The first declaration finish_cte_scope finds not yet bound.             *)
Unfinished ==
  IF Binding.scope = 0 THEN NoReference
  ELSE LET states == scopes[Binding.scope].states
           open   == {i \in DOMAIN states : states[i] # "Bound"}
       IN IF open = {} THEN NoReference
          ELSE Reference(Binding.scope, CHOOSE i \in open : \A j \in open : i <= j)

(* The declaration bind_cte is called for next, by a name or at the end.   *)
Demanded ==
  IF InBody THEN ResolveCte(Binding.chain, ThisName) ELSE Unfinished

DemandsCte == /\ (InBody /\ ThisName # None) \/ AtEnd
              /\ Demanded # NoReference

Proceed == stack' = [stack EXCEPT ![Len(stack)] = [Binding EXCEPT !.next = @ + 1]]

Record(meaning) ==
  meanings' = meanings \cup
    {[query |-> Binding.query, name |-> ThisName, meaning |-> meaning]}

Declaration(ref) == Cte(scopes[ref.scope].query, ref.declaration)

Body(ref) == CteQuery(program, Declaration(ref))

SetState(ref, state) ==
  scopes' = [scopes EXCEPT ![ref.scope].states[ref.declaration] = state]

-----------------------------------------------------------------------------
(* bind_table_primary for a name that is no declaration.                   *)

RejectUnknown ==
  /\ InBody /\ ThisName # None /\ Demanded = NoReference
  /\ program.relations[ThisName] = 0
  /\ Fail("UnknownRelation", ThisName)

RejectAmbiguous ==
  /\ InBody /\ ThisName # None /\ Demanded = NoReference
  /\ program.relations[ThisName] > 1
  /\ Fail("AmbiguousRelation", ThisName)

UseRelation ==
  /\ InBody /\ ThisName # None /\ Demanded = NoReference
  /\ program.relations[ThisName] = 1
  /\ Proceed
  /\ Record(NoCte)
  /\ UNCHANGED <<program, verdict, call, scopes, bindings>>

-----------------------------------------------------------------------------
(* bind_cte(Demanded)                                                      *)

RejectCycle ==
  /\ DemandsCte
  /\ StateOf(Demanded) = "Binding"
  /\ Fail("CommonTableExpressionCycle", CteName(program, Declaration(Demanded)))

(* Mutants: in the scopes of the query that names the declaration; without *)
(* marking the declaration.                                                *)
BindWhereNamed ==
  /\ DemandsCte
  /\ StateOf(Demanded) = "Unvisited"
  /\ SetState(Demanded, "Binding")
  /\ call' = Call(Body(Demanded), Binding.chain, Demanded)
  /\ UNCHANGED <<program, verdict, stack, meanings, bindings>>

BindUnmarked ==
  /\ DemandsCte
  /\ StateOf(Demanded) = "Unvisited"
  /\ call' = Call(Body(Demanded), scopes[Demanded.scope].chain, Demanded)
  /\ UNCHANGED <<program, verdict, stack, scopes, meanings, bindings>>

BindDeclaration ==
  /\ DemandsCte
  /\ StateOf(Demanded) = "Unvisited"
  /\ SetState(Demanded, "Binding")
  /\ call' = Call(Body(Demanded), scopes[Demanded.scope].chain, Demanded)
  /\ UNCHANGED <<program, verdict, stack, meanings, bindings>>

(* The named declaration is bound, before or just now.                     *)
UseDeclaration ==
  /\ InBody /\ DemandsCte
  /\ StateOf(Demanded) = "Bound"
  /\ Proceed
  /\ Record(Declaration(Demanded))
  /\ UNCHANGED <<program, verdict, call, scopes, bindings>>

-----------------------------------------------------------------------------
(* A derived table, a parenthesized query, or the query of EXISTS or IN.   *)
BindNested ==
  /\ InBody /\ ThisName = None
  /\ Proceed
  /\ call' = Call(Items[Binding.next].query, Binding.chain, NoReference)
  /\ UNCHANGED <<program, verdict, scopes, meanings, bindings>>

(* Mutant: declarations that nothing names stay unbound.                   *)
ReturnEarly ==
  /\ AtEnd
  /\ stack' = SubSeq(stack, 1, Len(stack) - 1)
  /\ IF Binding.for = NoReference THEN UNCHANGED scopes ELSE SetState(Binding.for, "Bound")
  /\ verdict' = IF Len(stack) = 1 THEN Bound ELSE Pending
  /\ UNCHANGED <<program, call, meanings, bindings>>

(* Mutant: bind_cte keeps no result.                                       *)
ReturnUnrecorded ==
  /\ AtEnd /\ Unfinished = NoReference
  /\ stack' = SubSeq(stack, 1, Len(stack) - 1)
  /\ IF Binding.for = NoReference THEN UNCHANGED scopes ELSE SetState(Binding.for, "Unvisited")
  /\ verdict' = IF Len(stack) = 1 THEN Bound ELSE Pending
  /\ UNCHANGED <<program, call, meanings, bindings>>

Return ==
  /\ AtEnd /\ Unfinished = NoReference
  /\ stack' = SubSeq(stack, 1, Len(stack) - 1)
  /\ IF Binding.for = NoReference THEN UNCHANGED scopes ELSE SetState(Binding.for, "Bound")
  /\ verdict' = IF Len(stack) = 1 THEN Bound ELSE Pending
  /\ UNCHANGED <<program, call, meanings, bindings>>

BinderNext ==
  \/ RejectDuplicate \/ EstablishScope
  \/ RejectUnknown \/ RejectAmbiguous \/ UseRelation
  \/ RejectCycle \/ BindDeclaration \/ UseDeclaration
  \/ BindNested \/ Return

(* bind is a sequential call: nothing but its own end stops it.            *)
BinderSpec == BinderInit /\ [][BinderNext]_binderVars /\ WF_binderVars(BinderNext)

-----------------------------------------------------------------------------
(* Type invariant: the stack, the scopes and the references between them   *)
(* keep their shape; no reference dangles.                                 *)
BinderTypeOK ==
  /\ verdict.kind \in VerdictKinds /\ verdict.name \in Name \cup {None}
  /\ call # NoCall => call.query \in QueryId
  /\ \A i \in DOMAIN scopes :
       /\ DOMAIN scopes[i].states = DOMAIN program.queries[scopes[i].query].ctes
       /\ \A k \in DOMAIN scopes[i].states :
            scopes[i].states[k] \in {"Unvisited", "Binding", "Bound"}
  /\ \A f \in Elements(stack) \cup ({call} \ {NoCall}) :
       /\ Elements(f.chain) \subseteq DOMAIN scopes
       /\ f.for # NoReference => /\ f.for.scope \in DOMAIN scopes
                                 /\ f.for.declaration \in DOMAIN scopes[f.for.scope].states
  /\ bindings \in [QueryId -> Nat]

(* Every scope chain is the WITH clauses around the query, outermost first.*)
ChainIsLexical ==
  \A f \in Elements(stack) :
    /\ \A k, l \in DOMAIN f.chain :
         k < l => Encloses(program, scopes[f.chain[k]].query, scopes[f.chain[l]].query)
    /\ {scopes[f.chain[k]].query : k \in DOMAIN f.chain}
         = {q \in QueryId : /\ program.queries[q].ctes # <<>>
                            /\ Encloses(program, q, f.query)}

(* A name means what the program text says, wherever the binder was when   *)
(* it came to bind the declaration the name stands in.                     *)
MeaningIsLexical ==
  \A m \in meanings : m.meaning = Meaning(program, m.query, m.name)

ScopingIsLexical == ChainIsLexical /\ MeaningIsLexical

(* The declarations marked Binding are those being bound, each by one call:*)
(* a declaration found in this state depends on itself.                    *)
BindingIsActive ==
  LET active == [i \in DOMAIN stack |-> stack[i].for]
      marked == {r \in UNION {{Reference(s, k) : k \in DOMAIN scopes[s].states} :
                                 s \in DOMAIN scopes} : StateOf(r) = "Binding"}
  IN verdict = Pending =>
       /\ marked = (Elements(active) \cup {call.for}) \ {NoReference}
       /\ \A i, j \in DOMAIN active : active[i] = active[j] /\ active[i] # NoReference => i = j

(* No query expression is bound twice, however often and from wherever the *)
(* declaration it belongs to is named.                                     *)
BoundAtMostOnce == \A q \in QueryId : bindings[q] <= 1

(* The answer is right whenever there is one.                              *)
VerdictIsCorrect == verdict # Pending => Correct(program, verdict)

(* bind implements its promise, and returns.                               *)
Promise == INSTANCE BindingVerdict

ImplementsBindingVerdict == Promise!Spec
=============================================================================
