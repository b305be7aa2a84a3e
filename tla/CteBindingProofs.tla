-------------------------- MODULE CteBindingProofs --------------------------
(***************************************************************************)
(* Proofs about the binder, for every set of programs: names mean what the *)
(* program text says, although a declaration is bound by recursion from    *)
(* wherever it is first named; the answer is the right one, and the binder *)
(* implements the safety part of its promise; and no query expression is   *)
(* bound twice, although a declaration is bound from wherever it is named  *)
(* and again at the end of its clause.                                     *)
(***************************************************************************)
EXTENDS CteBinding, QueryScopesProofs

-----------------------------------------------------------------------------
(* The inductive invariant.                                                *)

(* The query expressions with a WITH clause that enclose q, and of these   *)
(* the ones around it: what is visible in a clause, and from outside it.   *)
Around(p, q) == {d \in QueryId : p.queries[d].ctes # <<>> /\ Encloses(p, d, q)}
Outside(p, q) == Around(p, q) \ {q}

(* The chain has a scope of each of these queries, the outermost first.    *)
IsChain(p, S, chain, queries) ==
  /\ chain \in Seq(DOMAIN S)
  /\ \A k, l \in DOMAIN chain :
       k < l => Encloses(p, S[chain[k]].query, S[chain[l]].query)
  /\ {S[chain[k]].query : k \in DOMAIN chain} = queries

(* The declarations of the scopes S.                                       *)
References(S) ==
  {r \in [scope : DOMAIN S, declaration : Nat] : r.declaration \in DOMAIN S[r.scope].states}

ReferenceType == [scope : Nat, declaration : Nat]

ScopeType == [query  : QueryId,
              chain  : Seq(Nat),
              states : Seq({"Unvisited", "Binding", "Bound"})]

FrameType == [query : QueryId, chain : Seq(Nat), scope : Nat, next : Nat \ {0},
              for : ReferenceType]

CallType == [query : QueryId \cup {None}, chain : Seq(Nat), for : ReferenceType]

VerdictType == [kind : VerdictKinds, name : Name \cup {None}]

ScopeIsLexical(p, S, scope) ==
  /\ DOMAIN scope.states = DOMAIN p.queries[scope.query].ctes
  /\ IsChain(p, S, scope.chain, Around(p, scope.query))

FrameIsLexical(p, S, frame) ==
  /\ IsChain(p, S, frame.chain, Around(p, frame.query))
  /\ frame.scope \in {0} \cup DOMAIN S
  /\ frame.for \in References(S) \cup {NoReference}

CallIsLexical(p, S, c) ==
  /\ c.query \in QueryId
  /\ IsChain(p, S, c.chain, Outside(p, c.query))
  /\ c.for \in References(S) \cup {NoReference}

(* Every scope, every active call and the one being entered has the chain  *)
(* of the clauses around it.                                               *)
ScopesInvariant ==
  /\ program \in Programs
  /\ verdict \in VerdictType
  /\ bindings \in [QueryId -> Nat]
  /\ scopes \in Seq(ScopeType)
  /\ \A s \in DOMAIN scopes : ScopeIsLexical(program, scopes, scopes[s])
  /\ stack \in Seq(FrameType)
  /\ \A i \in DOMAIN stack : FrameIsLexical(program, scopes, stack[i])
  /\ call \in CallType
  /\ call # NoCall => CallIsLexical(program, scopes, call)

(* While binding goes on the declarations marked Binding are those of the  *)
(* active calls and of the call being entered, each of one call.           *)
MarksAreActive ==
  verdict = Pending =>
    /\ \A r \in References(scopes) :
         StateOf(r) = "Binding" <=> (call.for = r \/ \E i \in DOMAIN stack : stack[i].for = r)
    /\ \A i, j \in DOMAIN stack :
         stack[i].for = stack[j].for /\ stack[i].for # NoReference => i = j
    /\ call.for # NoReference => \A i \in DOMAIN stack : stack[i].for # call.for

BinderInvariant == ScopesInvariant /\ MarksAreActive /\ MeaningIsLexical

-----------------------------------------------------------------------------
(* Facts about scopes.                                                     *)

(* No reference is the placeholder.                                        *)
LEMMA ReferenceFacts ==
  ASSUME NEW S \in Seq(ScopeType), NEW r \in References(S)
  PROVE  /\ r \in ReferenceType
         /\ r # NoReference
         /\ r = Reference(r.scope, r.declaration)
         /\ r.scope \in 1 .. Len(S)
         /\ r.declaration \in DOMAIN S[r.scope].states
<1>1. DOMAIN S = 1 .. Len(S) /\ Len(S) \in Nat
  BY LenProperties
<1>2. /\ r \in [scope : DOMAIN S, declaration : Nat]
      /\ r.declaration \in DOMAIN S[r.scope].states
  BY DEF References
<1> QED
  BY <1>1, <1>2 DEF ReferenceType, NoReference, Reference

(* When scopes are added and no scope changes but in the states of its     *)
(* declarations, chains and references keep what they mean.                *)
LEMMA ScopesGrow ==
  ASSUME NEW p, NEW S \in Seq(ScopeType), NEW T \in Seq(ScopeType), Len(S) <= Len(T),
         \A s \in DOMAIN S : /\ T[s].query = S[s].query
                             /\ T[s].chain = S[s].chain
                             /\ DOMAIN T[s].states = DOMAIN S[s].states
  PROVE  /\ DOMAIN S \subseteq DOMAIN T
         /\ References(S) \subseteq References(T)
         /\ \A chain, D : IsChain(p, S, chain, D) => IsChain(p, T, chain, D)
         /\ \A s \in DOMAIN S : ScopeIsLexical(p, S, S[s]) => ScopeIsLexical(p, T, T[s])
         /\ \A f : FrameIsLexical(p, S, f) => FrameIsLexical(p, T, f)
         /\ \A c : CallIsLexical(p, S, c) => CallIsLexical(p, T, c)
<1>1. DOMAIN S = 1 .. Len(S) /\ DOMAIN T = 1 .. Len(T) /\ Len(S) \in Nat /\ Len(T) \in Nat
  BY LenProperties
<1>2. DOMAIN S \subseteq DOMAIN T
  BY <1>1
<1>3. ASSUME NEW r \in References(S) PROVE r \in References(T)
  <2>1. /\ r \in [scope : DOMAIN S, declaration : Nat]
        /\ r.declaration \in DOMAIN S[r.scope].states
    BY DEF References
  <2>2. r \in [scope : DOMAIN T, declaration : Nat] /\ r.scope \in DOMAIN S
    BY <1>2, <2>1
  <2> QED
    BY <2>1, <2>2 DEF References
<1>4. ASSUME NEW chain, NEW D, IsChain(p, S, chain, D) PROVE IsChain(p, T, chain, D)
  <2>1. chain \in Seq(DOMAIN S) /\ chain \in Seq(DOMAIN T)
    BY <1>2, <1>4, SeqMonotonic DEF IsChain
  <2>2. \A k \in DOMAIN chain : chain[k] \in DOMAIN S
    BY <2>1, LenProperties, ElementOfSeq
  <2>3. \A k \in DOMAIN chain : T[chain[k]].query = S[chain[k]].query
    BY <2>2
  <2>4. {T[chain[k]].query : k \in DOMAIN chain} = {S[chain[k]].query : k \in DOMAIN chain}
    BY <2>3
  <2> QED
    BY <1>4, <2>1, <2>3, <2>4 DEF IsChain
<1>5. ASSUME NEW s \in DOMAIN S, ScopeIsLexical(p, S, S[s]) PROVE ScopeIsLexical(p, T, T[s])
  BY <1>4, <1>5 DEF ScopeIsLexical
<1>6. ASSUME NEW f, FrameIsLexical(p, S, f) PROVE FrameIsLexical(p, T, f)
  BY <1>2, <1>3, <1>4, <1>6 DEF FrameIsLexical
<1>7. ASSUME NEW c, CallIsLexical(p, S, c) PROVE CallIsLexical(p, T, c)
  BY <1>3, <1>4, <1>7 DEF CallIsLexical
<1> QED
  BY <1>2, <1>3, <1>4, <1>5, <1>6, <1>7

(* What is around a part of q, but the part itself, is around q.           *)
LEMMA OutsideOfPart ==
  ASSUME NEW p \in Programs, NEW q \in QueryId, NEW c \in Parts(p, q)
  PROVE  Outside(p, c) = Around(p, q)
<1>1. c \in QueryId
  BY PartsFacts
<1>2. ASSUME NEW d \in Around(p, q) PROVE d \in Outside(p, c)
  <2>1. d \in QueryId /\ Encloses(p, d, q) /\ p.queries[d].ctes # <<>>
    BY DEF Around
  <2>2. Encloses(p, d, c)
    BY <2>1, EnclosesDown
  <2>3. ASSUME d = c PROVE FALSE
    <3>1. Encloses(p, q, c)
      BY EnclosesDown
    <3>2. q = c
      BY <1>1, <2>1, <2>3, <3>1, EnclosesAntisymmetric
    <3> QED
      BY <3>2, NoPartOfItself
  <2> QED
    BY <2>1, <2>2, <2>3 DEF Around, Outside
<1>3. ASSUME NEW d \in Outside(p, c) PROVE d \in Around(p, q)
  BY <1>3, EnclosesUp DEF Around, Outside
<1> QED
  BY <1>2, <1>3

(* Nothing is around the root.                                             *)
LEMMA OutsideOfRoot ==
  ASSUME NEW p \in Programs
  PROVE  Outside(p, p.root) = {}
BY EnclosesRoot DEF Around, Outside

-----------------------------------------------------------------------------
(* Looking a declaration up.                                               *)

(* The shape of the program, the scopes and the innermost call.            *)
LEMMA InnermostFacts ==
  ASSUME ScopesInvariant, stack # <<>>
  PROVE  /\ Len(stack) \in Nat \ {0}
         /\ DOMAIN stack = 1 .. Len(stack)
         /\ Len(stack) \in DOMAIN stack
         /\ Binding \in FrameType
         /\ FrameIsLexical(program, scopes, Binding)
<1>1. stack \in Seq(FrameType)
  BY DEF ScopesInvariant
<1>2. Len(stack) \in Nat \ {0} /\ DOMAIN stack = 1 .. Len(stack)
  BY <1>1, EmptySeq, LenProperties
<1>3. Len(stack) \in 1 .. Len(stack)
  BY <1>2
<1>4. stack[Len(stack)] \in FrameType
  BY <1>1, <1>3, ElementOfSeq
<1> QED
  BY <1>2, <1>3, <1>4 DEF ScopesInvariant, Binding

(* A scope has the states of its query's declarations.                     *)
LEMMA ScopeFacts ==
  ASSUME ScopesInvariant, NEW s \in DOMAIN scopes
  PROVE  /\ scopes[s] \in ScopeType
         /\ scopes[s].query \in QueryId
         /\ DOMAIN scopes[s].states = DOMAIN program.queries[scopes[s].query].ctes
         /\ DOMAIN scopes[s].states = 1 .. Len(scopes[s].states)
         /\ Len(scopes[s].states) \in Nat
         /\ \A i \in DOMAIN scopes[s].states :
              /\ scopes[s].states[i] \in {"Unvisited", "Binding", "Bound"}
              /\ Reference(s, i) \in References(scopes)
<1>1. scopes \in Seq(ScopeType) /\ ScopeIsLexical(program, scopes, scopes[s])
  BY DEF ScopesInvariant
<1>2. scopes[s] \in ScopeType
  BY <1>1, LenProperties, ElementOfSeq
<1>3. /\ scopes[s].query \in QueryId
      /\ scopes[s].states \in Seq({"Unvisited", "Binding", "Bound"})
  BY <1>2 DEF ScopeType
<1>4. /\ DOMAIN scopes[s].states = 1 .. Len(scopes[s].states)
      /\ Len(scopes[s].states) \in Nat
      /\ \A i \in DOMAIN scopes[s].states :
           scopes[s].states[i] \in {"Unvisited", "Binding", "Bound"}
  BY <1>3, LenProperties, ElementOfSeq
<1>5. \A i \in DOMAIN scopes[s].states : Reference(s, i) \in References(scopes)
  BY <1>4 DEF Reference, References
<1> QED
  BY <1>1, <1>2, <1>3, <1>4, <1>5 DEF ScopeIsLexical

(* Searching a chain from its innermost scope outwards finds what the name *)
(* means in the query whose clauses it has.                                *)
LEMMA ResolutionIsLexical ==
  ASSUME ScopesInvariant, NEW q \in QueryId, NEW name,
         NEW chain, IsChain(program, scopes, chain, Around(program, q))
  PROVE  /\ ResolveCte(chain, name) \in References(scopes) \cup {NoReference}
         /\ ResolveCte(chain, name) = NoReference =>
              Meaning(program, q, name) = NoCte
         /\ ResolveCte(chain, name) # NoReference =>
              Meaning(program, q, name) = Declaration(ResolveCte(chain, name))
<1> DEFINE found == {k \in DOMAIN chain : Declares(chain[k], name)}
           D == Declarers(program, q, name)
<1>0. program \in Programs
  BY DEF ScopesInvariant
<1>1. /\ chain \in Seq(DOMAIN scopes) /\ Len(chain) \in Nat
      /\ DOMAIN chain = 1 .. Len(chain)
      /\ \A k \in DOMAIN chain : chain[k] \in DOMAIN scopes
  <2>1. chain \in Seq(DOMAIN scopes)
    BY DEF IsChain
  <2> QED
    BY <2>1, LenProperties, ElementOfSeq
<1>2. D = {d \in Around(program, q) : name \in DeclaredNames(program, d)}
  <2>1. ASSUME NEW d \in QueryId, name \in DeclaredNames(program, d)
        PROVE  program.queries[d].ctes # <<>>
    <3>1. DOMAIN program.queries[d].ctes # {}
      BY <2>1 DEF DeclaredNames, Elements
    <3> QED
      BY <3>1
  <2> QED
    BY <2>1 DEF Declarers, Around
<1>3. \A k \in found : scopes[chain[k]].query \in D
  BY <1>2 DEF IsChain, Declares
<1>4. \A d \in D : \E k \in found : scopes[chain[k]].query = d
  BY <1>2 DEF IsChain, Declares
<1>5. CASE found = {}
  <2>1. ResolveCte(chain, name) = NoReference
    BY <1>5 DEF ResolveCte
  <2>2. D = {}
    BY <1>4, <1>5
  <2> QED
    BY <2>1, <2>2 DEF Meaning
<1>6. CASE found # {}
  <2> DEFINE last == CHOOSE k \in found : \A j \in found : j <= k
             inner == scopes[chain[last]].query
             index == IndexOf(program, inner, name)
  <2>1. last \in found /\ \A j \in found : j <= last
    <3>1. found \in SUBSET (1 .. Len(chain))
      BY <1>1
    <3>2. \E k \in found : \A j \in found : j <= k
      BY <1>1, <1>6, <3>1, FirstAndLast
    <3> QED
      BY <3>2
  <2>2. ResolveCte(chain, name) = Reference(chain[last], index)
    BY <1>6 DEF ResolveCte
  <2>3. inner \in D /\ inner \in QueryId /\ chain[last] \in DOMAIN scopes
    BY <1>1, <1>3, <2>1, ScopeFacts
  <2> HIDE DEF last
  <2>4. ASSUME NEW d \in D PROVE Encloses(program, d, inner)
    <3>1. PICK j \in found : scopes[chain[j]].query = d
      BY <1>4
    <3>2. j \in DOMAIN chain /\ last \in DOMAIN chain /\ j <= last
      BY <2>1
    <3>3. CASE j = last
      BY <1>0, <2>3, <3>1, <3>3, EnclosesDown
    <3>4. CASE j # last
      <4>1. j < last
        BY <1>1, <3>2, <3>4
      <4> QED
        BY <3>1, <3>2, <4>1 DEF IsChain
    <3> QED
      BY <3>3, <3>4
  <2>5. Innermost(program, D) = inner
    <3> DEFINE other == CHOOSE d \in D : \A e \in D : Encloses(program, e, d)
    <3>1. other \in D /\ \A e \in D : Encloses(program, e, other)
      BY <2>3, <2>4
    <3>2. other \in QueryId
      BY <3>1 DEF Declarers
    <3>3. Encloses(program, other, inner) /\ Encloses(program, inner, other)
      BY <2>3, <2>4, <3>1
    <3>4. other = inner
      BY <1>0, <2>3, <3>2, <3>3, EnclosesAntisymmetric
    <3> QED
      BY <3>4 DEF Innermost
  <2>6. Meaning(program, q, name) = Cte(inner, index)
    <3>1. D # {}
      BY <2>3
    <3> QED
      BY <2>5, <3>1 DEF Meaning
  <2>7. index \in DOMAIN scopes[chain[last]].states
    <3>1. name \in DeclaredNames(program, inner)
      BY <2>3 DEF Declarers
    <3> QED
      BY <1>0, <2>3, <3>1, IndexFacts, ScopeFacts
  <2>8. Reference(chain[last], index) \in References(scopes)
    BY <2>3, <2>7, ScopeFacts
  <2>9. Reference(chain[last], index) # NoReference
    BY <2>8, ReferenceFacts DEF ScopesInvariant
  <2>10. Declaration(Reference(chain[last], index)) = Cte(inner, index)
    BY DEF Declaration, Reference
  <2> QED
    BY <2>2, <2>6, <2>8, <2>9, <2>10
<1> QED
  BY <1>5, <1>6

(* What bind_cte is called for is a declaration of a scope; for a name, it *)
(* is what the name means.                                                 *)
LEMMA DemandFacts ==
  ASSUME ScopesInvariant, (InBody /\ ThisName # None) \/ AtEnd
  PROVE  /\ Demanded \in References(scopes) \cup {NoReference}
         /\ InBody /\ Demanded = NoReference =>
              Meaning(program, Binding.query, ThisName) = NoCte
         /\ InBody /\ Demanded # NoReference =>
              Meaning(program, Binding.query, ThisName) = Declaration(Demanded)
<1>1. Binding \in FrameType /\ FrameIsLexical(program, scopes, Binding)
  BY InnermostFacts DEF InBody, AtEnd
<1>2. CASE InBody
  <2>1. Binding.query \in QueryId /\ IsChain(program, scopes, Binding.chain, Around(program, Binding.query))
    BY <1>1 DEF FrameType, FrameIsLexical
  <2>2. Demanded = ResolveCte(Binding.chain, ThisName)
    BY <1>2 DEF Demanded
  <2> QED
    BY <2>1, <2>2, ResolutionIsLexical
<1>3. CASE ~ InBody
  <2>1. Demanded = Unfinished
    BY <1>3 DEF Demanded
  <2> DEFINE states == scopes[Binding.scope].states
             open == {i \in DOMAIN states : states[i] # "Bound"}
  <2>2. CASE Binding.scope = 0 \/ open = {}
    BY <1>3, <2>1, <2>2 DEF Unfinished
  <2>3. CASE Binding.scope # 0 /\ open # {}
    <3>1. Binding.scope \in DOMAIN scopes
      BY <1>1, <2>3 DEF FrameIsLexical
    <3>2. Len(states) \in Nat /\ open \in SUBSET (1 .. Len(states))
      BY <3>1, ScopeFacts
    <3>3. \E i \in open : \A j \in open : i <= j
      BY <2>3, <3>2, FirstAndLast
    <3>4. (CHOOSE i \in open : \A j \in open : i <= j) \in DOMAIN states
      BY <3>3
    <3>5. Unfinished = Reference(Binding.scope, CHOOSE i \in open : \A j \in open : i <= j)
      BY <2>3 DEF Unfinished
    <3> QED
      BY <1>3, <2>1, <3>1, <3>4, <3>5, ScopeFacts
  <2> QED
    BY <2>2, <2>3
<1> QED
  BY <1>2, <1>3

(* A declaration is bound in the scopes of the clause that carries it,     *)
(* which are those of the clauses around its query.                        *)
LEMMA BodyFacts ==
  ASSUME ScopesInvariant, NEW r \in References(scopes)
  PROVE  /\ Body(r) \in QueryId
         /\ IsChain(program, scopes, scopes[r.scope].chain, Outside(program, Body(r)))
         /\ scopes[r.scope].chain \in Seq(Nat)
<1>1. program \in Programs /\ scopes \in Seq(ScopeType)
  BY DEF ScopesInvariant
<1>2. r.scope \in DOMAIN scopes /\ r.declaration \in DOMAIN scopes[r.scope].states
  BY <1>1, ReferenceFacts, LenProperties
<1> DEFINE q == scopes[r.scope].query
<1>3. /\ q \in QueryId /\ r.declaration \in DOMAIN program.queries[q].ctes
      /\ scopes[r.scope] \in ScopeType
  BY <1>2, ScopeFacts
<1>4. Body(r) = program.queries[q].ctes[r.declaration].query
  BY DEF Body, Declaration, CteQuery, Cte
<1>5. Body(r) \in Parts(program, q) /\ Body(r) \in QueryId
  <2> HIDE DEF q
  <2>1. Body(r) \in Parts(program, q)
    BY <1>1, <1>3, <1>4, PartsFacts
  <2>2. Body(r) \in QueryId
    BY <1>1, <1>3, <1>4, SyntaxFacts
  <2> QED
    BY <2>1, <2>2
<1>6. Outside(program, Body(r)) = Around(program, q)
  BY <1>1, <1>3, <1>5, OutsideOfPart
<1>7. IsChain(program, scopes, scopes[r.scope].chain, Around(program, q))
  BY <1>2 DEF ScopesInvariant, ScopeIsLexical
<1> QED
  BY <1>3, <1>5, <1>6, <1>7 DEF ScopeType

(* A change of one declaration's state changes nothing else.               *)
LEMMA StateFacts ==
  ASSUME ScopesInvariant, NEW r \in References(scopes),
         NEW state \in {"Unvisited", "Binding", "Bound"}, SetState(r, state)
  PROVE  /\ scopes' \in Seq(ScopeType)
         /\ Len(scopes') = Len(scopes)
         /\ References(scopes') = References(scopes)
         /\ \A s \in DOMAIN scopes : /\ scopes'[s].query = scopes[s].query
                                     /\ scopes'[s].chain = scopes[s].chain
                                     /\ DOMAIN scopes'[s].states = DOMAIN scopes[s].states
         /\ \A x \in References(scopes) :
              StateOf(x)' = IF x = r THEN state ELSE StateOf(x)
<1>1. scopes \in Seq(ScopeType) /\ DOMAIN scopes = 1 .. Len(scopes) /\ Len(scopes) \in Nat
  BY LenProperties DEF ScopesInvariant
<1>2. /\ r = Reference(r.scope, r.declaration)
      /\ r.scope \in DOMAIN scopes /\ r.declaration \in DOMAIN scopes[r.scope].states
  BY <1>1, ReferenceFacts
<1> DEFINE old == scopes[r.scope]
           new == [old EXCEPT !.states = [old.states EXCEPT ![r.declaration] = state]]
<1>3. old \in ScopeType /\ old.states \in Seq({"Unvisited", "Binding", "Bound"})
      /\ r.declaration \in 1 .. Len(old.states)
  BY <1>2, ScopeFacts DEF ScopeType
<1>4. [old.states EXCEPT ![r.declaration] = state] \in Seq({"Unvisited", "Binding", "Bound"})
  BY <1>3, ExceptSeq
<1>5. /\ new \in ScopeType /\ new.query = old.query /\ new.chain = old.chain
      /\ new.states = [old.states EXCEPT ![r.declaration] = state]
  BY <1>3, <1>4 DEF ScopeType
<1>6. scopes' = [scopes EXCEPT ![r.scope] = new]
  BY DEF SetState
<1> HIDE DEF new
<1>7. /\ scopes' \in Seq(ScopeType) /\ Len(scopes') = Len(scopes)
      /\ \A s \in DOMAIN scopes : scopes'[s] = IF s = r.scope THEN new ELSE scopes[s]
      /\ DOMAIN scopes' = DOMAIN scopes
  BY <1>1, <1>2, <1>5, <1>6, ExceptSeq
<1>8. \A s \in DOMAIN scopes : /\ scopes'[s].query = scopes[s].query
                               /\ scopes'[s].chain = scopes[s].chain
                               /\ DOMAIN scopes'[s].states = DOMAIN scopes[s].states
  BY <1>5, <1>7
<1>9. References(scopes') = References(scopes)
  BY <1>7, <1>8 DEF References
<1>10. ASSUME NEW x \in References(scopes)
       PROVE  StateOf(x)' = IF x = r THEN state ELSE StateOf(x)
  <2>1. /\ x = Reference(x.scope, x.declaration)
        /\ x.scope \in DOMAIN scopes /\ x.declaration \in DOMAIN scopes[x.scope].states
    BY <1>1, ReferenceFacts
  <2>2. StateOf(x)' = scopes'[x.scope].states[x.declaration]
    BY DEF StateOf
  <2>3. CASE x.scope # r.scope
    BY <1>7, <2>1, <2>2, <2>3 DEF StateOf
  <2>4. CASE x.scope = r.scope
    <3>1. scopes'[x.scope].states[x.declaration] =
            IF x.declaration = r.declaration THEN state
            ELSE scopes[x.scope].states[x.declaration]
      BY <1>2, <1>5, <1>7, <2>1, <2>4
    <3> QED
      BY <1>2, <2>1, <2>2, <2>4, <3>1 DEF StateOf
  <2> QED
    BY <2>3, <2>4
<1> QED
  BY <1>7, <1>8, <1>9, <1>10

-----------------------------------------------------------------------------
(* The steps that leave the scopes alone.                                  *)

(* An error ends the binding; nothing else changes.                        *)
LEMMA FailStep ==
  ASSUME BinderInvariant, NEW kind \in VerdictKinds \ {"pending"}, NEW name \in Name,
         Fail(kind, name)
  PROVE  BinderInvariant'
<1>1. verdict' \in VerdictType /\ verdict' # Pending
  BY DEF Fail, Verdict, VerdictType, Pending
<1>2. UNCHANGED <<program, call, stack, scopes, meanings, bindings>>
  BY DEF Fail
<1>3. ScopesInvariant'
  BY <1>1, <1>2 DEF BinderInvariant, ScopesInvariant
<1>4. MarksAreActive'
  BY <1>1 DEF MarksAreActive
<1>5. MeaningIsLexical'
  BY <1>2 DEF BinderInvariant, MeaningIsLexical
<1> QED
  BY <1>3, <1>4, <1>5 DEF BinderInvariant

(* Every error gives a name.                                               *)
LEMMA RejectStep ==
  ASSUME BinderInvariant,
         RejectDuplicate \/ RejectUnknown \/ RejectAmbiguous \/ RejectCycle
  PROVE  BinderInvariant'
<1>0. ScopesInvariant /\ program \in Programs
  BY DEF BinderInvariant, ScopesInvariant
<1>1. CASE RejectDuplicate
  <2>1. call.query \in QueryId
    BY <1>0, <1>1, Zenon DEF RejectDuplicate, ScopesInvariant, CallIsLexical
  <2>2. PICK i \in DOMAIN program.queries[call.query].ctes :
          Fail("DuplicateCommonTableExpression", program.queries[call.query].ctes[i].name)
    BY <1>1, Zenon DEF RejectDuplicate
  <2>3. program.queries[call.query].ctes[i].name \in Name
    BY <1>0, <2>1, SyntaxFacts
  <2> QED
    BY <2>2, <2>3, FailStep DEF VerdictKinds
<1>2. ASSUME InBody, ThisName # None PROVE ThisName \in Name
  <2>1. Binding \in FrameType /\ Binding.next <= Len(Items)
    BY <1>0, <1>2, InnermostFacts DEF InBody
  <2>2. Binding.query \in QueryId /\ Binding.next \in Nat \ {0}
    BY <2>1 DEF FrameType
  <2>3. /\ DOMAIN Items = 1 .. Len(Items) /\ Len(Items) \in Nat
        /\ \A i \in DOMAIN Items : Items[i].name # None => Items[i].name \in Name
    BY <1>0, <2>2, SyntaxFacts DEF Items
  <2>4. Binding.next \in DOMAIN Items
    BY <2>1, <2>2, <2>3
  <2> QED
    BY <1>2, <2>3, <2>4 DEF ThisName
<1>3. CASE RejectUnknown
  BY <1>2, <1>3, FailStep DEF RejectUnknown, VerdictKinds
<1>4. CASE RejectAmbiguous
  BY <1>2, <1>4, FailStep DEF RejectAmbiguous, VerdictKinds
<1>5. CASE RejectCycle
  <2> DEFINE q == scopes[Demanded.scope].query
  <2>1. Demanded \in References(scopes)
    BY <1>0, <1>5, DemandFacts DEF RejectCycle, DemandsCte
  <2>2. Demanded.scope \in DOMAIN scopes /\ Demanded.declaration \in DOMAIN scopes[Demanded.scope].states
    BY <1>0, <2>1, ReferenceFacts, LenProperties DEF ScopesInvariant
  <2>3. q \in QueryId /\ Demanded.declaration \in DOMAIN program.queries[q].ctes
    BY <1>0, <2>2, ScopeFacts
  <2>4. program.queries[q].ctes[Demanded.declaration].name \in Name
    BY <1>0, <2>3, SyntaxFacts, Zenon
  <2>5. CteName(program, Declaration(Demanded)) = program.queries[q].ctes[Demanded.declaration].name
    BY DEF CteName, Declaration, Cte
  <2> QED
    BY <1>5, <2>4, <2>5, FailStep, Zenon DEF RejectCycle, VerdictKinds
<1> QED
  BY <1>1, <1>3, <1>4, <1>5

(* Going on in a query expression changes only the place in it.            *)
LEMMA ProceedFacts ==
  ASSUME ScopesInvariant, stack # <<>>, Proceed
  PROVE  /\ stack' \in Seq(FrameType)
         /\ DOMAIN stack' = DOMAIN stack
         /\ \A i \in DOMAIN stack : /\ stack'[i].for = stack[i].for
                                    /\ FrameIsLexical(program, scopes, stack'[i])
<1> DEFINE new == [Binding EXCEPT !.next = @ + 1]
<1>1. /\ stack \in Seq(FrameType) /\ Len(stack) \in 1 .. Len(stack)
      /\ DOMAIN stack = 1 .. Len(stack)
      /\ Binding \in FrameType /\ Binding = stack[Len(stack)]
      /\ \A i \in DOMAIN stack : FrameIsLexical(program, scopes, stack[i])
  BY InnermostFacts DEF ScopesInvariant, Binding
<1>2. /\ new \in FrameType
      /\ new.query = Binding.query /\ new.chain = Binding.chain
      /\ new.scope = Binding.scope /\ new.for = Binding.for
  <2> DEFINE next == Binding.next + 1
  <2>1. next \in Nat \ {0}
    BY <1>1 DEF FrameType
  <2>2. new = [Binding EXCEPT !.next = next]
    OBVIOUS
  <2> HIDE DEF next, new
  <2> QED
    BY <1>1, <2>1, <2>2 DEF FrameType
<1>3. stack' = [stack EXCEPT ![Len(stack)] = new]
  BY DEF Proceed
<1> HIDE DEF new
<1>4. /\ stack' \in Seq(FrameType) /\ Len(stack') = Len(stack)
      /\ \A i \in DOMAIN stack : stack'[i] = IF i = Len(stack) THEN new ELSE stack[i]
  BY <1>1, <1>2, <1>3, ExceptSeq
<1>5. DOMAIN stack' = DOMAIN stack
  BY <1>1, <1>4, LenProperties
<1>6. FrameIsLexical(program, scopes, new)
  BY <1>1, <1>2 DEF FrameIsLexical
<1> QED
  BY <1>1, <1>2, <1>4, <1>5, <1>6

(* A name is used for what it means.                                       *)
LEMMA UseStep ==
  ASSUME BinderInvariant, UseRelation \/ UseDeclaration
  PROVE  BinderInvariant'
<1>1. /\ ScopesInvariant /\ InBody /\ ThisName # None /\ stack # <<>> /\ Proceed
      /\ UNCHANGED <<program, verdict, call, scopes, bindings>>
  <2>1. ASSUME InBody, DemandsCte PROVE ThisName # None
    BY <2>1, InnermostFacts DEF BinderInvariant, DemandsCte, AtEnd, InBody, FrameType
  <2> QED
    BY <2>1 DEF BinderInvariant, UseRelation, UseDeclaration, InBody
<1>2. ScopesInvariant'
  BY <1>1, ProceedFacts DEF ScopesInvariant
<1>3. MarksAreActive'
  <2>1. MarksAreActive /\ \A r : StateOf(r)' = StateOf(r)
    BY <1>1 DEF BinderInvariant, StateOf
  <2>2. DOMAIN stack' = DOMAIN stack /\ \A i \in DOMAIN stack : stack'[i].for = stack[i].for
    BY <1>1, ProceedFacts
  <2> QED
    BY <1>1, <2>1, <2>2 DEF MarksAreActive
<1>4. MeaningIsLexical'
  <2> DEFINE used == Meaning(program, Binding.query, ThisName)
  <2>1. meanings' = meanings \cup {[query |-> Binding.query, name |-> ThisName, meaning |-> used]}
    <3>1. CASE UseRelation
      BY <1>1, <3>1, DemandFacts DEF UseRelation, Record
    <3>2. CASE UseDeclaration
      BY <1>1, <3>2, DemandFacts DEF UseDeclaration, DemandsCte, Record
    <3> QED
      BY <3>1, <3>2
  <2> QED
    BY <1>1, <2>1 DEF BinderInvariant, MeaningIsLexical
<1> QED
  BY <1>2, <1>3, <1>4 DEF BinderInvariant

(* A nested query expression is entered with the chain of the one around.  *)
LEMMA BindNestedStep ==
  ASSUME BinderInvariant, BindNested
  PROVE  BinderInvariant'
<1>1. /\ ScopesInvariant /\ program \in Programs /\ InBody /\ ThisName = None
      /\ stack # <<>> /\ Proceed /\ call = NoCall
      /\ call' = Call(Items[Binding.next].query, Binding.chain, NoReference)
      /\ UNCHANGED <<program, verdict, scopes, meanings, bindings>>
  BY DEF BinderInvariant, ScopesInvariant, BindNested, InBody
<1>2. /\ Binding \in FrameType /\ Binding.query \in QueryId /\ Binding.next \in Nat \ {0}
      /\ Binding.chain \in Seq(Nat)
      /\ IsChain(program, scopes, Binding.chain, Around(program, Binding.query))
  BY <1>1, InnermostFacts DEF FrameType, FrameIsLexical
<1>3. Binding.next \in DOMAIN Items
  <2>1. DOMAIN Items = 1 .. Len(Items) /\ Len(Items) \in Nat /\ Binding.next <= Len(Items)
    BY <1>1, <1>2, SyntaxFacts, Zenon DEF InBody, Items
  <2> QED
    BY <1>2, <2>1
<1> DEFINE part == Items[Binding.next].query
<1>4. part \in QueryId /\ part \in Parts(program, Binding.query)
  BY <1>1, <1>2, <1>3, SyntaxFacts, PartsFacts, Zenon DEF Items, ThisName
<1>5. Outside(program, part) = Around(program, Binding.query)
  BY <1>1, <1>2, <1>4, OutsideOfPart
<1> HIDE DEF part
<1>6. /\ call'.query = part /\ call'.chain = Binding.chain /\ call'.for = NoReference
      /\ call' \in CallType
  BY <1>1, <1>2, <1>4 DEF Call, CallType, NoReference, Reference, ReferenceType, part
<1>7. CallIsLexical(program, scopes, call')
  BY <1>2, <1>4, <1>5, <1>6 DEF CallIsLexical
<1>8. ScopesInvariant'
  BY <1>1, <1>6, <1>7, ProceedFacts DEF ScopesInvariant
<1>9. MarksAreActive'
  <2>1. MarksAreActive /\ \A r : StateOf(r)' = StateOf(r)
    BY <1>1 DEF BinderInvariant, StateOf
  <2>2. DOMAIN stack' = DOMAIN stack /\ \A i \in DOMAIN stack : stack'[i].for = stack[i].for
    BY <1>1, ProceedFacts
  <2>3. call.for = call'.for
    BY <1>1, <1>6 DEF NoCall, Call
  <2> QED
    BY <1>1, <1>6, <2>1, <2>2, <2>3 DEF MarksAreActive
<1>10. MeaningIsLexical'
  BY <1>1 DEF BinderInvariant, MeaningIsLexical
<1> QED
  BY <1>8, <1>9, <1>10 DEF BinderInvariant

-----------------------------------------------------------------------------
(* The steps that enter, mark and leave.                                   *)

(* A chain for what is around q from outside, extended by a scope for q.   *)
LEMMA ChainExtends ==
  ASSUME NEW p \in Programs, NEW T \in Seq(ScopeType), NEW q \in QueryId,
         p.queries[q].ctes # <<>>,
         NEW s \in DOMAIN T, T[s].query = q,
         NEW chain, IsChain(p, T, chain, Outside(p, q))
  PROVE  IsChain(p, T, Append(chain, s), Around(p, q))
<1> DEFINE n == Len(chain)
           longer == Append(chain, s)
<1>1. /\ chain \in Seq(DOMAIN T) /\ n \in Nat /\ DOMAIN chain = 1 .. n
      /\ \A k, l \in DOMAIN chain :
           k < l => Encloses(p, T[chain[k]].query, T[chain[l]].query)
      /\ {T[chain[k]].query : k \in DOMAIN chain} = Outside(p, q)
  BY LenProperties DEF IsChain
<1>2. /\ longer \in Seq(DOMAIN T) /\ DOMAIN longer = 1 .. n + 1
      /\ \A k \in 1 .. n : longer[k] = chain[k]
      /\ longer[n + 1] = s
  BY <1>1, AppendProperties, LenProperties
<1> HIDE DEF longer, n
<1>3. \A k \in 1 .. n : Encloses(p, T[longer[k]].query, q)
  <2>1. \A d \in Outside(p, q) : Encloses(p, d, q)
    BY DEF Outside, Around
  <2>2. \A k \in 1 .. n : T[longer[k]].query \in Outside(p, q)
    BY <1>1, <1>2
  <2> QED
    BY <2>1, <2>2
<1>4. ASSUME NEW k \in DOMAIN longer, NEW l \in DOMAIN longer, k < l
      PROVE  Encloses(p, T[longer[k]].query, T[longer[l]].query)
  <2>1. k \in 1 .. n
    BY <1>1, <1>2, <1>4
  <2>2. CASE l \in 1 .. n
    BY <1>1, <1>2, <1>4, <2>1, <2>2
  <2>3. CASE l \notin 1 .. n
    <3>1. l = n + 1
      BY <1>1, <1>2, <2>3
    <3> QED
      BY <1>2, <1>3, <2>1, <3>1
  <2> QED
    BY <2>2, <2>3
<1>5. Around(p, q) = Outside(p, q) \cup {q}
  BY EnclosesDown DEF Around, Outside
<1>6. {T[longer[k]].query : k \in DOMAIN longer} = Around(p, q)
  <2>1. ASSUME NEW k \in DOMAIN longer PROVE T[longer[k]].query \in Around(p, q)
    <3>1. CASE k = n + 1
      BY <1>2, <1>5, <3>1
    <3>2. CASE k # n + 1
      <4>1. k \in DOMAIN chain
        BY <1>1, <1>2, <3>2
      <4> QED
        BY <1>1, <1>2, <1>5, <4>1
    <3> QED
      BY <3>1, <3>2
  <2>2. ASSUME NEW d \in Around(p, q) PROVE \E k \in DOMAIN longer : T[longer[k]].query = d
    <3>1. CASE d = q
      <4>1. n + 1 \in DOMAIN longer /\ T[longer[n + 1]].query = d
        BY <1>1, <1>2, <3>1
      <4> QED
        BY <4>1
    <3>2. CASE d # q
      <4>1. PICK k \in DOMAIN chain : T[chain[k]].query = d
        BY <1>1, <1>5, <3>2
      <4>2. k \in DOMAIN longer /\ T[longer[k]].query = d
        BY <1>1, <1>2, <4>1
      <4> QED
        BY <4>2
    <3> QED
      BY <3>1, <3>2
  <2> QED
    BY <2>1, <2>2
<1> QED
  BY <1>2, <1>4, <1>6 DEF IsChain, longer

(* A frame that is pushed is the last one.                                 *)
LEMMA PushedFacts ==
  ASSUME ScopesInvariant, NEW frame \in FrameType, stack' = Append(stack, frame)
  PROVE  /\ stack' \in Seq(FrameType)
         /\ Len(stack) \in Nat
         /\ DOMAIN stack = 1 .. Len(stack)
         /\ DOMAIN stack' = 1 .. Len(stack) + 1
         /\ Len(stack') = Len(stack) + 1
         /\ \A i \in DOMAIN stack : stack'[i] = stack[i]
         /\ stack'[Len(stack) + 1] = frame
BY AppendProperties, LenProperties DEF ScopesInvariant

(* What establish_cte_scope does: a frame with the chain of the clauses    *)
(* around the query expression, its own included, and a scope for its own  *)
(* clause, if it has one, with no declaration visited.                     *)
LEMMA EstablishFacts ==
  ASSUME ScopesInvariant, EstablishScope
  PROVE  /\ scopes' \in Seq(ScopeType)
         /\ Len(scopes) \in Nat /\ DOMAIN scopes = 1 .. Len(scopes)
         /\ \A s \in DOMAIN scopes : s \in DOMAIN scopes' /\ scopes'[s] = scopes[s]
         /\ \A s \in DOMAIN scopes' : ScopeIsLexical(program, scopes', scopes'[s])
         /\ \A s \in DOMAIN scopes' \ DOMAIN scopes :
              s = Len(scopes) + 1 /\ scopes'[s].query = call.query
         /\ \A f : FrameIsLexical(program, scopes, f) => FrameIsLexical(program, scopes', f)
         /\ References(scopes) \subseteq References(scopes')
         /\ \A r \in References(scopes) : StateOf(r)' = StateOf(r)
         /\ \A r \in References(scopes') \ References(scopes) :
              r.scope \notin DOMAIN scopes /\ StateOf(r)' = "Unvisited"
         /\ stack' \in Seq(FrameType)
         /\ Len(stack) \in Nat
         /\ DOMAIN stack = 1 .. Len(stack)
         /\ DOMAIN stack' = 1 .. Len(stack) + 1
         /\ Len(stack') = Len(stack) + 1
         /\ \A i \in DOMAIN stack : stack'[i] = stack[i]
         /\ FrameIsLexical(program, scopes', stack'[Len(stack) + 1])
         /\ stack'[Len(stack) + 1].query = call.query
         /\ stack'[Len(stack) + 1].for = call.for
         /\ stack'[Len(stack) + 1].next = 1
         /\ IF program.queries[call.query].ctes = <<>>
            THEN stack'[Len(stack) + 1].scope = 0
            ELSE /\ stack'[Len(stack) + 1].scope = Len(scopes) + 1
                 /\ Len(scopes) + 1 \in DOMAIN scopes'
                 /\ scopes'[Len(scopes) + 1].query = call.query
<1> DEFINE q     == call.query
           ctes  == program.queries[q].ctes
           scope == IF ctes = <<>> THEN 0 ELSE FreshScope
           chain == IF ctes = <<>> THEN call.chain ELSE Append(call.chain, scope)
           frame == [query |-> q, chain |-> chain, scope |-> scope, next |-> 1, for |-> call.for]
           added == [query |-> q, chain |-> chain, states |-> [i \in DOMAIN ctes |-> "Unvisited"]]
<1>1. /\ program \in Programs
      /\ scopes \in Seq(ScopeType) /\ stack \in Seq(FrameType) /\ call \in CallType
      /\ CallIsLexical(program, scopes, call)
      /\ stack' = Append(stack, frame)
      /\ scopes' = IF ctes = <<>> THEN scopes ELSE Append(scopes, added)
  BY DEF ScopesInvariant, EstablishScope
<1>2. /\ q \in QueryId /\ call.chain \in Seq(Nat) /\ call.for \in ReferenceType
      /\ IsChain(program, scopes, call.chain, Outside(program, q))
      /\ call.for \in References(scopes) \cup {NoReference}
      /\ Len(scopes) \in Nat /\ DOMAIN scopes = 1 .. Len(scopes)
  BY <1>1, LenProperties DEF CallIsLexical, CallType
<1>3. /\ scopes' \in Seq(ScopeType)
      /\ \A s \in DOMAIN scopes : scopes'[s] = scopes[s]
      /\ Len(scopes) <= Len(scopes')
      /\ FrameIsLexical(program, scopes', frame)
      /\ frame \in FrameType
      /\ \A s \in DOMAIN scopes' \ DOMAIN scopes :
           /\ s = Len(scopes) + 1
           /\ scopes'[s].query = q
           /\ ScopeIsLexical(program, scopes', scopes'[s])
           /\ \A i \in DOMAIN scopes'[s].states : scopes'[s].states[i] = "Unvisited"
      /\ IF ctes = <<>> THEN scope = 0
         ELSE /\ scope = Len(scopes) + 1 /\ scope \in DOMAIN scopes'
              /\ scopes'[scope].query = q
  <2>1. CASE ctes = <<>>
    <3>1. Around(program, q) = Outside(program, q)
      BY <2>1 DEF Around, Outside
    <3>2. scope = 0 /\ chain = call.chain /\ scopes' = scopes
      BY <1>1, <2>1
    <3> HIDE DEF scope, chain
    <3>3. frame \in FrameType
      BY <1>2, <3>2 DEF FrameType
    <3>4. FrameIsLexical(program, scopes, frame)
      BY <1>2, <3>1, <3>2 DEF FrameIsLexical
    <3>5. Len(scopes) <= Len(scopes') /\ DOMAIN scopes' \ DOMAIN scopes = {}
      BY <1>2, <3>2
    <3> HIDE DEF frame
    <3> QED
      BY <1>1, <3>2, <3>3, <3>4, <3>5
  <2>2. CASE ctes # <<>>
    <3>1. scope = Len(scopes) + 1 /\ chain = Append(call.chain, scope) /\ scope \in Nat
      BY <1>2, <2>2 DEF FreshScope
    <3>2. chain \in Seq(Nat)
      BY <1>2, <3>1, AppendProperties
    <3>3. /\ DOMAIN ctes = 1 .. Len(ctes) /\ Len(ctes) \in Nat
          /\ added.states \in Seq({"Unvisited", "Binding", "Bound"})
          /\ DOMAIN added.states = DOMAIN ctes
          /\ \A i \in DOMAIN added.states : added.states[i] = "Unvisited"
      <4>1. DOMAIN ctes = 1 .. Len(ctes) /\ Len(ctes) \in Nat
        BY <1>1, <1>2, SyntaxFacts, Zenon
      <4>2. added.states \in [1 .. Len(ctes) -> {"Unvisited", "Binding", "Bound"}]
        BY <4>1
      <4>3. added.states \in Seq({"Unvisited", "Binding", "Bound"})
        BY <4>1, <4>2, SeqDef
      <4> QED
        BY <4>1, <4>3
    <3> HIDE DEF scope, chain
    <3>4. /\ added \in ScopeType
          /\ added.query = q /\ added.chain = chain
      BY <1>2, <3>2, <3>3 DEF ScopeType
    <3>5. scopes' = Append(scopes, added)
      BY <1>1, <2>2
    <3> HIDE DEF added, ctes
    <3>6. /\ scopes' \in Seq(ScopeType) /\ Len(scopes') = Len(scopes) + 1
          /\ \A s \in DOMAIN scopes : scopes'[s] = scopes[s]
          /\ scopes'[scope] = added
          /\ DOMAIN scopes' = 1 .. Len(scopes) + 1
      BY <1>1, <1>2, <3>1, <3>4, <3>5, AppendProperties, LenProperties
    <3>7. scope \in DOMAIN scopes' /\ DOMAIN scopes' \ DOMAIN scopes = {scope}
      BY <1>2, <3>1, <3>6
    <3>8. /\ IsChain(program, scopes', call.chain, Outside(program, q))
          /\ References(scopes) \subseteq References(scopes')
      <4>1. Len(scopes) <= Len(scopes')
        BY <1>2, <3>6
      <4> QED
        BY <1>1, <1>2, <3>6, <4>1, ScopesGrow
    <3>9. IsChain(program, scopes', chain, Around(program, q))
      <4>1. scopes'[scope].query = q /\ program.queries[q].ctes # <<>>
        BY <2>2, <3>4, <3>6 DEF ctes
      <4> QED
        BY <1>1, <1>2, <3>1, <3>6, <3>7, <3>8, <4>1, ChainExtends
    <3>10. ScopeIsLexical(program, scopes', scopes'[scope])
      BY <3>3, <3>4, <3>6, <3>9 DEF ScopeIsLexical, ctes
    <3>11. frame \in FrameType
      BY <1>2, <3>1, <3>2 DEF FrameType
    <3>12. FrameIsLexical(program, scopes', frame)
      BY <1>2, <3>7, <3>8, <3>9 DEF FrameIsLexical
    <3>13. Len(scopes) <= Len(scopes')
      BY <1>2, <3>6
    <3>14. \A i \in DOMAIN scopes'[scope].states : scopes'[scope].states[i] = "Unvisited"
      BY <3>3, <3>6
    <3>15. scopes'[scope].query = q /\ ctes # <<>> /\ scope = Len(scopes) + 1
      BY <2>2, <3>1, <3>4, <3>6 DEF ctes
    <3> HIDE DEF frame
    <3> QED
      BY <3>6, <3>7, <3>15, <3>10, <3>11, <3>12, <3>13, <3>14
  <2> QED
    BY <2>1, <2>2
<1>4. /\ frame.for = call.for /\ frame.query = q
      /\ frame.next = 1 /\ frame.scope = scope
  OBVIOUS
<1> HIDE DEF frame, scope, chain, added
<1>5. /\ stack' \in Seq(FrameType)
      /\ Len(stack) \in Nat
      /\ DOMAIN stack = 1 .. Len(stack)
      /\ DOMAIN stack' = 1 .. Len(stack) + 1
      /\ Len(stack') = Len(stack) + 1
      /\ \A i \in DOMAIN stack : stack'[i] = stack[i]
      /\ stack'[Len(stack) + 1] = frame
  BY <1>1, <1>3, PushedFacts
<1>6. /\ DOMAIN scopes \subseteq DOMAIN scopes'
      /\ References(scopes) \subseteq References(scopes')
      /\ \A s \in DOMAIN scopes : ScopeIsLexical(program, scopes', scopes'[s])
      /\ \A f : FrameIsLexical(program, scopes, f) => FrameIsLexical(program, scopes', f)
  <2>1. \A s \in DOMAIN scopes : ScopeIsLexical(program, scopes, scopes[s])
    BY DEF ScopesInvariant
  <2> QED
    BY <1>1, <1>3, <2>1, ScopesGrow
<1>7. ASSUME NEW r \in References(scopes) PROVE StateOf(r)' = StateOf(r)
  <2>1. r.scope \in DOMAIN scopes
    BY <1>1, <1>2, ReferenceFacts
  <2> QED
    BY <1>3, <2>1 DEF StateOf
<1>8. ASSUME NEW r \in References(scopes') \ References(scopes)
      PROVE  r.scope \notin DOMAIN scopes /\ StateOf(r)' = "Unvisited"
  <2>1. /\ r.scope \in DOMAIN scopes'
        /\ r.declaration \in DOMAIN scopes'[r.scope].states
        /\ r \in [scope : DOMAIN scopes', declaration : Nat]
    BY DEF References
  <2>2. r.scope \notin DOMAIN scopes
    <3> SUFFICES ASSUME r.scope \in DOMAIN scopes PROVE FALSE
      OBVIOUS
    <3>1. r \in [scope : DOMAIN scopes, declaration : Nat]
      BY <2>1
    <3> QED
      BY <1>3, <2>1, <3>1 DEF References
  <2>3. StateOf(r)' = scopes'[r.scope].states[r.declaration]
    BY DEF StateOf
  <2> QED
    BY <1>3, <2>1, <2>2, <2>3
<1>9. \A s \in DOMAIN scopes' : ScopeIsLexical(program, scopes', scopes'[s])
  BY <1>3, <1>6
<1> QED
  BY <1>2, <1>3, <1>4, <1>5, <1>6, <1>7, <1>8, <1>9

(* Entering a query expression preserves the inductive invariant.          *)
LEMMA EstablishScopeStep ==
  ASSUME BinderInvariant, EstablishScope
  PROVE  BinderInvariant'
<1> DEFINE n == Len(stack)
<1>1. /\ ScopesInvariant /\ MarksAreActive /\ MeaningIsLexical
      /\ verdict = Pending /\ verdict' = verdict
      /\ scopes \in Seq(ScopeType)
      /\ call \in CallType /\ CallIsLexical(program, scopes, call)
      /\ bindings' = [bindings EXCEPT ![call.query] = @ + 1]
      /\ call' = NoCall
      /\ UNCHANGED <<program, meanings>>
  BY DEF BinderInvariant, ScopesInvariant, EstablishScope
<1>2. /\ scopes' \in Seq(ScopeType)
      /\ n \in Nat /\ DOMAIN stack = 1 .. n /\ DOMAIN stack' = 1 .. n + 1
      /\ \A i \in DOMAIN stack : stack'[i] = stack[i]
      /\ stack'[n + 1].for = call.for
      /\ References(scopes) \subseteq References(scopes')
      /\ \A r \in References(scopes) : StateOf(r)' = StateOf(r)
      /\ \A r \in References(scopes') \ References(scopes) : StateOf(r)' = "Unvisited"
  BY <1>1, EstablishFacts
<1>3. ScopesInvariant'
  <2>1. /\ stack' \in Seq(FrameType)
        /\ FrameIsLexical(program, scopes', stack'[n + 1])
        /\ \A f : FrameIsLexical(program, scopes, f) => FrameIsLexical(program, scopes', f)
        /\ \A s \in DOMAIN scopes' : ScopeIsLexical(program, scopes', scopes'[s])
    BY <1>1, EstablishFacts
  <2>2. verdict' \in VerdictType /\ program' \in Programs
    BY <1>1 DEF ScopesInvariant
  <2>3. bindings' \in [QueryId -> Nat]
    <3>1. call.query \in QueryId /\ bindings \in [QueryId -> Nat]
      BY <1>1 DEF ScopesInvariant, CallIsLexical
    <3> QED
      BY <1>1, <3>1
  <2>4. ASSUME NEW i \in DOMAIN stack' PROVE FrameIsLexical(program', scopes', stack'[i])
    <3>1. i \in DOMAIN stack \/ i = n + 1
      BY <1>2
    <3> QED
      BY <1>1, <1>2, <2>1, <3>1 DEF ScopesInvariant
  <2>5. call' \in CallType
    BY <1>1, EmptySeq DEF NoCall, Call, CallType, NoReference, Reference, ReferenceType
  <2> QED
    BY <1>1, <1>2, <2>1, <2>2, <2>3, <2>4, <2>5 DEF ScopesInvariant
<1>4. MarksAreActive'
  <2>1. call'.for = NoReference /\ NoReference \notin References(scopes')
    BY <1>1, <1>2, ReferenceFacts DEF NoCall, Call
  <2>2. /\ call.for \in References(scopes) \cup {NoReference}
        /\ \A i \in DOMAIN stack : stack[i].for \in References(scopes) \cup {NoReference}
    BY <1>1 DEF ScopesInvariant, FrameIsLexical, CallIsLexical
  <2>3. \A r : (\E i \in DOMAIN stack' : stack'[i].for = r)
                 <=> (call.for = r \/ \E i \in DOMAIN stack : stack[i].for = r)
    <3>1. \A i : i \in DOMAIN stack' <=> (i \in DOMAIN stack \/ i = n + 1)
      BY <1>2
    <3> QED
      BY <1>2, <3>1
  <2>4. ASSUME NEW r \in References(scopes')
        PROVE  StateOf(r)' = "Binding" <=> \E i \in DOMAIN stack' : stack'[i].for = r
    <3>1. CASE r \in References(scopes)
      <4>1. StateOf(r)' = StateOf(r)
        BY <1>2, <3>1
      <4>2. StateOf(r) = "Binding" <=> (call.for = r \/ \E i \in DOMAIN stack : stack[i].for = r)
        BY <1>1, <3>1 DEF MarksAreActive
      <4> QED
        BY <2>3, <4>1, <4>2
    <3>2. CASE r \notin References(scopes)
      BY <1>2, <2>1, <2>2, <2>3, <3>2
    <3> QED
      BY <3>1, <3>2
  <2>5. ASSUME NEW i \in DOMAIN stack', NEW j \in DOMAIN stack',
               stack'[i].for = stack'[j].for, stack'[i].for # NoReference
        PROVE  i = j
    <3>1. (i \in DOMAIN stack \/ i = n + 1) /\ (j \in DOMAIN stack \/ j = n + 1)
      BY <1>2
    <3> QED
      BY <1>1, <1>2, <2>5, <3>1 DEF MarksAreActive
  <2> QED
    BY <2>1, <2>4, <2>5 DEF MarksAreActive
<1>5. MeaningIsLexical'
  BY <1>1 DEF MeaningIsLexical
<1> QED
  BY <1>3, <1>4, <1>5 DEF BinderInvariant

(* When only the state of one declaration changes, what is lexical stays   *)
(* so.                                                                     *)
LEMMA StateKeepsScopes ==
  ASSUME ScopesInvariant, NEW r \in References(scopes),
         NEW state \in {"Unvisited", "Binding", "Bound"}, SetState(r, state)
  PROVE  /\ scopes' \in Seq(ScopeType)
         /\ \A s \in DOMAIN scopes' : ScopeIsLexical(program, scopes', scopes'[s])
         /\ \A f : FrameIsLexical(program, scopes, f) => FrameIsLexical(program, scopes', f)
         /\ \A c : CallIsLexical(program, scopes, c) => CallIsLexical(program, scopes', c)
<1>1. /\ scopes \in Seq(ScopeType)
      /\ \A s \in DOMAIN scopes : ScopeIsLexical(program, scopes, scopes[s])
  BY DEF ScopesInvariant
<1>2. /\ scopes' \in Seq(ScopeType)
      /\ Len(scopes') = Len(scopes)
      /\ \A s \in DOMAIN scopes : /\ scopes'[s].query = scopes[s].query
                                  /\ scopes'[s].chain = scopes[s].chain
                                  /\ DOMAIN scopes'[s].states = DOMAIN scopes[s].states
  BY StateFacts
<1>3. Len(scopes) <= Len(scopes') /\ DOMAIN scopes' = DOMAIN scopes
  BY <1>1, <1>2, LenProperties
<1> QED
  BY <1>1, <1>2, <1>3, ScopesGrow

(* bind_cte marks a declaration that nothing is binding yet, and enters    *)
(* its query in the scopes of the clause that carries it.                  *)
LEMMA BindDeclarationStep ==
  ASSUME BinderInvariant, BindDeclaration
  PROVE  BinderInvariant'
<1>1. /\ ScopesInvariant /\ MarksAreActive /\ MeaningIsLexical
      /\ program \in Programs /\ verdict = Pending /\ call = NoCall
      /\ (InBody /\ ThisName # None) \/ AtEnd
      /\ Demanded # NoReference /\ StateOf(Demanded) = "Unvisited"
      /\ SetState(Demanded, "Binding")
      /\ call' = Call(Body(Demanded), scopes[Demanded.scope].chain, Demanded)
      /\ UNCHANGED <<program, verdict, stack, meanings, bindings>>
  BY DEF BinderInvariant, ScopesInvariant, BindDeclaration, DemandsCte, InBody, AtEnd
<1>2. Demanded \in References(scopes)
  BY <1>1, DemandFacts
<1>3. /\ Body(Demanded) \in QueryId /\ scopes[Demanded.scope].chain \in Seq(Nat)
      /\ IsChain(program, scopes, scopes[Demanded.scope].chain,
                 Outside(program, Body(Demanded)))
  BY <1>1, <1>2, BodyFacts
<1>4. Demanded \in ReferenceType
  BY <1>1, <1>2, ReferenceFacts DEF ScopesInvariant
<1>5. /\ call'.query = Body(Demanded) /\ call'.for = Demanded
      /\ call'.chain = scopes[Demanded.scope].chain
      /\ call' \in CallType
  BY <1>1, <1>3, <1>4 DEF Call, CallType
<1>6. CallIsLexical(program, scopes, call')
  BY <1>2, <1>3, <1>5 DEF CallIsLexical
<1>7. /\ scopes' \in Seq(ScopeType)
      /\ \A s \in DOMAIN scopes' : ScopeIsLexical(program, scopes', scopes'[s])
      /\ \A f : FrameIsLexical(program, scopes, f) => FrameIsLexical(program, scopes', f)
      /\ \A c : CallIsLexical(program, scopes, c) => CallIsLexical(program, scopes', c)
  BY <1>1, <1>2, StateKeepsScopes
<1>8. ScopesInvariant'
  BY <1>1, <1>5, <1>6, <1>7 DEF ScopesInvariant
<1>9. MarksAreActive'
  <2>1. /\ References(scopes') = References(scopes)
        /\ \A x \in References(scopes) :
             StateOf(x)' = IF x = Demanded THEN "Binding" ELSE StateOf(x)
    BY <1>1, <1>2, StateFacts
  <2>2. \A x \in References(scopes) : call.for # x
    BY <1>1, ReferenceFacts DEF ScopesInvariant, NoCall, Call
  <2>3. \A i \in DOMAIN stack : stack[i].for # Demanded
    BY <1>1, <1>2 DEF MarksAreActive
  <2> QED
    BY <1>1, <1>2, <1>5, <2>1, <2>2, <2>3 DEF MarksAreActive
<1>10. MeaningIsLexical'
  BY <1>1 DEF MeaningIsLexical
<1> QED
  BY <1>8, <1>9, <1>10 DEF BinderInvariant

(* A frame that is popped was the last one.                                *)
LEMMA PoppedFacts ==
  ASSUME ScopesInvariant, stack # <<>>, stack' = SubSeq(stack, 1, Len(stack) - 1)
  PROVE  /\ stack' \in Seq(FrameType)
         /\ DOMAIN stack' = DOMAIN stack \ {Len(stack)}
         /\ \A i \in DOMAIN stack' : stack'[i] = stack[i]
<1>1. /\ stack \in Seq(FrameType) /\ Len(stack) \in Nat \ {0}
      /\ DOMAIN stack = 1 .. Len(stack)
  BY InnermostFacts DEF ScopesInvariant
<1>2. \A i \in 1 .. Len(stack) - 1 : stack[i] \in FrameType
  BY <1>1, ElementOfSeq
<1>3. /\ stack' \in Seq(FrameType)
      /\ Len(stack') = Len(stack) - 1
      /\ \A i \in 1 .. Len(stack) - 1 : stack'[i] = stack[i]
  <2>1. 1 \in Int /\ Len(stack) - 1 \in Int
    BY <1>1
  <2>2. /\ stack' \in Seq(FrameType)
        /\ Len(stack') = IF 1 <= Len(stack) - 1 THEN (Len(stack) - 1) - 1 + 1 ELSE 0
        /\ \A i \in 1 .. (Len(stack) - 1) - 1 + 1 : stack'[i] = stack[1 + i - 1]
    BY <1>2, <2>1, SubSeqProperties
  <2>3. \A i \in 1 .. Len(stack) - 1 : 1 + i - 1 = i
    BY <1>1
  <2> QED
    BY <1>1, <2>2, <2>3
<1>4. DOMAIN stack' = 1 .. Len(stack) - 1
  BY <1>3, LenProperties
<1> QED
  BY <1>1, <1>3, <1>4

(* A call that returns is the one of its declaration, which is bound now.  *)
LEMMA ReturnStep ==
  ASSUME BinderInvariant, Return
  PROVE  BinderInvariant'
<1>1. /\ ScopesInvariant /\ MarksAreActive /\ MeaningIsLexical
      /\ verdict = Pending /\ call = NoCall /\ stack # <<>>
      /\ stack' = SubSeq(stack, 1, Len(stack) - 1)
      /\ IF Binding.for = NoReference THEN UNCHANGED scopes ELSE SetState(Binding.for, "Bound")
      /\ verdict' = IF Len(stack) = 1 THEN Bound ELSE Pending
      /\ UNCHANGED <<program, call, meanings, bindings>>
  BY DEF BinderInvariant, Return, AtEnd
<1>2. /\ Binding.for \in References(scopes) \cup {NoReference}
      /\ Binding = stack[Len(stack)] /\ Len(stack) \in DOMAIN stack
  BY <1>1, InnermostFacts DEF FrameIsLexical, Binding
<1>3. /\ stack' \in Seq(FrameType)
      /\ DOMAIN stack' = DOMAIN stack \ {Len(stack)}
      /\ \A i \in DOMAIN stack' : stack'[i] = stack[i]
  BY <1>1, PoppedFacts
<1>4. verdict' \in VerdictType
  BY <1>1 DEF VerdictType, VerdictKinds, Bound, Pending, Verdict
<1>5. /\ scopes' \in Seq(ScopeType)
      /\ \A s \in DOMAIN scopes' : ScopeIsLexical(program, scopes', scopes'[s])
      /\ \A f : FrameIsLexical(program, scopes, f) => FrameIsLexical(program, scopes', f)
  <2>1. CASE Binding.for = NoReference
    BY <1>1, <2>1 DEF ScopesInvariant
  <2>2. CASE Binding.for # NoReference
    BY <1>1, <1>2, <2>2, StateKeepsScopes
  <2> QED
    BY <2>1, <2>2
<1>6. ScopesInvariant'
  <2>1. \A i \in DOMAIN stack' : FrameIsLexical(program, scopes', stack'[i])
    BY <1>1, <1>3, <1>5 DEF ScopesInvariant
  <2> QED
    BY <1>1, <1>3, <1>4, <1>5, <2>1 DEF ScopesInvariant
<1>7. MarksAreActive'
  <2>1. /\ References(scopes') = References(scopes)
        /\ \A x \in References(scopes) :
             StateOf(x)' = IF x = Binding.for THEN "Bound" ELSE StateOf(x)
    <3>1. CASE Binding.for = NoReference
      BY <1>1, <3>1, ReferenceFacts DEF ScopesInvariant, StateOf
    <3>2. CASE Binding.for # NoReference
      BY <1>1, <1>2, <3>2, StateFacts
    <3> QED
      BY <3>1, <3>2
  <2>2. \A x \in References(scopes) : call.for # x /\ x # NoReference
    BY <1>1, ReferenceFacts DEF ScopesInvariant, NoCall, Call
  <2>3. call'.for = NoReference
    BY <1>1 DEF NoCall, Call
  <2>4. ASSUME NEW x \in References(scopes)
        PROVE  StateOf(x)' = "Binding" <=> \E i \in DOMAIN stack' : stack'[i].for = x
    <3>1. CASE x = Binding.for
      <4>1. \A i \in DOMAIN stack' : stack[i].for # x
        BY <1>1, <1>2, <1>3, <2>2, <3>1 DEF MarksAreActive
      <4> QED
        BY <1>3, <2>1, <3>1, <4>1
    <3>2. CASE x # Binding.for
      <4>1. StateOf(x)' = StateOf(x)
        BY <2>1, <3>2
      <4>2. StateOf(x) = "Binding" <=> \E i \in DOMAIN stack : stack[i].for = x
        BY <1>1, <2>2 DEF MarksAreActive
      <4>3. \A i \in DOMAIN stack : stack[i].for = x => i # Len(stack)
        BY <1>2, <3>2
      <4> QED
        BY <1>3, <4>1, <4>2, <4>3
    <3> QED
      BY <3>1, <3>2
  <2> QED
    BY <1>1, <1>3, <2>1, <2>2, <2>3, <2>4 DEF MarksAreActive
<1>8. MeaningIsLexical'
  BY <1>1 DEF MeaningIsLexical
<1> QED
  BY <1>6, <1>7, <1>8 DEF BinderInvariant

-----------------------------------------------------------------------------
(* The theorems.                                                           *)

(* The inductive invariant holds before anything is bound.                 *)
LEMMA BinderBase ==
  ASSUME BinderInit
  PROVE  BinderInvariant
<1>1. /\ program \in Programs /\ program.root \in QueryId
      /\ verdict = Pending /\ stack = <<>> /\ scopes = <<>> /\ meanings = {}
      /\ call = Call(program.root, <<>>, NoReference)
      /\ bindings = [q \in QueryId |-> 0]
  BY ProgramsAssumption DEF BinderInit, Init, Program
<1>2. DOMAIN scopes = {} /\ DOMAIN stack = {}
  BY <1>1
<1>3. /\ call.query = program.root /\ call.chain = <<>> /\ call.for = NoReference
      /\ call \in CallType
  BY <1>1, EmptySeq DEF Call, CallType, NoReference, Reference, ReferenceType
<1>4. IsChain(program, scopes, <<>>, {})
  BY EmptySeq DEF IsChain
<1>5. CallIsLexical(program, scopes, call)
  BY <1>1, <1>3, <1>4, OutsideOfRoot DEF CallIsLexical
<1>6. verdict \in VerdictType
  BY <1>1 DEF VerdictType, VerdictKinds, Pending, Verdict
<1>7. ScopesInvariant
  BY <1>1, <1>2, <1>3, <1>5, <1>6, EmptySeq DEF ScopesInvariant
<1>8. MarksAreActive
  BY <1>2, <1>3 DEF MarksAreActive, References
<1>9. MeaningIsLexical
  BY <1>1 DEF MeaningIsLexical
<1> QED
  BY <1>7, <1>8, <1>9 DEF BinderInvariant

(* Every step of the binder preserves the inductive invariant.             *)
LEMMA BinderStep ==
  ASSUME BinderInvariant, [BinderNext]_binderVars
  PROVE  BinderInvariant'
<1>1. CASE RejectDuplicate \/ RejectUnknown \/ RejectAmbiguous \/ RejectCycle
  BY <1>1, RejectStep
<1>2. CASE UseRelation \/ UseDeclaration
  BY <1>2, UseStep
<1>3. CASE EstablishScope
  BY <1>3, EstablishScopeStep
<1>4. CASE BindDeclaration
  BY <1>4, BindDeclarationStep
<1>5. CASE BindNested
  BY <1>5, BindNestedStep
<1>6. CASE Return
  BY <1>6, ReturnStep
<1>7. CASE UNCHANGED binderVars
  BY <1>7 DEF binderVars, BinderInvariant, ScopesInvariant, MarksAreActive, StateOf,
              MeaningIsLexical
<1> QED
  BY <1>1, <1>2, <1>3, <1>4, <1>5, <1>6, <1>7 DEF BinderNext

(* Every state of every binding satisfies the inductive invariant.         *)
LEMMA BinderInduction == BinderSpec => []BinderInvariant
<1>1. BinderInit => BinderInvariant
  BY BinderBase
<1>2. BinderInvariant /\ [BinderNext]_binderVars => BinderInvariant'
  BY BinderStep
<1> QED
  BY <1>1, <1>2, PTL DEF BinderSpec

(* The variables of the binder keep their types and no reference into its  *)
(* scopes dangles, so that the indexing of Binder.cte_scopes cannot fail.  *)
THEOREM BinderTypeCorrectness == BinderSpec => []BinderTypeOK
<1>1. ASSUME BinderInvariant PROVE BinderTypeOK
  <2>0. ScopesInvariant
    BY <1>1 DEF BinderInvariant
  <2>1. verdict.kind \in VerdictKinds /\ verdict.name \in Name \cup {None}
    BY <2>0 DEF ScopesInvariant, VerdictType
  <2>2. call # NoCall => call.query \in QueryId
    BY <2>0 DEF ScopesInvariant, CallIsLexical
  <2>3. \A i \in DOMAIN scopes :
          /\ DOMAIN scopes[i].states = DOMAIN program.queries[scopes[i].query].ctes
          /\ \A k \in DOMAIN scopes[i].states :
               scopes[i].states[k] \in {"Unvisited", "Binding", "Bound"}
    BY <2>0, ScopeFacts
  <2>4. ASSUME NEW f, NEW D, IsChain(program, scopes, f.chain, D),
               f.for \in References(scopes) \cup {NoReference}
        PROVE  /\ Elements(f.chain) \subseteq DOMAIN scopes
               /\ f.for # NoReference => /\ f.for.scope \in DOMAIN scopes
                                         /\ f.for.declaration \in DOMAIN scopes[f.for.scope].states
    <3>1. f.chain \in Seq(DOMAIN scopes)
      BY <2>4 DEF IsChain
    <3>2. \A k \in DOMAIN f.chain : f.chain[k] \in DOMAIN scopes
      BY <3>1, LenProperties, ElementOfSeq
    <3> QED
      BY <2>4, <3>2 DEF Elements, References
  <2>5. \A f \in Elements(stack) \cup ({call} \ {NoCall}) :
          /\ Elements(f.chain) \subseteq DOMAIN scopes
          /\ f.for # NoReference => /\ f.for.scope \in DOMAIN scopes
                                    /\ f.for.declaration \in DOMAIN scopes[f.for.scope].states
    <3>1. ASSUME NEW f \in Elements(stack) \cup ({call} \ {NoCall})
          PROVE  /\ \E D : IsChain(program, scopes, f.chain, D)
                 /\ f.for \in References(scopes) \cup {NoReference}
      BY <2>0 DEF ScopesInvariant, FrameIsLexical, CallIsLexical, Elements
    <3> QED
      BY <2>4, <3>1
  <2>6. bindings \in [QueryId -> Nat]
    BY <2>0 DEF ScopesInvariant
  <2> QED
    BY <2>1, <2>2, <2>3, <2>5, <2>6 DEF BinderTypeOK
<1>2. BinderInvariant => BinderTypeOK
  BY <1>1
<1> QED
  BY <1>2, BinderInduction, PTL

(* A declaration found marked Binding by bind_cte is being bound by one of *)
(* the calls under way, so it depends on itself: the cycle error is true.  *)
THEOREM CyclesAreActive == BinderSpec => []BindingIsActive
<1>1. ASSUME BinderInvariant PROVE BindingIsActive
  <2> SUFFICES ASSUME verdict = Pending
               PROVE  LET active == [i \in DOMAIN stack |-> stack[i].for]
                          marked == {r \in UNION {{Reference(s, k) :
                                                     k \in DOMAIN scopes[s].states} :
                                                    s \in DOMAIN scopes} :
                                       StateOf(r) = "Binding"}
                      IN /\ marked = (Elements(active) \cup {call.for}) \ {NoReference}
                         /\ \A i, j \in DOMAIN active :
                              active[i] = active[j] /\ active[i] # NoReference => i = j
    BY DEF BindingIsActive
  <2> DEFINE active == [i \in DOMAIN stack |-> stack[i].for]
             declared == UNION {{Reference(s, k) : k \in DOMAIN scopes[s].states} :
                                  s \in DOMAIN scopes}
             marked == {r \in declared : StateOf(r) = "Binding"}
  <2>1. ScopesInvariant /\ MarksAreActive
    BY <1>1 DEF BinderInvariant
  <2>2. declared = References(scopes)
    <3>1. ASSUME NEW r \in References(scopes) PROVE r \in declared
      <4>1. /\ r = Reference(r.scope, r.declaration) /\ r.scope \in DOMAIN scopes
            /\ r.declaration \in DOMAIN scopes[r.scope].states
        BY <2>1, ReferenceFacts, LenProperties DEF ScopesInvariant
      <4> QED
        BY <4>1
    <3>2. ASSUME NEW s \in DOMAIN scopes, NEW k \in DOMAIN scopes[s].states
          PROVE  Reference(s, k) \in References(scopes)
      BY <2>1, ScopeFacts
    <3> QED
      BY <3>1, <3>2
  <2> HIDE DEF declared
  <2>3. Elements(active) = {stack[i].for : i \in DOMAIN stack}
    BY DEF Elements
  <2>4. ASSUME NEW r PROVE r \in marked <=> r \in (Elements(active) \cup {call.for}) \ {NoReference}
    <3>1. /\ call.for \in References(scopes) \cup {NoReference}
          /\ \A i \in DOMAIN stack : stack[i].for \in References(scopes) \cup {NoReference}
      BY <2>1 DEF ScopesInvariant, FrameIsLexical, CallIsLexical, NoCall, Call
    <3>2. NoReference \notin References(scopes)
      BY <2>1, ReferenceFacts DEF ScopesInvariant
    <3>3. r \in References(scopes) =>
            (StateOf(r) = "Binding" <=> (call.for = r \/ \E i \in DOMAIN stack : stack[i].for = r))
      BY <2>1 DEF MarksAreActive
    <3>4. r \in Elements(active) <=> \E i \in DOMAIN stack : stack[i].for = r
      BY <2>3
    <3> QED
      BY <2>2, <3>1, <3>2, <3>3, <3>4
  <2>5. marked = (Elements(active) \cup {call.for}) \ {NoReference}
    BY <2>4
  <2>6. \A i, j \in DOMAIN active :
          active[i] = active[j] /\ active[i] # NoReference => i = j
    BY <2>1 DEF MarksAreActive
  <2> QED
    BY <2>5, <2>6 DEF declared
<1>2. BinderInvariant => BindingIsActive
  BY <1>1
<1> QED
  BY <1>2, BinderInduction, PTL

(* Every chain of scopes is the WITH clauses around the query, and a name  *)
(* means what the program text says, from wherever the declaration it      *)
(* stands in came to be bound.                                             *)
THEOREM NamesAreLexical == BinderSpec => []ScopingIsLexical
<1>1. ASSUME BinderInvariant PROVE ScopingIsLexical
  <2>1. ASSUME NEW f \in Elements(stack)
        PROVE  /\ \A k, l \in DOMAIN f.chain :
                    k < l => Encloses(program, scopes[f.chain[k]].query, scopes[f.chain[l]].query)
               /\ {scopes[f.chain[k]].query : k \in DOMAIN f.chain}
                    = {q \in QueryId : /\ program.queries[q].ctes # <<>>
                                       /\ Encloses(program, q, f.query)}
    <3>1. IsChain(program, scopes, f.chain, Around(program, f.query))
      BY <1>1 DEF BinderInvariant, ScopesInvariant, FrameIsLexical, Elements
    <3> QED
      BY <3>1 DEF IsChain, Around
  <2> QED
    BY <1>1, <2>1 DEF BinderInvariant, ScopingIsLexical, ChainIsLexical
<1>2. BinderInvariant => ScopingIsLexical
  BY <1>1
<1> QED
  BY <1>2, BinderInduction, PTL

-----------------------------------------------------------------------------
(* What has been bound is done with.                                       *)

(* The declarations that are bound.                                        *)
Complete == {Declaration(r) : r \in {x \in References(scopes) : StateOf(x) = "Bound"}}

(* With the declarations K bound, nothing is left to find out about a name *)
(* of q, about q, and about all that it encloses.                          *)
Settled(p, K, q, name) ==
  IF Meaning(p, q, name) = NoCte THEN p.relations[name] = 1 ELSE Meaning(p, q, name) \in K

Clean(p, K, q) ==
  /\ \A name \in Name : ~ Repeated(p, q, name)
  /\ \A name \in Names(p, q) : Settled(p, K, q, name)
  /\ \A i \in DOMAIN p.queries[q].ctes : Cte(q, i) \in K

Finished(p, K, q) == \A r \in QueryId : Encloses(p, q, r) => Clean(p, K, r)

(* The call that the one at i of the stack waits for, or the first call.   *)
Child(query, for) == [query |-> query, for |-> for]

NoChild == Child(None, NoReference)

Below(i) ==
  IF i < Len(stack) THEN Child(stack[i + 1].query, stack[i + 1].for)
  ELSE Child(call.query, call.for)

(* A call waits for a nested query, or for a declaration that it names or  *)
(* carries.                                                                *)
DeclarationIn(S, r) == Cte(S[r.scope].query, r.declaration)

WaitsFor(p, S, frame, child) ==
  \/ child = NoChild
  \/ child.for = NoReference /\ child.query \in Parts(p, frame.query)
  \/ /\ child.for \in References(S)
     /\ child.query = CteQuery(p, DeclarationIn(S, child.for))
     /\ \/ \E name \in Names(p, frame.query) :
             Meaning(p, frame.query, name) = DeclarationIn(S, child.for)
        \/ S[child.for.scope].query = frame.query

(* All items before the next one are done with, but for the query that is  *)
(* being bound.                                                            *)
ItemsAreDone(p, K, frame, child) ==
  \A k \in DOMAIN p.queries[frame.query].items :
    k < frame.next =>
      LET item == p.queries[frame.query].items[k]
      IN /\ item.name # None => Settled(p, K, frame.query, item.name)
         /\ item.name = None => \/ Finished(p, K, item.query)
                                \/ child = Child(item.query, NoReference)

(* A call has a scope for its own clause, if it has one.                   *)
HasOwnScope(p, S, frame) ==
  IF p.queries[frame.query].ctes = <<>> THEN frame.scope = 0
  ELSE frame.scope \in DOMAIN S /\ S[frame.scope].query = frame.query

FrameProgress(p, S, K, frame, child) ==
  /\ Encloses(p, p.root, frame.query)
  /\ \A name \in Name : ~ Repeated(p, frame.query, name)
  /\ HasOwnScope(p, S, frame)
  /\ ItemsAreDone(p, K, frame, child)
  /\ WaitsFor(p, S, frame, child)

(* While binding goes on: everything belongs to the root, the calls wait   *)
(* for each other, what is bound is done with and on no cycle, and a call  *)
(* has a younger scope than the declarations under way.                    *)
Progress ==
  verdict = Pending =>
    /\ \A s \in DOMAIN scopes : Encloses(program, program.root, scopes[s].query)
    /\ call # NoCall => Encloses(program, program.root, call.query)
    /\ Below(0) = Child(program.root, NoReference)
    /\ \A i \in DOMAIN stack :
         FrameProgress(program, scopes, Complete, stack[i], Below(i))
    /\ \A c \in Complete : /\ Finished(program, Complete, CteQuery(program, c))
                           /\ ~ OnCycle(program, c)
    /\ \A i, k \in DOMAIN stack :
         i <= k /\ stack[k].scope # 0 => stack[i].for.scope < stack[k].scope

VerdictInvariant == BinderInvariant /\ Progress /\ VerdictIsCorrect

-----------------------------------------------------------------------------
(* Facts about declarations and what is done with.                         *)

(* References of the scopes name declarations of the program.              *)
LEMMA DeclarationFacts ==
  ASSUME ScopesInvariant, NEW r \in References(scopes)
  PROVE  /\ r.scope \in DOMAIN scopes
         /\ scopes[r.scope].query \in QueryId
         /\ r.declaration \in DOMAIN program.queries[scopes[r.scope].query].ctes
         /\ Declaration(r) = DeclarationIn(scopes, r)
         /\ Declaration(r) \in Ctes(program)
         /\ Declaration(r) # NoCte
         /\ Body(r) = CteQuery(program, Declaration(r))
         /\ Body(r) \in QueryId
         /\ Body(r) \in Parts(program, scopes[r.scope].query)
<1>1. r.scope \in DOMAIN scopes /\ r.declaration \in DOMAIN scopes[r.scope].states
  BY ReferenceFacts, LenProperties DEF ScopesInvariant
<1>2. /\ scopes[r.scope].query \in QueryId
      /\ r.declaration \in DOMAIN program.queries[scopes[r.scope].query].ctes
  BY <1>1, ScopeFacts
<1>3. /\ Declaration(r) = Cte(scopes[r.scope].query, r.declaration)
      /\ Declaration(r) = DeclarationIn(scopes, r)
  BY DEF Declaration, DeclarationIn
<1>4. Declaration(r) \in Ctes(program)
  BY <1>2, <1>3, CteFacts
<1>5. Declaration(r) # NoCte
  BY <1>2, <1>3, NoneAssumption DEF Cte, NoCte
<1>6. Body(r) = CteQuery(program, Declaration(r))
  BY DEF Body
<1>7. program \in Programs
  BY DEF ScopesInvariant
<1> DEFINE q == scopes[r.scope].query
           d == r.declaration
<1>8. q \in QueryId /\ d \in DOMAIN program.queries[q].ctes /\ Declaration(r) = Cte(q, d)
  BY <1>2, <1>3
<1>9. Body(r) \in QueryId
  <2> HIDE DEF q, d
  <2>1. Body(r) = program.queries[q].ctes[d].query
    BY <1>6, <1>8 DEF CteQuery, Cte
  <2> QED
    BY <1>7, <1>8, <2>1, SyntaxFacts
<1>10. Body(r) \in Parts(program, q)
  <2> HIDE DEF q, d
  <2>1. Body(r) = program.queries[q].ctes[d].query
    BY <1>6, <1>8 DEF CteQuery, Cte
  <2> QED
    BY <1>7, <1>8, <2>1, PartsFacts
<1> QED
  BY <1>1, <1>2, <1>3, <1>4, <1>5, <1>6, <1>9, <1>10

(* What is done with stays so when more declarations are bound.            *)
LEMMA DoneGrows ==
  ASSUME NEW p, NEW K, NEW L, K \subseteq L
  PROVE  /\ \A q, name : Settled(p, K, q, name) => Settled(p, L, q, name)
         /\ \A q : Finished(p, K, q) => Finished(p, L, q)
         /\ \A f, c : ItemsAreDone(p, K, f, c) => ItemsAreDone(p, L, f, c)
<1>1. \A q, name : Settled(p, K, q, name) => Settled(p, L, q, name)
  BY DEF Settled
<1>2. \A q : Clean(p, K, q) => Clean(p, L, q)
  BY <1>1 DEF Clean
<1>3. \A q : Finished(p, K, q) => Finished(p, L, q)
  BY <1>2 DEF Finished
<1>4. ASSUME NEW f, NEW c, ItemsAreDone(p, K, f, c) PROVE ItemsAreDone(p, L, f, c)
  BY <1>1, <1>3, <1>4 DEF ItemsAreDone
<1> QED
  BY <1>1, <1>3, <1>4

(* The progress of a call stays when there are more scopes, and more       *)
(* declarations bound.                                                     *)
LEMMA ProgressGrows ==
  ASSUME NEW p, NEW K, NEW L, K \subseteq L,
         NEW S, NEW T, References(S) \subseteq References(T),
         \A s \in DOMAIN S : s \in DOMAIN T /\ T[s].query = S[s].query,
         NEW f, NEW c, FrameProgress(p, S, K, f, c)
  PROVE  FrameProgress(p, T, L, f, c)
<1>1. ItemsAreDone(p, L, f, c)
  BY DoneGrows DEF FrameProgress
<1>2. HasOwnScope(p, T, f)
  BY DEF FrameProgress, HasOwnScope
<1>3. \A r \in References(S) : r.scope \in DOMAIN S
  BY DEF References
<1>4. \A r \in References(S) : /\ DeclarationIn(T, r) = DeclarationIn(S, r)
                               /\ T[r.scope].query = S[r.scope].query
  BY <1>3 DEF DeclarationIn
<1>5. WaitsFor(p, T, f, c)
  BY <1>4 DEF FrameProgress, WaitsFor
<1> QED
  BY <1>1, <1>2, <1>5 DEF FrameProgress

(* The bound declarations are declarations of the program.                 *)
LEMMA CompleteFacts ==
  ASSUME ScopesInvariant
  PROVE  Complete \subseteq Ctes(program)
BY DeclarationFacts DEF Complete

(* Which declarations are bound, after a change of one state.              *)
LEMMA CompleteChanges ==
  ASSUME ScopesInvariant, NEW r \in References(scopes),
         NEW state \in {"Unvisited", "Binding", "Bound"}, SetState(r, state)
  PROVE  /\ state # "Bound" /\ StateOf(r) # "Bound" => Complete' = Complete
         /\ state = "Bound" => Complete' = Complete \cup {Declaration(r)}
<1>1. /\ References(scopes') = References(scopes)
      /\ \A s \in DOMAIN scopes : scopes'[s].query = scopes[s].query
      /\ \A x \in References(scopes) :
           StateOf(x)' = IF x = r THEN state ELSE StateOf(x)
  BY StateFacts
<1>2. \A x \in References(scopes) : Declaration(x)' = Declaration(x)
  BY <1>1, DeclarationFacts DEF Declaration
<1>3. Complete' = {Declaration(x) : x \in {y \in References(scopes) : StateOf(y)' = "Bound"}}
  BY <1>1, <1>2 DEF Complete
<1>4. CASE state # "Bound"
  BY <1>1, <1>3, <1>4 DEF Complete
<1>5. CASE state = "Bound"
  <2>1. {y \in References(scopes) : StateOf(y)' = "Bound"}
          = {y \in References(scopes) : StateOf(y) = "Bound"} \cup {r}
    BY <1>1, <1>5
  <2> QED
    BY <1>3, <1>5, <2>1 DEF Complete
<1> QED
  BY <1>4, <1>5

(* A declaration all of whose dependencies are bound before it, when what  *)
(* is bound has its dependencies bound, is on no cycle.                    *)
LEMMA BoundIsAcyclic ==
  ASSUME NEW p \in Programs, NEW K \in SUBSET Ctes(p), NEW c \in Ctes(p), c \notin K,
         \A d \in K \cup {c} : Finished(p, K, CteQuery(p, d))
  PROVE  ~ OnCycle(p, c)
<1>1. ASSUME NEW d \in K \cup {c}, NEW e \in Ctes(p), DependsOn(p, d, e) PROVE e \in K
  <2>1. PICK q \in QueryId : /\ Encloses(p, CteQuery(p, d), q)
                             /\ \E name \in Names(p, q) : Meaning(p, q, name) = e
    BY <1>1 DEF DependsOn
  <2>2. PICK name \in Names(p, q) : Meaning(p, q, name) = e
    BY <2>1
  <2>3. Settled(p, K, q, name)
    BY <2>1, <2>2 DEF Finished, Clean
  <2>4. e # NoCte
    BY NoneAssumption DEF Ctes, Cte, NoCte
  <2> QED
    BY <2>2, <2>3, <2>4 DEF Settled
<1>2. K \in SUBSET Ctes(p) /\ c \notin K
  OBVIOUS
<1>3. \A d, e \in Ctes(p) : (d = c \/ d \in K) /\ DependsOn(p, d, e) => e \in K
  BY <1>1
<1> QED
  BY <1>2, <1>3 DEF OnCycle

-----------------------------------------------------------------------------
(* Errors are true.                                                        *)

(* The call that is being bound, and what it waits for.                    *)
LEMMA BelowFacts ==
  ASSUME ScopesInvariant, stack # <<>>, call = NoCall
  PROVE  /\ Below(Len(stack)) = NoChild
         /\ Below(0) = Child(stack[1].query, stack[1].for)
         /\ \A i \in DOMAIN stack : i # Len(stack) =>
              /\ i + 1 \in DOMAIN stack
              /\ Below(i) = Child(stack[i + 1].query, stack[i + 1].for)
<1>1. Len(stack) \in Nat \ {0} /\ DOMAIN stack = 1 .. Len(stack)
  BY InnermostFacts
<1>2. Below(Len(stack)) = Child(call.query, call.for)
  BY <1>1 DEF Below
<1>3. Below(Len(stack)) = NoChild
  BY <1>2 DEF NoChild, NoCall, Call
<1>4. 0 < Len(stack) /\ 0 + 1 = 1
  BY <1>1
<1>5. Below(0) = Child(stack[1].query, stack[1].for)
  BY <1>4 DEF Below
<1>6. ASSUME NEW i \in DOMAIN stack, i # Len(stack)
      PROVE  i < Len(stack) /\ i + 1 \in DOMAIN stack
  BY <1>1, <1>6
<1> QED
  BY <1>3, <1>5, <1>6 DEF Below

(* A call under way for a declaration is for its query.                    *)
LEMMA ActiveIsForBody ==
  ASSUME ScopesInvariant, Progress, verdict = Pending, stack # <<>>, call = NoCall,
         NEW j \in DOMAIN stack, stack[j].for # NoReference
  PROVE  /\ stack[j].query = Body(stack[j].for)
         /\ stack[j].for \in References(scopes)
         /\ j # 1
<1>1. /\ DOMAIN stack = 1 .. Len(stack) /\ Len(stack) \in Nat \ {0}
      /\ stack \in Seq(FrameType)
  BY InnermostFacts DEF ScopesInvariant
<1>2. stack[j].for \in References(scopes) /\ stack[j].query \in QueryId
  <2>1. stack[j] \in FrameType
    BY <1>1, ElementOfSeq
  <2> QED
    BY <2>1 DEF ScopesInvariant, FrameIsLexical, FrameType
<1>3. j # 1
  BY BelowFacts DEF Progress, Child
<1>4. j - 1 \in DOMAIN stack /\ j - 1 # Len(stack) /\ (j - 1) + 1 = j
  BY <1>1, <1>3
<1>5. Below(j - 1) = Child(stack[j].query, stack[j].for)
  BY <1>4, BelowFacts
<1>6. WaitsFor(program, scopes, stack[j - 1], Child(stack[j].query, stack[j].for))
  BY <1>4, <1>5 DEF Progress, FrameProgress
<1>7. Child(stack[j].query, stack[j].for) # NoChild
  BY <1>2, NoneAssumption DEF Child, NoChild
<1>8. stack[j].query = CteQuery(program, DeclarationIn(scopes, stack[j].for))
  BY <1>6, <1>7 DEF WaitsFor, Child
<1> QED
  BY <1>2, <1>3, <1>8, DeclarationFacts

(* Every call from that of a declaration c on binds what is within the     *)
(* query of c, or of a declaration that c depends on.                      *)
LEMMA ActiveDependencies ==
  ASSUME ScopesInvariant, Progress, verdict = Pending, stack # <<>>, call = NoCall,
         NEW j \in DOMAIN stack, NEW c, stack[j].query = CteQuery(program, c),
         NEW S \in SUBSET Ctes(program), c \in Ctes(program),
         ClosedFrom(program, c, S),
         NEW i \in DOMAIN stack, j <= i
  PROVE  \E d \in S \cup {c} : Encloses(program, CteQuery(program, d), stack[i].query)
<1> DEFINE Good(k) == \E d \in S \cup {c} :
                        Encloses(program, CteQuery(program, d), stack[k].query)
           bad == {k \in j .. Len(stack) : ~ Good(k)}
<1>1. /\ DOMAIN stack = 1 .. Len(stack) /\ Len(stack) \in Nat \ {0}
      /\ program \in Programs
      /\ \A k \in DOMAIN stack : stack[k].query \in QueryId
  <2>1. stack \in Seq(FrameType)
    BY DEF ScopesInvariant
  <2>2. \A k \in 1 .. Len(stack) : stack[k] \in FrameType
    BY <2>1, ElementOfSeq
  <2> QED
    BY <2>2, InnermostFacts DEF ScopesInvariant, FrameType
<1>2. \A d \in Ctes(program) : CteQuery(program, d) \in QueryId
  <2>1. ASSUME NEW q \in QueryId, NEW k \in DOMAIN program.queries[q].ctes
        PROVE  CteQuery(program, Cte(q, k)) \in QueryId
    BY <1>1, SyntaxFacts, Zenon DEF CteQuery, Cte
  <2> QED
    BY <2>1, CteFacts
<1> SUFFICES ASSUME bad # {} PROVE FALSE
  <2>1. i \in j .. Len(stack)
    BY <1>1
  <2> QED
    BY <2>1
<1>3. PICK k \in bad : \A l \in bad : k <= l
  <2>1. bad \in SUBSET Nat
    BY <1>1
  <2> QED
    BY <2>1, LeastElement
<1>4. k # j
  BY <1>1, <1>2, EnclosesDown
<1>5. /\ k - 1 \in j .. Len(stack) /\ k - 1 \in DOMAIN stack /\ k \in DOMAIN stack
      /\ k - 1 # Len(stack) /\ (k - 1) + 1 = k /\ ~ (k <= k - 1)
  BY <1>1, <1>3, <1>4
<1>6. Good(k - 1)
  BY <1>3, <1>5
<1>7. PICK d \in S \cup {c} : Encloses(program, CteQuery(program, d), stack[k - 1].query)
  BY <1>6
<1> DEFINE child == Child(stack[k].query, stack[k].for)
<1>8. WaitsFor(program, scopes, stack[k - 1], child)
  <2>1. Below(k - 1) = child
    BY <1>5, BelowFacts
  <2> QED
    BY <1>5, <2>1 DEF Progress, FrameProgress
<1>9. child # NoChild /\ child.query = stack[k].query /\ child.for = stack[k].for
  BY <1>1, <1>5, NoneAssumption DEF Child, NoChild
<1>10. d \in Ctes(program) /\ CteQuery(program, d) \in QueryId
  BY <1>2
<1>11. ASSUME stack[k].query \in Parts(program, stack[k - 1].query) PROVE FALSE
  <2>1. Encloses(program, CteQuery(program, d), stack[k].query)
    BY <1>1, <1>5, <1>7, <1>10, <1>11, EnclosesDown
  <2> QED
    BY <1>3, <2>1
<1> HIDE DEF child
<1>12. CASE stack[k].for = NoReference /\ stack[k].query \in Parts(program, stack[k - 1].query)
  BY <1>11, <1>12
<1>13. CASE /\ stack[k].for \in References(scopes)
            /\ stack[k].query = CteQuery(program, DeclarationIn(scopes, stack[k].for))
            /\ scopes[stack[k].for.scope].query = stack[k - 1].query
  BY <1>11, <1>13, DeclarationFacts
<1>14. CASE /\ stack[k].for \in References(scopes)
            /\ stack[k].query = CteQuery(program, DeclarationIn(scopes, stack[k].for))
            /\ \E name \in Names(program, stack[k - 1].query) :
                 Meaning(program, stack[k - 1].query, name) = DeclarationIn(scopes, stack[k].for)
  <2> DEFINE e == DeclarationIn(scopes, stack[k].for)
  <2>1. e \in Ctes(program)
    BY <1>14, DeclarationFacts
  <2>2. DependsOn(program, d, e)
    BY <1>1, <1>5, <1>7, <1>14 DEF DependsOn
  <2>3. e \in S
    BY <1>10, <2>1, <2>2 DEF ClosedFrom
  <2>4. Encloses(program, CteQuery(program, e), stack[k].query)
    BY <1>1, <1>5, <1>14, EnclosesDown
  <2>5. Good(k)
    BY <2>3, <2>4
  <2> QED
    BY <1>3, <2>5
<1> QED
  BY <1>8, <1>9, <1>12, <1>13, <1>14 DEF WaitsFor

(* A declaration found while it is being bound depends on itself.          *)
LEMMA CycleIsReal ==
  ASSUME BinderInvariant, Progress, RejectCycle
  PROVE  /\ Declaration(Demanded) \in Ctes(program)
         /\ OnCycle(program, Declaration(Demanded))
         /\ Encloses(program, program.root, Declaration(Demanded).query)
<1> DEFINE c == Declaration(Demanded)
           n == Len(stack)
<1>1. /\ ScopesInvariant /\ MarksAreActive /\ program \in Programs
      /\ verdict = Pending /\ call = NoCall /\ stack # <<>>
      /\ (InBody /\ ThisName # None) \/ AtEnd
      /\ Demanded # NoReference /\ StateOf(Demanded) = "Binding"
  BY DEF BinderInvariant, ScopesInvariant, RejectCycle, DemandsCte, InBody, AtEnd
<1>2. Demanded \in References(scopes)
  BY <1>1, DemandFacts
<1>3. /\ c \in Ctes(program) /\ c = Cte(scopes[Demanded.scope].query, Demanded.declaration)
      /\ Demanded.scope \in DOMAIN scopes /\ scopes[Demanded.scope].query \in QueryId
      /\ Body(Demanded) = CteQuery(program, c)
  BY <1>1, <1>2, DeclarationFacts DEF Declaration
<1>4. PICK j \in DOMAIN stack : stack[j].for = Demanded
  BY <1>1, <1>2 DEF MarksAreActive, NoCall, Call
<1>5. stack[j].query = CteQuery(program, c)
  BY <1>1, <1>3, <1>4, ActiveIsForBody
<1>6. /\ n \in DOMAIN stack /\ j <= n /\ Binding = stack[n]
      /\ Binding.query \in QueryId /\ Binding.next \in Nat \ {0}
  <2>1. DOMAIN stack = 1 .. n /\ n \in Nat \ {0} /\ Binding \in FrameType
    BY <1>1, InnermostFacts
  <2> QED
    BY <2>1 DEF FrameType, Binding
<1>7. InBody
  <2> SUFFICES ASSUME ~ InBody PROVE FALSE
    OBVIOUS
  <2>1. Demanded = Unfinished
    BY DEF Demanded
  <2>2. Demanded.scope = Binding.scope /\ Binding.scope # 0
    BY <1>1, <2>1, Zenon DEF Unfinished, Reference
  <2>3. stack[j].for.scope < stack[n].scope
    BY <1>1, <1>6, <2>2 DEF Progress
  <2>4. Demanded.scope \in Nat
    BY <1>1, <1>3, LenProperties DEF ScopesInvariant
  <2> QED
    BY <1>4, <1>6, <2>2, <2>3, <2>4
<1>8. ThisName \in Names(program, Binding.query) /\ Meaning(program, Binding.query, ThisName) = c
  <2>1. Binding.next \in DOMAIN Items
    <3>1. DOMAIN Items = 1 .. Len(Items) /\ Len(Items) \in Nat
      BY <1>1, <1>6, SyntaxFacts DEF Items
    <3> QED
      BY <1>6, <1>7, <3>1 DEF InBody
  <2>2. ThisName # None
    BY <1>1, <1>6, <1>7, <2>1 DEF AtEnd, InBody
  <2>3. ThisName \in Names(program, Binding.query)
    BY <2>1, <2>2, Zenon DEF Names, Elements, ThisName, Items
  <2> QED
    BY <1>1, <1>7, <2>2, <2>3, DemandFacts
<1>9. ASSUME NEW S \in SUBSET Ctes(program),
             ClosedFrom(program, c, S)
      PROVE  c \in S
  <2>1. PICK d \in S \cup {c} : Encloses(program, CteQuery(program, d), stack[n].query)
    <3> HIDE DEF c, n
    <3> QED
      BY <1>1, <1>3, <1>4, <1>5, <1>6, <1>9, ActiveDependencies
  <2>2. DependsOn(program, d, c)
    BY <1>6, <1>8, <2>1 DEF DependsOn
  <2>3. d \in Ctes(program)
    BY <1>3
  <2> QED
    BY <1>3, <1>9, <2>2, <2>3 DEF ClosedFrom
<1>10. OnCycle(program, c)
  BY <1>9 DEF OnCycle, ClosedFrom
<1>11. Encloses(program, program.root, c.query)
  BY <1>1, <1>3 DEF Progress, Cte
<1> QED
  BY <1>3, <1>10, <1>11

(* An error that is justified by something within the root is right.       *)
LEMMA ErrorIsCorrect ==
  ASSUME NEW p, NEW v, Justified(p, v), ~ WellScoped(p)
  PROVE  Correct(p, v)
BY DEF Correct

(* Every error is true of the name it gives.                               *)
LEMMA RejectIsCorrect ==
  ASSUME BinderInvariant, Progress,
         RejectDuplicate \/ RejectUnknown \/ RejectAmbiguous \/ RejectCycle
  PROVE  program' = program /\ verdict' # Pending /\ Correct(program, verdict')
<1>1. /\ ScopesInvariant /\ program \in Programs /\ verdict = Pending
      /\ program' = program /\ verdict' # Pending
  <2>1. ScopesInvariant /\ program \in Programs
    BY DEF BinderInvariant, ScopesInvariant
  <2>2. \A kind, name : kind # "pending" => Verdict(kind, name) # Pending
    BY DEF Verdict, Pending
  <2>3. verdict = Pending
    <3> HIDE DEF BinderInvariant, Progress
    <3>1. CASE RejectDuplicate
      BY <3>1, Zenon DEF RejectDuplicate
    <3>2. CASE RejectUnknown \/ RejectAmbiguous
      BY <3>2 DEF RejectUnknown, RejectAmbiguous, InBody
    <3>3. CASE RejectCycle
      BY <3>3 DEF RejectCycle, DemandsCte, InBody, AtEnd
    <3> QED
      BY <3>1, <3>2, <3>3
  <2>4. \E kind, name : kind # "pending" /\ Fail(kind, name)
    <3>1. CASE RejectDuplicate
      BY <3>1, Zenon DEF RejectDuplicate
    <3>2. CASE RejectUnknown
      BY <3>2, Zenon DEF RejectUnknown
    <3>3. CASE RejectAmbiguous
      BY <3>3, Zenon DEF RejectAmbiguous
    <3>4. CASE RejectCycle
      BY <3>4, Zenon DEF RejectCycle
    <3> QED
      BY <3>1, <3>2, <3>3, <3>4
  <2>5. PICK kind, name : kind # "pending" /\ Fail(kind, name)
    BY <2>4
  <2>6. program' = program /\ verdict' = Verdict(kind, name)
    BY <2>5 DEF Fail
  <2> QED
    BY <2>1, <2>2, <2>3, <2>5, <2>6
<1>2. CASE RejectDuplicate
  <2> DEFINE q == call.query
  <2>1. q \in QueryId /\ Encloses(program, program.root, q)
    BY <1>1, <1>2, ZenonT(40) DEF RejectDuplicate, ScopesInvariant, CallIsLexical, Progress
  <2>2. PICK i \in DOMAIN program.queries[q].ctes :
          /\ \E j \in 1 .. i - 1 :
               program.queries[q].ctes[j].name = program.queries[q].ctes[i].name
          /\ verdict' = Verdict("DuplicateCommonTableExpression", program.queries[q].ctes[i].name)
    BY <1>2, Zenon DEF RejectDuplicate, Fail
  <2>3. PICK j \in 1 .. i - 1 :
          program.queries[q].ctes[j].name = program.queries[q].ctes[i].name
    BY <2>2, Zenon
  <2> DEFINE name == program.queries[q].ctes[i].name
  <2>4. name \in Name /\ j \in DOMAIN program.queries[q].ctes /\ i # j
    <3>1. /\ DOMAIN program.queries[q].ctes = 1 .. Len(program.queries[q].ctes)
          /\ Len(program.queries[q].ctes) \in Nat
          /\ name \in Name
      BY <1>1, <2>1, SyntaxFacts, Zenon
    <3> QED
      BY <2>3, <3>1
  <2>5. Repeated(program, q, name)
    BY <2>3, <2>4, Zenon DEF Repeated
  <2>6. Justified(program, verdict')
    BY <2>1, <2>2, <2>4, <2>5, Zenon DEF Justified
  <2>7. ~ WellScoped(program)
    BY <2>1, <2>4, <2>5 DEF WellScoped
  <2> QED
    BY <1>1, <2>6, <2>7, ErrorIsCorrect
<1>3. CASE RejectUnknown \/ RejectAmbiguous
  <2> DEFINE q == Binding.query
  <2>1. /\ InBody /\ ThisName # None /\ Demanded = NoReference /\ stack # <<>>
    BY <1>3 DEF RejectUnknown, RejectAmbiguous, InBody
  <2>2. /\ q \in QueryId /\ Binding.next \in Nat \ {0}
        /\ Encloses(program, program.root, q)
    <3>1. /\ Binding \in FrameType /\ Binding = stack[Len(stack)]
          /\ Len(stack) \in DOMAIN stack
      BY <1>1, <2>1, InnermostFacts DEF Binding
    <3> QED
      BY <1>1, <3>1 DEF FrameType, Progress, FrameProgress
  <2>3. Binding.next \in DOMAIN Items
    <3>1. DOMAIN Items = 1 .. Len(Items) /\ Len(Items) \in Nat
      BY <1>1, <2>2, SyntaxFacts DEF Items
    <3> QED
      BY <2>1, <2>2, <3>1 DEF InBody
  <2>4. ThisName \in Names(program, q) /\ ThisName \in Name
    BY <1>1, <2>1, <2>2, <2>3, SyntaxFacts, Zenon DEF Names, Elements, ThisName, Items
  <2>5. FromCatalog(program, q, ThisName)
    BY <1>1, <2>1, <2>4, DemandFacts DEF FromCatalog
  <2>6. \/ program.relations[ThisName] = 0 /\ verdict' = Verdict("UnknownRelation", ThisName)
        \/ program.relations[ThisName] > 1 /\ verdict' = Verdict("AmbiguousRelation", ThisName)
    BY <1>3 DEF RejectUnknown, RejectAmbiguous, Fail
  <2>7. Justified(program, verdict')
    BY <2>2, <2>4, <2>5, <2>6 DEF Justified
  <2>8. program.relations[ThisName] # 1
    BY <2>6
  <2>9. ~ WellScoped(program)
    BY <2>2, <2>4, <2>5, <2>8 DEF WellScoped
  <2> QED
    BY <1>1, <2>7, <2>9, ErrorIsCorrect
<1>4. CASE RejectCycle
  <2> DEFINE c == Declaration(Demanded)
  <2>1. /\ c \in Ctes(program) /\ OnCycle(program, c)
        /\ Encloses(program, program.root, c.query)
    BY <1>4, CycleIsReal
  <2>2. verdict' = Verdict("CommonTableExpressionCycle", CteName(program, c))
    BY <1>4 DEF RejectCycle, Fail
  <2>3. Justified(program, verdict')
    BY <2>1, <2>2 DEF Justified
  <2>4. ~ WellScoped(program)
    BY <2>1 DEF WellScoped
  <2> QED
    BY <1>1, <2>3, <2>4, ErrorIsCorrect
<1> QED
  BY <1>2, <1>3, <1>4

-----------------------------------------------------------------------------
(* Each step keeps the progress.                                           *)

(* When the innermost call waits for nothing, all items before the next    *)
(* are done with.                                                          *)
LEMMA InnermostProgress ==
  ASSUME ScopesInvariant, Progress, verdict = Pending, stack # <<>>, call = NoCall
  PROVE  /\ Binding.query \in QueryId /\ Binding.next \in Nat \ {0}
         /\ FrameProgress(program, scopes, Complete, Binding, NoChild)
         /\ \A k \in DOMAIN Items : k < Binding.next =>
              /\ Items[k].name # None =>
                   Settled(program, Complete, Binding.query, Items[k].name)
              /\ Items[k].name = None => Finished(program, Complete, Items[k].query)
<1>1. /\ Binding \in FrameType /\ Binding = stack[Len(stack)] /\ Len(stack) \in DOMAIN stack
  BY InnermostFacts DEF Binding
<1>2. Binding.query \in QueryId /\ Binding.next \in Nat \ {0} /\ program \in Programs
  BY <1>1 DEF FrameType, ScopesInvariant
<1>3. FrameProgress(program, scopes, Complete, Binding, NoChild)
  BY <1>1, BelowFacts DEF Progress
<1>4. \A k \in DOMAIN Items : Items[k].name = None => Child(Items[k].query, NoReference) # NoChild
  BY <1>2, SyntaxFacts, NoneAssumption DEF Items, Child, NoChild
<1> QED
  BY <1>2, <1>3, <1>4, Zenon DEF FrameProgress, ItemsAreDone, Items

(* Progress of the innermost call when it goes on to the next item.        *)
LEMMA ProceedProgress ==
  ASSUME ScopesInvariant, Progress, verdict = Pending, InBody, Proceed,
         NEW child, WaitsFor(program, scopes, Binding, child),
         ThisName # None => Settled(program, Complete, Binding.query, ThisName),
         ThisName = None => child = Child(Items[Binding.next].query, NoReference)
  PROVE  /\ FrameProgress(program, scopes, Complete, stack'[Len(stack)], child)
         /\ stack'[Len(stack)].scope = stack[Len(stack)].scope
         /\ Len(stack') = Len(stack) /\ DOMAIN stack' = DOMAIN stack
         /\ \A i \in DOMAIN stack : i # Len(stack) => stack'[i] = stack[i]
         /\ \A i \in DOMAIN stack : /\ stack'[i].query = stack[i].query
                                    /\ stack'[i].for = stack[i].for
                                    /\ stack'[i].scope = stack[i].scope
<1> DEFINE n == Len(stack)
           new == [Binding EXCEPT !.next = @ + 1]
<1>1. /\ stack \in Seq(FrameType) /\ stack # <<>> /\ call = NoCall
      /\ n \in DOMAIN stack /\ DOMAIN stack = 1 .. n /\ n \in Nat \ {0}
      /\ Binding \in FrameType /\ Binding = stack[n] /\ Binding.next <= Len(Items)
  BY InnermostFacts DEF ScopesInvariant, Binding, InBody
<1>2. /\ new.query = Binding.query /\ new.chain = Binding.chain
      /\ new.scope = Binding.scope /\ new.for = Binding.for
      /\ new.next = Binding.next + 1 /\ new \in FrameType
  <2> DEFINE next == Binding.next + 1
  <2>1. next \in Nat \ {0}
    BY <1>1 DEF FrameType
  <2>2. new = [Binding EXCEPT !.next = next]
    OBVIOUS
  <2> HIDE DEF next, new
  <2>3. /\ new.query = Binding.query /\ new.chain = Binding.chain
        /\ new.scope = Binding.scope /\ new.for = Binding.for
        /\ new.next = next /\ new \in FrameType
    BY <1>1, <2>1, <2>2 DEF FrameType
  <2> QED
    BY <2>3 DEF next
<1>3. stack' = [stack EXCEPT ![n] = new]
  BY DEF Proceed
<1> HIDE DEF new
<1>4. /\ stack' \in Seq(FrameType) /\ Len(stack') = n
      /\ \A i \in DOMAIN stack : stack'[i] = IF i = n THEN new ELSE stack[i]
  BY <1>1, <1>2, <1>3, ExceptSeq
<1>5. DOMAIN stack' = DOMAIN stack
  BY <1>1, <1>4, LenProperties
<1>6. /\ Binding.query \in QueryId /\ Binding.next \in Nat \ {0}
      /\ FrameProgress(program, scopes, Complete, Binding, NoChild)
      /\ \A k \in DOMAIN Items : k < Binding.next =>
           /\ Items[k].name # None => Settled(program, Complete, Binding.query, Items[k].name)
           /\ Items[k].name = None => Finished(program, Complete, Items[k].query)
  BY <1>1, InnermostProgress
<1>7. Items = program.queries[new.query].items
  BY <1>2 DEF Items
<1>8. ItemsAreDone(program, Complete, new, child)
  <2> SUFFICES ASSUME NEW k \in DOMAIN Items, k < new.next
               PROVE  /\ Items[k].name # None =>
                           Settled(program, Complete, new.query, Items[k].name)
                      /\ Items[k].name = None =>
                           \/ Finished(program, Complete, Items[k].query)
                           \/ child = Child(Items[k].query, NoReference)
    BY <1>7 DEF ItemsAreDone
  <2>1. k < Binding.next \/ k = Binding.next
    <3>1. DOMAIN Items = 1 .. Len(Items) /\ Len(Items) \in Nat
      BY <1>6, SyntaxFacts DEF Items, ScopesInvariant
    <3> QED
      BY <1>2, <1>6, <3>1
  <2>2. CASE k < Binding.next
    BY <1>2, <1>6, <2>2
  <2>3. CASE k = Binding.next
    BY <1>2, <2>3 DEF ThisName
  <2> QED
    BY <2>1, <2>2, <2>3
<1>9. FrameProgress(program, scopes, Complete, new, child)
  BY <1>2, <1>6, <1>8 DEF FrameProgress, HasOwnScope, WaitsFor
<1> QED
  BY <1>1, <1>2, <1>4, <1>5, <1>9

(* A name that is used is settled.                                         *)
LEMMA UseProgress ==
  ASSUME BinderInvariant, Progress, UseRelation \/ UseDeclaration
  PROVE  Progress'
<1> DEFINE n == Len(stack)
<1>1. /\ ScopesInvariant /\ InBody /\ stack # <<>> /\ Proceed
      /\ verdict = Pending /\ call = NoCall /\ ThisName # None
      /\ UNCHANGED <<program, verdict, call, scopes, bindings>>
  <2>1. ASSUME InBody, DemandsCte PROVE ThisName # None
    BY <2>1, InnermostFacts DEF BinderInvariant, DemandsCte, AtEnd, InBody, FrameType
  <2> QED
    BY <2>1 DEF BinderInvariant, UseRelation, UseDeclaration, InBody
<1>2. Complete' = Complete
  BY <1>1 DEF Complete, StateOf, Declaration
<1>3. Settled(program, Complete, Binding.query, ThisName)
  <2>1. CASE UseRelation
    BY <1>1, <2>1, DemandFacts DEF UseRelation, Settled
  <2>2. CASE UseDeclaration
    <3>1. Demanded \in References(scopes) /\ StateOf(Demanded) = "Bound" /\ Demanded # NoReference
      BY <1>1, <2>2, DemandFacts DEF UseDeclaration, DemandsCte
    <3>2. Meaning(program, Binding.query, ThisName) = Declaration(Demanded)
      BY <1>1, <3>1, DemandFacts
    <3>3. Declaration(Demanded) \in Complete /\ Declaration(Demanded) # NoCte
      BY <1>1, <3>1, DeclarationFacts DEF Complete
    <3> QED
      BY <3>2, <3>3 DEF Settled
  <2> QED
    BY <2>1, <2>2
<1>4. WaitsFor(program, scopes, Binding, NoChild)
  BY DEF WaitsFor
<1>5. /\ FrameProgress(program, scopes, Complete, stack'[n], NoChild)
      /\ Len(stack') = n /\ DOMAIN stack' = DOMAIN stack
      /\ \A i \in DOMAIN stack : i # n => stack'[i] = stack[i]
      /\ \A i \in DOMAIN stack : /\ stack'[i].query = stack[i].query
                                 /\ stack'[i].for = stack[i].for
                                 /\ stack'[i].scope = stack[i].scope
  BY <1>1, <1>3, <1>4, ProceedProgress
<1>6. DOMAIN stack = 1 .. n /\ n \in Nat \ {0} /\ n \in DOMAIN stack
  BY <1>1, InnermostFacts
<1>7. \A i \in DOMAIN stack \cup {0} : Below(i)' = Below(i)
  <2> SUFFICES ASSUME NEW i \in DOMAIN stack \cup {0} PROVE Below(i)' = Below(i)
    OBVIOUS
  <2>1. CASE i < n
    <3>1. i + 1 \in DOMAIN stack
      BY <1>6, <2>1
    <3> QED
      BY <1>5, <2>1, <3>1 DEF Below
  <2>2. CASE ~ (i < n)
    BY <1>1, <1>5, <2>2 DEF Below
  <2> QED
    BY <2>1, <2>2
<1>8. Below(n) = NoChild
  BY <1>1, BelowFacts
<1>9. ASSUME NEW i \in DOMAIN stack
      PROVE  FrameProgress(program, scopes, Complete, stack'[i], Below(i))
  <2>1. CASE i = n
    BY <1>5, <1>8, <2>1
  <2>2. CASE i # n
    BY <1>1, <1>5, <2>2 DEF Progress
  <2> QED
    BY <2>1, <2>2
<1>10. \A i \in DOMAIN stack' :
         FrameProgress(program', scopes', Complete', stack'[i], Below(i)')
  BY <1>1, <1>2, <1>5, <1>7, <1>9
<1> QED
  BY <1>1, <1>2, <1>5, <1>7, <1>10 DEF Progress

(* The query that is entered next is the one waited for.                   *)
LEMMA BindNestedProgress ==
  ASSUME BinderInvariant, Progress, BindNested
  PROVE  Progress'
<1> DEFINE n == Len(stack)
           child == Child(Items[Binding.next].query, NoReference)
<1>1. /\ ScopesInvariant /\ program \in Programs /\ InBody /\ ThisName = None
      /\ stack # <<>> /\ Proceed /\ call = NoCall /\ verdict = Pending
      /\ call' = Call(Items[Binding.next].query, Binding.chain, NoReference)
      /\ UNCHANGED <<program, verdict, scopes, meanings, bindings>>
  BY DEF BinderInvariant, ScopesInvariant, BindNested, InBody
<1>2. Complete' = Complete
  BY <1>1 DEF Complete, StateOf, Declaration
<1>3. DOMAIN stack = 1 .. n /\ n \in Nat \ {0} /\ n \in DOMAIN stack
  BY <1>1, InnermostFacts
<1>4. /\ Binding.query \in QueryId /\ Binding.next \in Nat \ {0}
      /\ Encloses(program, program.root, Binding.query)
  BY <1>1, InnermostProgress DEF FrameProgress
<1>5. Items[Binding.next].query \in Parts(program, Binding.query)
  <2>1. Binding.next \in DOMAIN Items
    <3>1. DOMAIN Items = 1 .. Len(Items) /\ Len(Items) \in Nat
      BY <1>1, <1>4, SyntaxFacts, Zenon DEF Items
    <3> QED
      BY <1>1, <1>4, <3>1 DEF InBody
  <2> QED
    BY <1>1, <1>4, <2>1, PartsFacts, Zenon DEF Items, ThisName
<1>6. /\ call'.query = Items[Binding.next].query /\ call'.for = NoReference
      /\ Encloses(program, program.root, call'.query)
  BY <1>1, <1>4, <1>5, SyntaxFacts, EnclosesDown DEF Call
<1>7. WaitsFor(program, scopes, Binding, child)
  BY <1>5 DEF WaitsFor, Child
<1>8. /\ FrameProgress(program, scopes, Complete, stack'[n], child)
      /\ Len(stack') = n /\ DOMAIN stack' = DOMAIN stack
      /\ \A i \in DOMAIN stack : i # n => stack'[i] = stack[i]
      /\ \A i \in DOMAIN stack : /\ stack'[i].query = stack[i].query
                                 /\ stack'[i].for = stack[i].for
                                 /\ stack'[i].scope = stack[i].scope
  BY <1>1, <1>7, ProceedProgress
<1>9. Below(n)' = child
  BY <1>6, <1>8 DEF Below
<1>10. ASSUME NEW i \in DOMAIN stack \cup {0}, i # n PROVE Below(i)' = Below(i)
  <2>1. i < n /\ i + 1 \in DOMAIN stack
    BY <1>3, <1>10
  <2> QED
    BY <1>8, <2>1 DEF Below
<1>11. Below(0)' = Below(0)
  BY <1>3, <1>10
<1>12. ASSUME NEW i \in DOMAIN stack
       PROVE  FrameProgress(program, scopes, Complete, stack'[i], Below(i)')
  <2>1. CASE i = n
    BY <1>8, <1>9, <2>1
  <2>2. CASE i # n
    <3>1. FrameProgress(program, scopes, Complete, stack[i], Below(i))
      BY <1>1 DEF Progress
    <3> QED
      BY <1>8, <1>10, <2>2, <3>1
  <2> QED
    BY <2>1, <2>2
<1> QED
  BY <1>1, <1>2, <1>6, <1>8, <1>11, <1>12 DEF Progress

(* The innermost call waits for the declaration that it names or carries.  *)
LEMMA BindDeclarationProgress ==
  ASSUME BinderInvariant, Progress, BindDeclaration
  PROVE  Progress'
<1> DEFINE n == Len(stack)
           q == Binding.query
           child == Child(Body(Demanded), Demanded)
<1>1. /\ ScopesInvariant /\ program \in Programs /\ verdict = Pending /\ call = NoCall
      /\ stack # <<>>
      /\ (InBody /\ ThisName # None) \/ AtEnd
      /\ Demanded # NoReference /\ StateOf(Demanded) = "Unvisited"
      /\ SetState(Demanded, "Binding")
      /\ call' = Call(Body(Demanded), scopes[Demanded.scope].chain, Demanded)
      /\ UNCHANGED <<program, verdict, stack, meanings, bindings>>
  BY DEF BinderInvariant, ScopesInvariant, BindDeclaration, DemandsCte, InBody, AtEnd
<1>2. Demanded \in References(scopes)
  BY <1>1, DemandFacts
<1>3. /\ Complete' = Complete
      /\ References(scopes') = References(scopes)
      /\ DOMAIN scopes' = DOMAIN scopes
      /\ \A s \in DOMAIN scopes : scopes'[s].query = scopes[s].query
  <2>1. scopes \in Seq(ScopeType) /\ scopes' \in Seq(ScopeType) /\ Len(scopes') = Len(scopes)
    BY <1>1, <1>2, StateFacts DEF ScopesInvariant
  <2> QED
    BY <1>1, <1>2, <2>1, StateFacts, CompleteChanges, LenProperties
<1>4. /\ n \in DOMAIN stack /\ DOMAIN stack = 1 .. n /\ n \in Nat \ {0}
      /\ Binding = stack[n] /\ Binding \in FrameType
  BY <1>1, InnermostFacts DEF Binding
<1>5. /\ q \in QueryId /\ Binding.next \in Nat \ {0}
      /\ FrameProgress(program, scopes, Complete, Binding, NoChild)
      /\ \A k \in DOMAIN Items : k < Binding.next =>
           /\ Items[k].name # None => Settled(program, Complete, q, Items[k].name)
           /\ Items[k].name = None => Finished(program, Complete, Items[k].query)
  BY <1>1, InnermostProgress
<1>6. \/ \E name \in Names(program, q) : Meaning(program, q, name) = Declaration(Demanded)
      \/ scopes[Demanded.scope].query = q
  <2>1. CASE InBody
    <3>1. Binding.next \in DOMAIN Items
      <4>1. DOMAIN Items = 1 .. Len(Items) /\ Len(Items) \in Nat
        BY <1>1, <1>5, SyntaxFacts DEF Items
      <4> QED
        BY <1>5, <2>1, <4>1 DEF InBody
    <3>2. ThisName # None
      BY <1>1, <1>5, <2>1, <3>1 DEF AtEnd, InBody
    <3>3. ThisName \in Names(program, q)
      BY <3>1, <3>2, Zenon DEF Names, Elements, ThisName, Items
    <3> QED
      BY <1>1, <2>1, <3>2, <3>3, DemandFacts
  <2>2. CASE ~ InBody
    <3>1. Demanded = Unfinished
      BY <2>2 DEF Demanded
    <3>2. Demanded.scope = Binding.scope /\ Binding.scope # 0
      BY <1>1, <3>1, Zenon DEF Unfinished, Reference
    <3> QED
      BY <1>5, <3>2 DEF FrameProgress, HasOwnScope
  <2> QED
    BY <2>1, <2>2
<1>7. WaitsFor(program, scopes, Binding, child)
  BY <1>1, <1>2, <1>6, DeclarationFacts DEF WaitsFor, Child
<1>8. FrameProgress(program, scopes, Complete, Binding, child)
  BY <1>5, <1>7, Zenon DEF FrameProgress, ItemsAreDone, Items
<1>9. call'.query = Body(Demanded) /\ call'.for = Demanded
  BY <1>1 DEF Call
<1>10. Encloses(program, program.root, call'.query)
  <2>1. Encloses(program, program.root, scopes[Demanded.scope].query)
    BY <1>1, <1>2, DeclarationFacts DEF Progress
  <2> QED
    BY <1>1, <1>2, <1>9, <2>1, DeclarationFacts, SyntaxFacts, EnclosesDown
<1>11. Below(n)' = child
  BY <1>1, <1>9 DEF Below
<1>12. ASSUME NEW i \in DOMAIN stack \cup {0}, i # n PROVE Below(i)' = Below(i)
  <2>1. i < n
    BY <1>4, <1>12
  <2> QED
    BY <1>1, <2>1 DEF Below
<1>13. Below(0)' = Below(0)
  BY <1>4, <1>12
<1>14. ASSUME NEW i \in DOMAIN stack
       PROVE  FrameProgress(program, scopes', Complete', stack[i], Below(i)')
  <2>1. FrameProgress(program, scopes, Complete, stack[i], Below(i)')
    <3>1. CASE i = n
      <4>1. Below(i)' = child
        BY <1>1, <1>9, <3>1 DEF Below
      <4> QED
        BY <1>4, <1>8, <3>1, <4>1
    <3>2. CASE i # n
      BY <1>1, <1>12, <3>2 DEF Progress
    <3> QED
      BY <3>1, <3>2
  <2> QED
    BY <1>3, <2>1, ProgressGrows
<1> QED
  BY <1>1, <1>3, <1>10, <1>13, <1>14 DEF Progress

(* A query expression that is entered has nothing done yet.                *)
LEMMA EstablishScopeProgress ==
  ASSUME BinderInvariant, Progress, EstablishScope
  PROVE  Progress'
<1> DEFINE n == Len(stack)
           q == call.query
<1>1. /\ ScopesInvariant /\ program \in Programs /\ verdict = Pending /\ verdict' = verdict
      /\ call # NoCall /\ call' = NoCall /\ program' = program
      /\ \A name \in Name : ~ Repeated(program, q, name)
      /\ CallIsLexical(program, scopes, call)
      /\ scopes \in Seq(ScopeType)
  BY DEF BinderInvariant, ScopesInvariant, EstablishScope
<1>2. /\ scopes' \in Seq(ScopeType)
      /\ Len(scopes) \in Nat /\ DOMAIN scopes = 1 .. Len(scopes)
      /\ \A s \in DOMAIN scopes : s \in DOMAIN scopes' /\ scopes'[s] = scopes[s]
      /\ \A s \in DOMAIN scopes' \ DOMAIN scopes : scopes'[s].query = q
      /\ References(scopes) \subseteq References(scopes')
      /\ \A r \in References(scopes) : StateOf(r)' = StateOf(r)
      /\ \A r \in References(scopes') \ References(scopes) : StateOf(r)' = "Unvisited"
      /\ n \in Nat /\ DOMAIN stack = 1 .. n /\ DOMAIN stack' = 1 .. n + 1
      /\ Len(stack') = n + 1
      /\ \A i \in DOMAIN stack : stack'[i] = stack[i]
      /\ stack'[n + 1].query = q /\ stack'[n + 1].for = call.for /\ stack'[n + 1].next = 1
      /\ IF program.queries[q].ctes = <<>> THEN stack'[n + 1].scope = 0
         ELSE /\ stack'[n + 1].scope = Len(scopes) + 1
              /\ Len(scopes) + 1 \in DOMAIN scopes'
              /\ scopes'[Len(scopes) + 1].query = q
  BY <1>1, EstablishFacts
<1>3. Complete' = Complete
  <2>1. \A r \in References(scopes) : Declaration(r)' = Declaration(r)
    <3>1. \A r \in References(scopes) : r.scope \in DOMAIN scopes
      BY <1>1, DeclarationFacts
    <3> QED
      BY <1>2, <3>1 DEF Declaration
  <2>2. {x \in References(scopes') : StateOf(x)' = "Bound"}
          = {x \in References(scopes) : StateOf(x) = "Bound"}
    BY <1>2
  <2> QED
    BY <2>1, <2>2 DEF Complete
<1>4. q \in QueryId /\ Encloses(program, program.root, q)
  BY <1>1 DEF CallIsLexical, Progress
<1>5. HasOwnScope(program, scopes', stack'[n + 1])
  BY <1>2 DEF HasOwnScope
<1>6. ItemsAreDone(program, Complete, stack'[n + 1], NoChild)
  <2>1. \A k \in DOMAIN program.queries[q].items : ~ (k < 1)
    BY <1>1, <1>4, SyntaxFacts
  <2> QED
    BY <1>2, <2>1 DEF ItemsAreDone
<1>7. FrameProgress(program, scopes', Complete, stack'[n + 1], NoChild)
  BY <1>1, <1>2, <1>4, <1>5, <1>6 DEF FrameProgress, WaitsFor
<1>8. ASSUME NEW i \in DOMAIN stack \cup {0} PROVE Below(i)' = Below(i)
  <2>1. i < Len(stack') /\ (i < n \/ i = n)
    BY <1>2
  <2>2. CASE i < n
    <3>1. i + 1 \in DOMAIN stack
      BY <1>2, <2>2
    <3> QED
      BY <1>2, <2>1, <2>2, <3>1 DEF Below
  <2>3. CASE i = n
    <3>1. Below(i)' = Child(call.query, call.for)
      BY <1>2, <2>1, <2>3 DEF Below
    <3>2. Below(i) = Child(call.query, call.for)
      BY <1>2, <2>3 DEF Below
    <3> QED
      BY <3>1, <3>2
  <2> QED
    BY <2>1, <2>2, <2>3
<1>9. Below(0)' = Below(0)
  BY <1>8
<1>10. ASSUME NEW i \in DOMAIN stack'
       PROVE  FrameProgress(program, scopes', Complete, stack'[i], Below(i)')
  <2>1. CASE i = n + 1
    <3>1. Below(i)' = NoChild
      BY <1>1, <1>2, <2>1 DEF Below, NoChild, NoCall, Call
    <3> QED
      BY <1>7, <2>1, <3>1
  <2>2. CASE i # n + 1
    <3>1. i \in DOMAIN stack
      BY <1>2, <2>2
    <3>2. FrameProgress(program, scopes, Complete, stack[i], Below(i))
      BY <1>1, <3>1 DEF Progress
    <3>3. FrameProgress(program, scopes', Complete, stack[i], Below(i))
      BY <1>2, <3>2, ProgressGrows
    <3> QED
      BY <1>2, <1>8, <3>1, <3>3
  <2> QED
    BY <2>1, <2>2
<1>11. \A s \in DOMAIN scopes' : Encloses(program, program.root, scopes'[s].query)
  BY <1>1, <1>2, <1>4 DEF Progress
<1>12. ASSUME NEW i \in DOMAIN stack', NEW k \in DOMAIN stack', i <= k, stack'[k].scope # 0
       PROVE  stack'[i].for.scope < stack'[k].scope
  <2>1. CASE k = n + 1
    <3>1. stack'[k].scope = Len(scopes) + 1
      BY <1>2, <1>12, <2>1
    <3>2. stack'[i].for \in References(scopes) \cup {NoReference}
      <4>1. i \in DOMAIN stack \/ i = n + 1
        BY <1>2
      <4> QED
        BY <1>1, <1>2, <4>1 DEF ScopesInvariant, FrameIsLexical, CallIsLexical
    <3>3. stack'[i].for.scope \in 0 .. Len(scopes)
      BY <1>1, <1>2, <3>2, ReferenceFacts DEF NoReference, Reference
    <3> QED
      BY <1>2, <3>1, <3>3
  <2>2. CASE k # n + 1
    <3>1. i \in DOMAIN stack /\ k \in DOMAIN stack
      BY <1>2, <1>12, <2>2
    <3> QED
      BY <1>1, <1>2, <1>12, <3>1 DEF Progress
  <2> QED
    BY <2>1, <2>2
<1> QED
  BY <1>1, <1>3, <1>9, <1>10, <1>11, <1>12 DEF Progress

(* When a query expression returns, it and all within it are done with.    *)
LEMMA ReturnedIsFinished ==
  ASSUME ScopesInvariant, Progress, AtEnd, Unfinished = NoReference
  PROVE  /\ Finished(program, Complete, Binding.query)
         /\ Binding.query \in QueryId
<1> DEFINE q == Binding.query
           ctes == program.queries[q].ctes
<1>1. /\ verdict = Pending /\ call = NoCall /\ stack # <<>> /\ Binding.next > Len(Items)
      /\ program \in Programs
  BY DEF AtEnd, ScopesInvariant
<1>2. /\ q \in QueryId /\ Binding.next \in Nat \ {0}
      /\ FrameProgress(program, scopes, Complete, Binding, NoChild)
      /\ \A k \in DOMAIN Items : k < Binding.next =>
           /\ Items[k].name # None => Settled(program, Complete, q, Items[k].name)
           /\ Items[k].name = None => Finished(program, Complete, Items[k].query)
  BY <1>1, InnermostProgress
<1>3. /\ DOMAIN Items = 1 .. Len(Items) /\ Len(Items) \in Nat
      /\ DOMAIN ctes = 1 .. Len(ctes) /\ Len(ctes) \in Nat
      /\ \A k \in DOMAIN Items : Items[k] \in Item
  BY <1>1, <1>2, SyntaxFacts, Zenon DEF Items
<1>4. \A k \in DOMAIN Items : k < Binding.next
  BY <1>1, <1>2, <1>3
<1>5. \A name \in Names(program, q) : Settled(program, Complete, q, name)
  BY <1>2, <1>4 DEF Names, Elements, Items
<1>6. ASSUME NEW i \in DOMAIN ctes PROVE Cte(q, i) \in Complete
  <2> DEFINE s == Binding.scope
             r == Reference(s, i)
             states == scopes[s].states
             open == {k \in DOMAIN states : states[k] # "Bound"}
  <2>1. ctes # <<>>
    BY <1>6
  <2>2. s \in DOMAIN scopes /\ scopes[s].query = q
    BY <1>2, <2>1 DEF FrameProgress, HasOwnScope
  <2>3. DOMAIN states = DOMAIN ctes /\ r \in References(scopes)
    BY <1>6, <2>2, ScopeFacts
  <2>4. s # 0
    BY <2>2, LenProperties DEF ScopesInvariant
  <2>5. open = {}
    BY <2>4 DEF Unfinished, NoReference, Reference
  <2>6. r.scope = s /\ r.declaration = i
    BY DEF Reference
  <2>7. StateOf(r) = "Bound"
    BY <1>6, <2>3, <2>5, <2>6 DEF StateOf
  <2>8. Declaration(r) = Cte(q, i)
    BY <2>2, <2>6 DEF Declaration
  <2> QED
    BY <2>3, <2>7, <2>8 DEF Complete
<1>7. Clean(program, Complete, q)
  BY <1>2, <1>5, <1>6 DEF FrameProgress, Clean
<1>8. ASSUME NEW c \in Parts(program, q) PROVE Finished(program, Complete, c)
  <2>1. CASE \E i \in DOMAIN ctes : c = ctes[i].query
    <3>1. PICK i \in DOMAIN ctes : c = ctes[i].query
      BY <2>1
    <3>2. Finished(program, Complete, CteQuery(program, Cte(q, i)))
      BY <1>1, <1>6 DEF Progress
    <3> QED
      BY <3>1, <3>2 DEF CteQuery, Cte
  <2>2. CASE \E k \in DOMAIN Items : c = Items[k].query /\ c # None
    <3>1. PICK k \in DOMAIN Items : c = Items[k].query /\ c # None
      BY <2>2
    <3>2. Items[k].name = None
      BY <1>3, <3>1 DEF Item
    <3> QED
      BY <1>2, <1>4, <3>1, <3>2
  <2> QED
    BY <2>1, <2>2, Zenon DEF Parts, Elements, Items
<1>9. ASSUME NEW r \in QueryId, Encloses(program, q, r) PROVE Clean(program, Complete, r)
  <2>1. CASE r = q
    BY <1>7, <2>1
  <2>2. CASE r # q
    <3>1. PICK c \in Parts(program, q) : Encloses(program, c, r)
      BY <1>1, <1>2, <1>9, <2>2, EnclosesByPart
    <3> QED
      BY <1>8, <3>1 DEF Finished
  <2> QED
    BY <2>1, <2>2
<1> QED
  BY <1>2, <1>9 DEF Finished

(* A program whose root is done with has nothing wrong.                    *)
LEMMA FinishedIsWellScoped ==
  ASSUME NEW p, NEW K, p.root \in QueryId, Finished(p, K, p.root),
         \A c \in K : ~ OnCycle(p, c)
  PROVE  WellScoped(p)
<1>1. \A q \in QueryId : Encloses(p, p.root, q) => Clean(p, K, q)
  BY DEF Finished
<1>2. ASSUME NEW q \in QueryId, Encloses(p, p.root, q), NEW name \in Name,
             FromCatalog(p, q, name)
      PROVE  p.relations[name] = 1
  BY <1>1, <1>2 DEF Clean, FromCatalog, Settled
<1>3. ASSUME NEW c \in Ctes(p), Encloses(p, p.root, c.query) PROVE ~ OnCycle(p, c)
  <2>1. PICK q \in QueryId : \E i \in DOMAIN p.queries[q].ctes : c = Cte(q, i)
    BY CteFacts
  <2>2. PICK i \in DOMAIN p.queries[q].ctes : c = Cte(q, i)
    BY <2>1
  <2>3. c.query = q
    BY <2>2 DEF Cte
  <2>4. c \in K
    BY <1>1, <1>3, <2>2, <2>3 DEF Clean
  <2> QED
    BY <2>4
<1> QED
  BY <1>1, <1>2, <1>3 DEF WellScoped, Clean

(* bind succeeds when the root returns, and has found all there is to find.*)
LEMMA ReturnIsCorrect ==
  ASSUME ScopesInvariant, Progress, Return, Len(stack) = 1
  PROVE  program' = program /\ verdict' # Pending /\ Correct(program, verdict')
<1>1. /\ AtEnd /\ Unfinished = NoReference /\ verdict = Pending /\ call = NoCall
      /\ stack # <<>> /\ program' = program /\ verdict' = Bound /\ program \in Programs
  BY DEF Return, AtEnd, ScopesInvariant
<1>2. verdict' # Pending
  BY <1>1 DEF Bound, Pending, Verdict
<1>3. Binding.query = program.root
  BY <1>1, BelowFacts DEF Progress, Binding, Child
<1>4. Finished(program, Complete, program.root) /\ program.root \in QueryId
  BY <1>1, <1>3, ReturnedIsFinished
<1>5. WellScoped(program)
  BY <1>1, <1>4, FinishedIsWellScoped DEF Progress
<1> QED
  BY <1>1, <1>2, <1>5 DEF Correct

(* The caller goes on with one query, or one declaration, done with.       *)
LEMMA ReturnProgress ==
  ASSUME ScopesInvariant, Progress, Return
  PROVE  Progress'
<1> DEFINE n == Len(stack)
           ref == Binding.for
           q == Binding.query
<1>1. /\ AtEnd /\ Unfinished = NoReference /\ verdict = Pending /\ call = NoCall
      /\ stack # <<>> /\ program \in Programs
      /\ stack' = SubSeq(stack, 1, n - 1)
      /\ IF ref = NoReference THEN UNCHANGED scopes ELSE SetState(ref, "Bound")
      /\ verdict' = IF n = 1 THEN Bound ELSE Pending
      /\ UNCHANGED <<program, call, meanings, bindings>>
  BY DEF Return, AtEnd, ScopesInvariant
<1> SUFFICES ASSUME n # 1 PROVE Progress'
  BY <1>1 DEF Progress, Bound, Pending, Verdict
<1>2. /\ n \in Nat \ {0} /\ DOMAIN stack = 1 .. n /\ n \in DOMAIN stack
      /\ Binding = stack[n]
  BY <1>1, InnermostFacts DEF Binding
<1>3. /\ DOMAIN stack' = 1 .. n - 1 /\ Len(stack') = n - 1
      /\ \A i \in DOMAIN stack' : i \in DOMAIN stack /\ stack'[i] = stack[i]
  <2>1. /\ stack' \in Seq(FrameType) /\ DOMAIN stack' = DOMAIN stack \ {n}
        /\ \A i \in DOMAIN stack' : stack'[i] = stack[i]
    BY <1>1, PoppedFacts
  <2>2. DOMAIN stack' = 1 .. n - 1
    BY <1>2, <2>1
  <2>3. Len(stack') \in Nat /\ DOMAIN stack' = 1 .. Len(stack')
    BY <2>1, LenProperties
  <2>4. n - 1 \in Nat /\ n - 1 # 0
    BY <1>2
  <2>5. Len(stack') = n - 1
    BY <2>2, <2>3, <2>4
  <2> QED
    BY <2>1, <2>2, <2>5
<1>4. Finished(program, Complete, q) /\ q \in QueryId
  BY <1>1, ReturnedIsFinished
<1>5. /\ References(scopes') = References(scopes)
      /\ \A s \in DOMAIN scopes : s \in DOMAIN scopes' /\ scopes'[s].query = scopes[s].query
      /\ DOMAIN scopes' = DOMAIN scopes
      /\ Complete' = Complete \/ \E c \in Ctes(program) :
           Complete' = Complete \cup {c} /\ CteQuery(program, c) = q
  <2>1. CASE ref = NoReference
    <3>1. scopes' = scopes
      BY <1>1, <2>1
    <3> QED
      BY <1>1, <3>1 DEF Complete, StateOf, Declaration
  <2>2. CASE ref # NoReference
    <3>1. SetState(ref, "Bound")
      BY <1>1, <2>2
    <3>2. ref \in References(scopes) /\ q = Body(ref)
      BY <1>1, <1>2, <2>2, ActiveIsForBody
    <3>3. /\ Declaration(ref) \in Ctes(program)
          /\ CteQuery(program, Declaration(ref)) = q
      BY <3>2, DeclarationFacts
    <3>4. Complete' = Complete \cup {Declaration(ref)}
      BY <3>1, <3>2, CompleteChanges
    <3>5. /\ scopes \in Seq(ScopeType) /\ scopes' \in Seq(ScopeType)
          /\ Len(scopes') = Len(scopes)
          /\ References(scopes') = References(scopes)
          /\ \A s \in DOMAIN scopes : scopes'[s].query = scopes[s].query
      BY <3>1, <3>2, StateFacts DEF ScopesInvariant
    <3>6. DOMAIN scopes' = DOMAIN scopes
      BY <3>5, LenProperties
    <3> QED
      BY <3>3, <3>4, <3>5, <3>6
  <2> QED
    BY <2>1, <2>2
<1>6. Complete \subseteq Complete'
  BY <1>5
<1>7. \A c \in Complete : Finished(program, Complete, CteQuery(program, c)) /\ ~ OnCycle(program, c)
  BY <1>1 DEF Progress
<1>8. ASSUME NEW c \in Complete'
      PROVE  Finished(program, Complete', CteQuery(program, c)) /\ ~ OnCycle(program, c)
  <2>1. CASE c \in Complete
    BY <1>6, <1>7, <2>1, DoneGrows
  <2>2. CASE c \notin Complete
    <3>1. c \in Ctes(program) /\ CteQuery(program, c) = q
      BY <1>5, <2>2
    <3>2. Finished(program, Complete, CteQuery(program, c))
      BY <1>4, <3>1
    <3>3. Complete \in SUBSET Ctes(program)
      BY CompleteFacts
    <3>4. ~ OnCycle(program, c)
      <4> DEFINE K == Complete
      <4>1. /\ K \in SUBSET Ctes(program) /\ c \notin K
            /\ \A d \in K \cup {c} : Finished(program, K, CteQuery(program, d))
        BY <1>7, <2>2, <3>2, <3>3
      <4> HIDE DEF K
      <4> QED
        BY <1>1, <3>1, <4>1, BoundIsAcyclic
    <3> QED
      BY <1>6, <3>2, <3>4, DoneGrows
  <2> QED
    BY <2>1, <2>2
<1>9. ASSUME NEW i \in DOMAIN stack' \cup {0}, i # n - 1
      PROVE  Below(i)' = Below(i)
  <2>1. i < n - 1 /\ i < n /\ i + 1 \in DOMAIN stack'
    BY <1>2, <1>3, <1>9
  <2> QED
    BY <1>3, <2>1 DEF Below
<1>10. Below(0)' = Below(0)
  BY <1>2, <1>9
<1>11. ASSUME NEW i \in DOMAIN stack'
       PROVE  FrameProgress(program, scopes', Complete', stack'[i], Below(i)')
  <2>1. i \in DOMAIN stack /\ stack'[i] = stack[i]
    BY <1>3
  <2>2. FrameProgress(program, scopes, Complete, stack[i], Below(i))
    BY <1>1, <2>1 DEF Progress
  <2>3. FrameProgress(program, scopes', Complete', stack[i], Below(i))
    BY <1>5, <1>6, <2>2, ProgressGrows
  <2>4. CASE i = n - 1
    <3>1. Below(i)' = NoChild
      BY <1>1, <1>3, <2>4 DEF Below, NoChild, NoCall, Call
    <3>2. Below(i) = Child(q, ref)
      <4>1. i < n /\ i + 1 = n
        BY <1>2, <2>4
      <4> QED
        BY <1>2, <4>1 DEF Below
    <3>3. Finished(program, Complete', q)
      BY <1>4, <1>6, DoneGrows
    <3>4. ItemsAreDone(program, Complete', stack[i], NoChild)
      <4>1. ItemsAreDone(program, Complete', stack[i], Child(q, ref))
        BY <2>3, <3>2 DEF FrameProgress
      <4>2. \A query : Child(q, ref) = Child(query, NoReference) => query = q
        BY DEF Child
      <4> QED
        BY <3>3, <4>1, <4>2, Zenon DEF ItemsAreDone
    <3> QED
      BY <2>1, <2>3, <3>1, <3>4 DEF FrameProgress, WaitsFor
  <2>5. CASE i # n - 1
    BY <1>9, <2>1, <2>3, <2>5
  <2> QED
    BY <2>4, <2>5
<1>12. \A s \in DOMAIN scopes' : Encloses(program, program.root, scopes'[s].query)
  BY <1>1, <1>5 DEF Progress
<1>13. \A i, k \in DOMAIN stack' :
         i <= k /\ stack'[k].scope # 0 => stack'[i].for.scope < stack'[k].scope
  BY <1>1, <1>3 DEF Progress
<1> QED
  BY <1>1, <1>8, <1>10, <1>11, <1>12, <1>13 DEF Progress

-----------------------------------------------------------------------------
(* The answer.                                                             *)

LEMMA VerdictBase ==
  ASSUME BinderInit
  PROVE  VerdictInvariant
<1>1. /\ program \in Programs /\ program.root \in QueryId
      /\ verdict = Pending /\ stack = <<>> /\ scopes = <<>>
      /\ call = Call(program.root, <<>>, NoReference)
  BY ProgramsAssumption DEF BinderInit, Init, Program
<1>2. DOMAIN scopes = {} /\ DOMAIN stack = {}
  BY <1>1
<1>3. Below(0) = Child(program.root, NoReference)
  BY <1>1 DEF Below, Call
<1>4. Encloses(program, program.root, call.query)
  BY <1>1, EnclosesDown DEF Call
<1>5. Complete = {}
  BY <1>2 DEF Complete, References
<1>6. Progress
  BY <1>2, <1>3, <1>4, <1>5 DEF Progress
<1> QED
  BY <1>1, <1>6, BinderBase DEF VerdictInvariant, VerdictIsCorrect

(* The promise is about the same program and verdict.                      *)
LEMMA PromiseIsTheVerdict ==
  /\ Promise!Pending = Pending
  /\ \A p, v : Promise!Correct(p, v) <=> Correct(p, v)
BY DEF Correct, Promise!Correct, WellScoped, Promise!WellScoped, Justified,
       Promise!Justified, Bound, Promise!Bound, Pending, Promise!Pending, Verdict,
       Promise!Verdict, Repeated, Promise!Repeated, FromCatalog, Promise!FromCatalog,
       OnCycle, Promise!OnCycle, DependsOn, Promise!DependsOn, Encloses,
       Promise!Encloses, Parts, Promise!Parts, Elements, Promise!Elements, Names,
       Promise!Names, DeclaredNames, Promise!DeclaredNames, Declarers,
       Promise!Declarers, Innermost, Promise!Innermost, Meaning, Promise!Meaning,
       IndexOf, Promise!IndexOf, Cte, Promise!Cte, NoCte, Promise!NoCte, Ctes,
       Promise!Ctes, CteName, Promise!CteName, CteQuery, Promise!CteQuery

(* Every step leads on, or to a right answer, which stays.                 *)
LEMMA VerdictStep ==
  ASSUME VerdictInvariant, [BinderNext]_binderVars
  PROVE  /\ VerdictInvariant'
         /\ [Promise!Decide]_<<program, verdict>>
<1>1. BinderInvariant /\ ScopesInvariant /\ Progress /\ VerdictIsCorrect /\ BinderInvariant'
  BY BinderStep DEF VerdictInvariant, BinderInvariant
<1>2. ASSUME verdict = Pending, program' = program, Correct(program, verdict'),
             verdict' # Pending
      PROVE  VerdictInvariant' /\ Promise!Decide
  <2>1. VerdictInvariant'
    BY <1>1, <1>2 DEF VerdictInvariant, Progress, VerdictIsCorrect
  <2>2. Promise!Decide
    BY <1>2, PromiseIsTheVerdict DEF Promise!Decide
  <2> QED
    BY <2>1, <2>2
<1>3. ASSUME verdict' = verdict, program' = program, Progress'
      PROVE  VerdictInvariant' /\ UNCHANGED <<program, verdict>>
  BY <1>1, <1>3 DEF VerdictInvariant, VerdictIsCorrect
<1>4. CASE RejectDuplicate \/ RejectUnknown \/ RejectAmbiguous \/ RejectCycle
  <2>1. verdict = Pending
    BY <1>4, Zenon DEF RejectDuplicate, RejectUnknown, RejectAmbiguous, RejectCycle, DemandsCte,
                InBody, AtEnd
  <2> QED
    BY <1>1, <1>2, <1>4, <2>1, RejectIsCorrect
<1>5. CASE UseRelation \/ UseDeclaration
  BY <1>1, <1>3, <1>5, UseProgress DEF UseRelation, UseDeclaration
<1>6. CASE EstablishScope
  BY <1>1, <1>3, <1>6, EstablishScopeProgress DEF EstablishScope
<1>7. CASE BindDeclaration
  BY <1>1, <1>3, <1>7, BindDeclarationProgress DEF BindDeclaration
<1>8. CASE BindNested
  BY <1>1, <1>3, <1>8, BindNestedProgress DEF BindNested
<1>9. CASE Return
  <2>1. verdict = Pending /\ program' = program
    BY <1>9 DEF Return, AtEnd
  <2>2. CASE Len(stack) = 1
    BY <1>1, <1>2, <1>9, <2>1, <2>2, ReturnIsCorrect
  <2>3. CASE Len(stack) # 1
    BY <1>1, <1>3, <1>9, <2>1, <2>3, ReturnProgress DEF Return
  <2> QED
    BY <2>2, <2>3
<1>10. CASE UNCHANGED binderVars
  <2>1. Progress'
    BY <1>1, <1>10, Zenon DEF binderVars, Progress, Below, Complete, StateOf, Declaration
  <2> QED
    BY <1>3, <1>10, <2>1 DEF binderVars
<1> QED
  BY <1>4, <1>5, <1>6, <1>7, <1>8, <1>9, <1>10 DEF BinderNext

(* Every state of every binding satisfies the strengthened invariant, and  *)
(* every step is one of the promise or none.                               *)
LEMMA VerdictInduction ==
  BinderSpec => []VerdictInvariant /\ [][Promise!Decide]_<<program, verdict>>
<1>1. BinderInit => VerdictInvariant
  BY VerdictBase
<1>2. VerdictInvariant /\ [BinderNext]_binderVars
        => VerdictInvariant' /\ [Promise!Decide]_<<program, verdict>>
  BY VerdictStep
<1> QED
  BY <1>1, <1>2, PTL DEF BinderSpec

(* The answer of bind is right whenever there is one: it accepts exactly   *)
(* the programs whose relation names are well scoped, unreferenced         *)
(* declarations included, and an error is true of the name it gives. That  *)
(* a declaration found in the state Binding is a cycle is part of it.      *)
THEOREM BinderVerdictCorrectness == BinderSpec => []VerdictIsCorrect
<1>1. VerdictInvariant => VerdictIsCorrect
  BY DEF VerdictInvariant
<1> QED
  BY <1>1, VerdictInduction, PTL

(* bind implements the safety part of its promise: it starts with a program*)
(* and no answer, answers at most once and rightly, never takes the answer *)
(* back, and keeps the program.                                            *)
THEOREM BindingImplementsVerdict ==
  BinderSpec => Promise!Init /\ [][Promise!Decide]_(Promise!verdictVars)
<1>1. BinderInit => Promise!Init
  BY PromiseIsTheVerdict DEF BinderInit, Init, Promise!Init
<1>2. [Promise!Decide]_<<program, verdict>> => [Promise!Decide]_(Promise!verdictVars)
  BY DEF Promise!verdictVars
<1> QED
  BY <1>1, <1>2, VerdictInduction, PTL DEF BinderSpec

-----------------------------------------------------------------------------
(* The inductive invariant.                                                *)

Entered == {q \in QueryId : bindings[q] > 0}

(* The query expressions that are entered, now as well.                    *)
Taken == Entered \cup {call.query}

(* The nested queries that a call has not come to yet.                     *)
Ahead(p, frame) ==
  {p.queries[frame.query].items[k].query :
     k \in {j \in DOMAIN p.queries[frame.query].items :
              /\ frame.next <= j
              /\ p.queries[frame.query].items[j].name = None}}

(* A query is entered after the one it is a part of; those that are still  *)
(* to be entered, by a call or for a declaration, are not entered yet, and *)
(* each of them is waited for in one place.                                *)
EntryInvariant ==
  /\ \A q \in QueryId : bindings[q] <= 1
  /\ call.query \notin Entered
  /\ \A q, r \in QueryId : r \in Parts(program, q) /\ r \in Taken => q \in Entered
  /\ \A i \in DOMAIN stack : /\ stack[i].query \in Entered
                             /\ Ahead(program, stack[i]) \cap Taken = {}
  /\ \A i, j \in DOMAIN stack : stack[i].query = stack[j].query => i = j
  /\ \A s \in DOMAIN scopes : scopes[s].query \in Entered
  /\ \A s, t \in DOMAIN scopes : scopes[s].query = scopes[t].query => s = t
  /\ \A r \in References(scopes) : StateOf(r) = "Unvisited" => Body(r) \notin Taken

-----------------------------------------------------------------------------
(* Facts about places.                                                     *)

(* The body of a declaration is where the clause of its scope says.        *)
LEMMA BodyPlace ==
  ASSUME ScopesInvariant, NEW r \in References(scopes)
  PROVE  /\ r.scope \in DOMAIN scopes
         /\ scopes[r.scope].query \in QueryId
         /\ r.declaration \in DOMAIN program.queries[scopes[r.scope].query].ctes
         /\ Body(r) = program.queries[scopes[r.scope].query].ctes[r.declaration].query
         /\ Body(r) \in QueryId
         /\ r = Reference(r.scope, r.declaration)
<1>1. /\ r.scope \in DOMAIN scopes
      /\ scopes[r.scope].query \in QueryId
      /\ r.declaration \in DOMAIN program.queries[scopes[r.scope].query].ctes
      /\ Declaration(r) = DeclarationIn(scopes, r)
      /\ Body(r) = CteQuery(program, Declaration(r))
      /\ Body(r) \in QueryId
  BY DeclarationFacts
<1>2. r = Reference(r.scope, r.declaration)
  BY ReferenceFacts DEF ScopesInvariant
<1> QED
  BY <1>1, <1>2 DEF DeclarationIn, CteQuery, Cte

(* It is no nested query, and it is the body of no other declaration.      *)
LEMMA BodyIsApart ==
  ASSUME ScopesInvariant, NEW r \in References(scopes)
  PROVE  /\ \A q \in QueryId : \A k \in DOMAIN program.queries[q].items :
              program.queries[q].items[k].name = None =>
                program.queries[q].items[k].query # Body(r)
         /\ \A x \in References(scopes) : Body(x) = Body(r) =>
              /\ scopes[x.scope].query = scopes[r.scope].query
              /\ x.declaration = r.declaration
<1> DEFINE ctes(q) == program.queries[q].ctes
           items(q) == program.queries[q].items
<1>1. /\ \A q, o \in QueryId : \A i \in DOMAIN ctes(q), j \in DOMAIN ctes(o) :
           ctes(q)[i].query = ctes(o)[j].query => q = o /\ i = j
      /\ \A q, o \in QueryId : \A i \in DOMAIN ctes(q), j \in DOMAIN items(o) :
           items(o)[j].name = None => ctes(q)[i].query # items(o)[j].query
  <2>1. program \in Programs
    BY DEF ScopesInvariant
  <2> QED
    BY <2>1, PlaceFacts
<1>2. \A x \in References(scopes) :
        /\ scopes[x.scope].query \in QueryId
        /\ x.declaration \in DOMAIN ctes(scopes[x.scope].query)
        /\ Body(x) = ctes(scopes[x.scope].query)[x.declaration].query
  BY BodyPlace, Zenon
<1> HIDE DEF ctes, items
<1>3. \A q \in QueryId : \A k \in DOMAIN items(q) :
        items(q)[k].name = None => items(q)[k].query # Body(r)
  BY <1>1, <1>2
<1>4. \A x \in References(scopes) : Body(x) = Body(r) =>
        /\ scopes[x.scope].query = scopes[r.scope].query
        /\ x.declaration = r.declaration
  BY <1>1, <1>2
<1> QED
  BY <1>3, <1>4 DEF items

(* What a call has not come to are parts of its query.                     *)
LEMMA AheadFacts ==
  ASSUME NEW p \in Programs, NEW f, f.query \in QueryId
  PROVE  Ahead(p, f) \subseteq Parts(p, f.query)
BY PartsFacts DEF Ahead

(* The calls when the innermost one goes on.                               *)
LEMMA ProceedEntry ==
  ASSUME ScopesInvariant, stack # <<>>, Proceed
  PROVE  /\ DOMAIN stack' = DOMAIN stack
         /\ \A i \in DOMAIN stack : stack'[i].query = stack[i].query
         /\ \A i \in DOMAIN stack : i # Len(stack) => stack'[i] = stack[i]
         /\ stack'[Len(stack)].next = Binding.next + 1
<1> DEFINE n == Len(stack)
           new == [Binding EXCEPT !.next = @ + 1]
<1>1. n \in DOMAIN stack /\ Binding \in FrameType /\ Binding = stack[n]
  BY InnermostFacts DEF Binding
<1>2. new.query = Binding.query /\ new.next = Binding.next + 1
  BY <1>1 DEF FrameType
<1>3. stack' = [stack EXCEPT ![n] = new]
  BY DEF Proceed
<1> HIDE DEF new
<1> QED
  BY <1>1, <1>2, <1>3

-----------------------------------------------------------------------------
(* Each step keeps the entries.                                            *)

(* A step that enters and calls nothing.                                   *)
LEMMA NothingEntered ==
  ASSUME ScopesInvariant, EntryInvariant,
         UNCHANGED <<program, call, bindings>>,
         DOMAIN scopes' = DOMAIN scopes, References(scopes') = References(scopes),
         \A s \in DOMAIN scopes : scopes'[s].query = scopes[s].query,
         \A r \in References(scopes) :
           StateOf(r)' = "Unvisited" => StateOf(r) = "Unvisited",
         \A i \in DOMAIN stack' :
           /\ i \in DOMAIN stack /\ stack'[i].query = stack[i].query
           /\ Ahead(program, stack'[i]) \subseteq Ahead(program, stack[i])
  PROVE  EntryInvariant'
<1>1. Entered' = Entered /\ Taken' = Taken
  BY DEF Entered, Taken
<1>2. \A r \in References(scopes) : Body(r)' = Body(r)
  BY BodyPlace DEF Body, Declaration
<1>3. \A i \in DOMAIN stack' : /\ stack'[i].query \in Entered'
                               /\ Ahead(program', stack'[i]) \cap Taken' = {}
  BY <1>1 DEF EntryInvariant
<1>4. \A r \in References(scopes') : StateOf(r)' = "Unvisited" => Body(r)' \notin Taken'
  BY <1>1, <1>2 DEF EntryInvariant
<1>5. \A i, j \in DOMAIN stack' : stack'[i].query = stack'[j].query => i = j
  BY DEF EntryInvariant
<1>6. /\ \A s \in DOMAIN scopes' : scopes'[s].query \in Entered'
      /\ \A s, t \in DOMAIN scopes' : scopes'[s].query = scopes'[t].query => s = t
  BY <1>1 DEF EntryInvariant
<1> QED
  BY <1>1, <1>3, <1>4, <1>5, <1>6 DEF EntryInvariant

(* The steps that enter nothing.                                           *)
LEMMA QuietEntry ==
  ASSUME ScopesInvariant, EntryInvariant,
         \/ RejectDuplicate \/ RejectUnknown \/ RejectAmbiguous \/ RejectCycle
         \/ UseRelation \/ UseDeclaration \/ UNCHANGED binderVars
  PROVE  EntryInvariant'
<1>1. /\ UNCHANGED <<program, call, scopes, bindings>>
      /\ stack' = stack \/ (stack # <<>> /\ Proceed)
  BY Zenon DEF RejectDuplicate, RejectUnknown, RejectAmbiguous, RejectCycle, Fail, UseRelation,
         UseDeclaration, InBody, binderVars
<1>2. ASSUME NEW i \in DOMAIN stack'
      PROVE  /\ i \in DOMAIN stack /\ stack'[i].query = stack[i].query
             /\ Ahead(program, stack'[i]) \subseteq Ahead(program, stack[i])
  <2>1. CASE stack' = stack
    BY <2>1
  <2>2. CASE stack # <<>> /\ Proceed
    <3>1. /\ i \in DOMAIN stack /\ stack'[i].query = stack[i].query
          /\ i # Len(stack) => stack'[i] = stack[i]
          /\ stack'[Len(stack)].next = Binding.next + 1
      BY <2>2, ProceedEntry
    <3>2. CASE i # Len(stack)
      BY <3>1, <3>2
    <3>3. CASE i = Len(stack)
      <4>1. Binding = stack[i] /\ Binding.next \in Nat /\ Binding.query \in QueryId
        BY <2>2, <3>3, InnermostFacts DEF Binding, FrameType
      <4>2. \A j \in DOMAIN program.queries[Binding.query].items :
              Binding.next + 1 <= j => Binding.next <= j
        <5> DEFINE items == program.queries[Binding.query].items
        <5>1. program \in Programs
          BY DEF ScopesInvariant
        <5>2. DOMAIN items = 1 .. Len(items) /\ Len(items) \in Nat
          BY <4>1, <5>1, SyntaxFacts
        <5> HIDE DEF items
        <5>3. \A j \in DOMAIN items : Binding.next + 1 <= j => Binding.next <= j
          BY <4>1, <5>2
        <5> QED
          BY <5>3 DEF items
      <4> QED
        BY <3>1, <3>3, <4>1, <4>2 DEF Ahead
    <3> QED
      BY <3>2, <3>3
  <2> QED
    BY <1>1, <2>1, <2>2
<1> QED
  BY <1>1, <1>2, NothingEntered DEF StateOf

(* A query that returns is not entered again.                              *)
LEMMA ReturnEntry ==
  ASSUME ScopesInvariant, EntryInvariant, Return
  PROVE  EntryInvariant'
<1>1. /\ stack # <<>> /\ stack' = SubSeq(stack, 1, Len(stack) - 1)
      /\ IF Binding.for = NoReference THEN UNCHANGED scopes ELSE SetState(Binding.for, "Bound")
      /\ UNCHANGED <<program, call, bindings>>
  BY DEF Return, AtEnd
<1>2. \A i \in DOMAIN stack' : i \in DOMAIN stack /\ stack'[i] = stack[i]
  BY <1>1, PoppedFacts
<1>3. /\ DOMAIN scopes' = DOMAIN scopes /\ References(scopes') = References(scopes)
      /\ \A s \in DOMAIN scopes : scopes'[s].query = scopes[s].query
      /\ \A r \in References(scopes) : StateOf(r)' = "Unvisited" => StateOf(r) = "Unvisited"
  <2>1. CASE Binding.for = NoReference
    BY <1>1, <2>1 DEF StateOf
  <2>2. CASE Binding.for # NoReference
    <3>1. Binding.for \in References(scopes) /\ SetState(Binding.for, "Bound")
      BY <1>1, <2>2, InnermostFacts DEF FrameIsLexical
    <3>2. /\ scopes \in Seq(ScopeType) /\ scopes' \in Seq(ScopeType)
          /\ Len(scopes') = Len(scopes)
      BY <3>1, StateFacts DEF ScopesInvariant
    <3>3. DOMAIN scopes' = DOMAIN scopes
      BY <3>2, LenProperties
    <3> QED
      BY <3>1, <3>3, StateFacts
  <2> QED
    BY <2>1, <2>2
<1> QED
  BY <1>1, <1>2, <1>3, NothingEntered

(* The query that a call comes to is entered for the first time.           *)
LEMMA BindNestedEntry ==
  ASSUME ScopesInvariant, EntryInvariant, BindNested
  PROVE  EntryInvariant'
<1> DEFINE n == Len(stack)
           k == Binding.next
           x == Items[Binding.next].query
<1>1. /\ program \in Programs /\ InBody /\ ThisName = None /\ call = NoCall
      /\ stack # <<>> /\ Proceed
      /\ call' = Call(Items[Binding.next].query, Binding.chain, NoReference)
      /\ UNCHANGED <<program, verdict, scopes, meanings, bindings>>
  BY DEF ScopesInvariant, BindNested, InBody
<1>2. /\ n \in DOMAIN stack /\ Binding = stack[n] /\ Binding.query \in QueryId
      /\ k \in Nat \ {0}
      /\ \A i \in DOMAIN stack : stack[i].query \in QueryId
  <2>1. n \in DOMAIN stack /\ Binding \in FrameType
    BY <1>1, InnermostFacts
  <2>2. \A i \in DOMAIN stack : stack[i].query \in QueryId
    BY DEF EntryInvariant, Entered
  <2> QED
    BY <2>1, <2>2 DEF Binding, FrameType
<1>3. k \in DOMAIN Items
  <2>1. DOMAIN Items = 1 .. Len(Items) /\ Len(Items) \in Nat
    BY <1>1, <1>2, SyntaxFacts, Zenon DEF Items
  <2> QED
    BY <1>1, <1>2, <2>1 DEF InBody
<1>4. Items[k].name = None
  BY <1>1 DEF ThisName
<1>5. x \in Parts(program, Binding.query) /\ x \in QueryId
  BY <1>1, <1>2, <1>3, <1>4, PartsFacts, SyntaxFacts, Zenon DEF Items
<1>6. x \in Ahead(program, Binding)
  <2>1. k <= k
    BY <1>2
  <2> QED
    BY <1>3, <1>4, <2>1, Zenon DEF Ahead, Items
<1>7. x \notin Entered
  BY <1>2, <1>6 DEF EntryInvariant, Taken
<1>8. Entered' = Entered /\ Taken' = Entered \cup {x} /\ call'.query = x
  BY <1>1 DEF Entered, Taken, Call
<1>9. /\ DOMAIN stack' = DOMAIN stack
      /\ \A i \in DOMAIN stack : stack'[i].query = stack[i].query
      /\ \A i \in DOMAIN stack : i # n => stack'[i] = stack[i]
      /\ stack'[n].next = k + 1
  BY <1>1, ProceedEntry
<1>10. ASSUME NEW q \in QueryId, NEW r \in QueryId, r \in Parts(program, q), r \in Taken'
       PROVE  q \in Entered
  <2>1. CASE r \in Entered
    BY <1>10, <2>1 DEF EntryInvariant, Taken
  <2>2. CASE r = x
    <3>1. q = Binding.query
      BY <1>1, <1>2, <1>5, <1>10, <2>2, PartsFacts
    <3> QED
      BY <1>2, <3>1 DEF EntryInvariant
  <2> QED
    BY <1>8, <1>10, <2>1, <2>2
<1>11. ASSUME NEW i \in DOMAIN stack
       PROVE  Ahead(program, stack'[i]) \cap Taken' = {}
  <2>1. CASE i # n
    <3>1. stack'[i] = stack[i] /\ Ahead(program, stack[i]) \cap Entered = {}
      BY <1>9, <2>1 DEF EntryInvariant, Taken
    <3>2. x \notin Ahead(program, stack[i])
      <4>1. stack[i].query # Binding.query
        BY <1>2, <2>1 DEF EntryInvariant
      <4>2. x \notin Parts(program, stack[i].query)
        BY <1>1, <1>2, <1>5, <4>1, PartsFacts
      <4> QED
        BY <1>1, <1>2, <4>2, AheadFacts
    <3> QED
      BY <1>8, <3>1, <3>2
  <2>2. CASE i = n
    <3> SUFFICES ASSUME NEW j \in DOMAIN Items, k + 1 <= j, Items[j].name = None
                 PROVE  Items[j].query \notin Taken'
      BY <1>2, <1>9, <2>2 DEF Ahead, Items
    <3>1. k <= j /\ j # k
      <4>1. j \in Nat
        <5>1. DOMAIN Items = 1 .. Len(Items) /\ Len(Items) \in Nat
          BY <1>1, <1>2, SyntaxFacts, Zenon DEF Items
        <5> QED
          BY <5>1
      <4> QED
        BY <1>2, <4>1
    <3>2. Items[j].query \in Ahead(program, Binding)
      BY <3>1 DEF Ahead, Items
    <3>3. Items[j].query \notin Entered
      BY <1>2, <3>2 DEF EntryInvariant, Taken
    <3>4. Items[j].query # x
      <4>1. program \in Programs /\ Binding.query \in QueryId
        BY <1>1, <1>2
      <4>2. \A a \in DOMAIN Items : \A b \in DOMAIN Items :
              Items[a].name = None /\ Items[b].name = None /\ Items[a].query = Items[b].query
                => a = b
        BY <4>1, PlaceFacts DEF Items
      <4>3. k \in DOMAIN Items /\ Items[k].name = None /\ x = Items[k].query
        BY <1>3, <1>4
      <4> HIDE DEF k, x, Items
      <4> QED
        BY <3>1, <4>2, <4>3
    <3> QED
      BY <1>8, <3>3, <3>4
  <2> QED
    BY <2>1, <2>2
<1>12. ASSUME NEW r \in References(scopes'), StateOf(r)' = "Unvisited"
       PROVE  Body(r)' \notin Taken'
  <2>1. r \in References(scopes) /\ StateOf(r) = "Unvisited" /\ Body(r)' = Body(r)
    BY <1>1, <1>12 DEF StateOf, Body, Declaration
  <2>2. Body(r) \notin Entered
    BY <2>1 DEF EntryInvariant, Taken
  <2>3. Body(r) # x
    BY <1>2, <1>3, <1>4, <2>1, BodyIsApart DEF Items
  <2> QED
    BY <1>8, <2>1, <2>2, <2>3
<1>13. /\ \A i \in DOMAIN stack' : stack'[i].query \in Entered
       /\ \A i, j \in DOMAIN stack' : stack'[i].query = stack'[j].query => i = j
  BY <1>9 DEF EntryInvariant
<1>14. /\ \A q \in QueryId : bindings'[q] <= 1
       /\ \A s \in DOMAIN scopes' : scopes'[s].query \in Entered
       /\ \A s, t \in DOMAIN scopes' : scopes'[s].query = scopes'[t].query => s = t
  BY <1>1 DEF EntryInvariant
<1> QED
  BY <1>1, <1>7, <1>8, <1>9, <1>10, <1>11, <1>12, <1>13, <1>14 DEF EntryInvariant

(* The query of a declaration is entered for the first time.               *)
LEMMA BindDeclarationEntry ==
  ASSUME ScopesInvariant, EntryInvariant, BindDeclaration
  PROVE  EntryInvariant'
<1> DEFINE x == Body(Demanded)
<1>1. /\ program \in Programs /\ call = NoCall
      /\ (InBody /\ ThisName # None) \/ AtEnd
      /\ Demanded # NoReference /\ StateOf(Demanded) = "Unvisited"
      /\ SetState(Demanded, "Binding")
      /\ call' = Call(Body(Demanded), scopes[Demanded.scope].chain, Demanded)
      /\ UNCHANGED <<program, stack, bindings>>
  BY DEF ScopesInvariant, BindDeclaration, DemandsCte, InBody, AtEnd
<1>2. Demanded \in References(scopes)
  BY <1>1, DemandFacts
<1>3. /\ Demanded.scope \in DOMAIN scopes
      /\ scopes[Demanded.scope].query \in QueryId
      /\ Demanded.declaration \in DOMAIN program.queries[scopes[Demanded.scope].query].ctes
      /\ x = program.queries[scopes[Demanded.scope].query].ctes[Demanded.declaration].query
      /\ x \in QueryId
      /\ Demanded = Reference(Demanded.scope, Demanded.declaration)
      /\ x \in Parts(program, scopes[Demanded.scope].query)
  <2>1. /\ Demanded.scope \in DOMAIN scopes
        /\ scopes[Demanded.scope].query \in QueryId
        /\ Demanded.declaration \in DOMAIN program.queries[scopes[Demanded.scope].query].ctes
        /\ x = program.queries[scopes[Demanded.scope].query].ctes[Demanded.declaration].query
        /\ x \in QueryId
        /\ Demanded = Reference(Demanded.scope, Demanded.declaration)
    BY <1>1, <1>2, BodyPlace, Zenon
  <2>2. x \in Parts(program, scopes[Demanded.scope].query)
    <3> HIDE DEF x
    <3> QED
      BY <1>1, <2>1, PartsFacts, Zenon
  <2> QED
    BY <2>1, <2>2, Zenon
<1>4. x \notin Entered
  BY <1>1, <1>2 DEF EntryInvariant, Taken
<1>5. Entered' = Entered /\ Taken' = Entered \cup {x} /\ call'.query = x
  BY <1>1 DEF Entered, Taken, Call
<1>6. /\ DOMAIN scopes' = DOMAIN scopes /\ References(scopes') = References(scopes)
      /\ \A s \in DOMAIN scopes : scopes'[s].query = scopes[s].query
      /\ \A r \in References(scopes) :
           StateOf(r)' = IF r = Demanded THEN "Binding" ELSE StateOf(r)
  <2>1. /\ scopes \in Seq(ScopeType) /\ scopes' \in Seq(ScopeType)
        /\ Len(scopes') = Len(scopes)
    BY <1>1, <1>2, StateFacts DEF ScopesInvariant
  <2>2. DOMAIN scopes' = DOMAIN scopes
    BY <2>1, LenProperties
  <2> QED
    BY <1>1, <1>2, <2>2, StateFacts
<1>7. ASSUME NEW q \in QueryId, NEW r \in QueryId, r \in Parts(program, q), r \in Taken'
      PROVE  q \in Entered
  <2>1. CASE r \in Entered
    BY <1>7, <2>1 DEF EntryInvariant, Taken
  <2>2. CASE r = x
    <3>1. q = scopes[Demanded.scope].query
      BY <1>1, <1>3, <1>7, <2>2, PartsFacts, Zenon
    <3> QED
      BY <1>3, <3>1, Zenon DEF EntryInvariant
  <2> QED
    BY <1>5, <1>7, <2>1, <2>2
<1>8. ASSUME NEW i \in DOMAIN stack
      PROVE  Ahead(program, stack[i]) \cap Taken' = {}
  <2>1. stack[i].query \in QueryId /\ Ahead(program, stack[i]) \cap Entered = {}
    BY DEF EntryInvariant, Entered, Taken
  <2>2. x \notin Ahead(program, stack[i])
    BY <1>2, <2>1, BodyIsApart DEF Ahead
  <2> QED
    BY <1>5, <2>1, <2>2
<1>9. ASSUME NEW r \in References(scopes), StateOf(r)' = "Unvisited"
      PROVE  Body(r)' \notin Taken'
  <2>1. r # Demanded /\ StateOf(r) = "Unvisited"
    BY <1>6, <1>9
  <2>2. Body(r) \notin Entered
    BY <2>1 DEF EntryInvariant, Taken
  <2>3. /\ r.scope \in DOMAIN scopes
        /\ scopes[r.scope].query \in QueryId
        /\ r.declaration \in DOMAIN program.queries[scopes[r.scope].query].ctes
        /\ Body(r) = program.queries[scopes[r.scope].query].ctes[r.declaration].query
        /\ r = Reference(r.scope, r.declaration)
    BY BodyPlace, Zenon
  <2>4. Body(r)' = Body(r)
    BY <1>1, <1>6, <2>3, Zenon DEF Body, Declaration
  <2>5. ASSUME Body(r) = x PROVE FALSE
    <3>1. /\ scopes[r.scope].query = scopes[Demanded.scope].query
          /\ r.declaration = Demanded.declaration
      BY <1>2, <2>5, BodyIsApart
    <3>2. r.scope = Demanded.scope
      BY <1>3, <2>3, <3>1, Zenon DEF EntryInvariant
    <3> QED
      BY <1>3, <2>1, <2>3, <3>1, <3>2, Zenon
  <2> QED
    BY <1>5, <2>2, <2>4, <2>5
<1>10. /\ \A i \in DOMAIN stack' : stack'[i].query \in Entered
       /\ \A i, j \in DOMAIN stack' : stack'[i].query = stack'[j].query => i = j
       /\ \A q \in QueryId : bindings'[q] <= 1
       /\ \A s \in DOMAIN scopes' : scopes'[s].query \in Entered
       /\ \A s, t \in DOMAIN scopes' : scopes'[s].query = scopes'[t].query => s = t
  BY <1>1, <1>6 DEF EntryInvariant
<1> QED
  BY <1>1, <1>4, <1>5, <1>6, <1>7, <1>8, <1>9, <1>10 DEF EntryInvariant

(* A query is entered before all that is within it.                        *)
LEMMA EstablishScopeEntry ==
  ASSUME ScopesInvariant, EntryInvariant, EstablishScope
  PROVE  EntryInvariant'
<1> DEFINE n == Len(stack)
           q == call.query
<1>1. /\ program \in Programs /\ call # NoCall /\ call' = NoCall /\ program' = program
      /\ CallIsLexical(program, scopes, call)
      /\ bindings' = [bindings EXCEPT ![q] = @ + 1]
      /\ bindings \in [QueryId -> Nat]
      /\ scopes \in Seq(ScopeType)
  BY DEF ScopesInvariant, EstablishScope
<1>2. q \in QueryId /\ q \notin Entered /\ bindings[q] = 0
  BY <1>1 DEF CallIsLexical, EntryInvariant, Entered
<1>3. /\ Entered' = Entered \cup {q}
      /\ \A r \in QueryId : bindings'[r] <= 1
      /\ call'.query = None
      /\ Taken' = Taken \cup {None} /\ Taken = Entered \cup {q}
  <2>1. \A r \in QueryId : bindings'[r] = IF r = q THEN 1 ELSE bindings[r]
    BY <1>1, <1>2
  <2>2. Entered' = Entered \cup {q}
    BY <1>2, <2>1 DEF Entered
  <2>3. call'.query = None
    BY <1>1 DEF NoCall, Call
  <2>4. \A r \in QueryId : bindings'[r] <= 1
    BY <2>1 DEF EntryInvariant
  <2> QED
    BY <2>2, <2>3, <2>4 DEF Taken
<1>4. /\ DOMAIN scopes = 1 .. Len(scopes) /\ Len(scopes) \in Nat
      /\ \A s \in DOMAIN scopes : s \in DOMAIN scopes' /\ scopes'[s] = scopes[s]
      /\ \A s \in DOMAIN scopes' \ DOMAIN scopes :
           s = Len(scopes) + 1 /\ scopes'[s].query = q
      /\ scopes' \in Seq(ScopeType)
      /\ References(scopes) \subseteq References(scopes')
      /\ \A r \in References(scopes) : StateOf(r)' = StateOf(r)
      /\ \A r \in References(scopes') \ References(scopes) : r.scope \notin DOMAIN scopes
      /\ n \in Nat /\ DOMAIN stack = 1 .. n /\ DOMAIN stack' = 1 .. n + 1
      /\ \A i \in DOMAIN stack : stack'[i] = stack[i]
      /\ stack'[n + 1].query = q /\ stack'[n + 1].next = 1
  BY <1>1, EstablishFacts
<1>5. \A c \in Parts(program, q) : c \in QueryId /\ c \notin Taken'
  <2>1. ASSUME NEW c \in Parts(program, q) PROVE c \in QueryId /\ c \notin Taken'
    <3>1. c \in QueryId
      BY <1>1, <1>2, PartsFacts
    <3>2. c \notin Taken
      BY <1>2, <3>1 DEF EntryInvariant
    <3> QED
      BY <1>3, <3>1, <3>2, NoneAssumption
  <2> QED
    BY <2>1
<1>6. ASSUME NEW o \in QueryId, NEW r \in QueryId, r \in Parts(program, o), r \in Taken'
      PROVE  o \in Entered'
  <2>1. r \in Taken
    BY <1>3, <1>6, NoneAssumption
  <2> QED
    BY <1>3, <1>6, <2>1 DEF EntryInvariant
<1>7. ASSUME NEW i \in DOMAIN stack'
      PROVE  /\ stack'[i].query \in Entered'
             /\ Ahead(program, stack'[i]) \cap Taken' = {}
  <2>1. CASE i \in DOMAIN stack
    <3>1. /\ stack'[i] = stack[i] /\ stack[i].query \in Entered
          /\ Ahead(program, stack[i]) \cap Taken = {}
      BY <1>4, <2>1 DEF EntryInvariant
    <3>2. Ahead(program, stack[i]) \subseteq QueryId
      BY <1>1, <3>1, AheadFacts, PartsFacts DEF Entered
    <3> QED
      BY <1>3, <3>1, <3>2, NoneAssumption
  <2>2. CASE i \notin DOMAIN stack
    <3>1. stack'[i].query = q
      BY <1>4, <2>2
    <3>2. Ahead(program, stack'[i]) \subseteq Parts(program, q)
      BY <1>1, <1>2, <3>1, AheadFacts
    <3> QED
      BY <1>3, <1>5, <3>1, <3>2
  <2> QED
    BY <2>1, <2>2
<1>8. ASSUME NEW i \in DOMAIN stack', NEW j \in DOMAIN stack',
             stack'[i].query = stack'[j].query
      PROVE  i = j
  <2>1. \A k \in DOMAIN stack : stack'[k].query \in Entered
    BY <1>4 DEF EntryInvariant
  <2>2. \A k \in DOMAIN stack' : k \notin DOMAIN stack => k = n + 1 /\ stack'[k].query = q
    BY <1>4
  <2>3. CASE i \in DOMAIN stack /\ j \in DOMAIN stack
    BY <1>4, <1>8, <2>3 DEF EntryInvariant
  <2>4. CASE i \notin DOMAIN stack \/ j \notin DOMAIN stack
    BY <1>2, <1>8, <2>1, <2>2, <2>4
  <2> QED
    BY <2>3, <2>4
<1>9. \A s \in DOMAIN scopes' : scopes'[s].query \in Entered'
  BY <1>3, <1>4 DEF EntryInvariant
<1>10. ASSUME NEW s \in DOMAIN scopes', NEW t \in DOMAIN scopes',
              scopes'[s].query = scopes'[t].query
       PROVE  s = t
  <2>1. \A k \in DOMAIN scopes : scopes'[k].query \in Entered
    BY <1>4 DEF EntryInvariant
  <2>2. CASE s \in DOMAIN scopes /\ t \in DOMAIN scopes
    BY <1>4, <1>10, <2>2 DEF EntryInvariant
  <2>3. CASE s \notin DOMAIN scopes \/ t \notin DOMAIN scopes
    BY <1>2, <1>4, <1>10, <2>1, <2>3
  <2> QED
    BY <2>2, <2>3
<1>11. ASSUME NEW r \in References(scopes'), StateOf(r)' = "Unvisited"
       PROVE  Body(r)' \notin Taken'
  <2>1. CASE r \in References(scopes)
    <3>1. r.scope \in DOMAIN scopes /\ Body(r) \in QueryId
      BY <2>1, BodyPlace
    <3>2. Body(r)' = Body(r)
      BY <1>1, <1>4, <3>1 DEF Body, Declaration
    <3>3. Body(r) \notin Taken
      BY <1>4, <1>11, <2>1 DEF EntryInvariant
    <3> QED
      BY <1>3, <3>1, <3>2, <3>3, NoneAssumption
  <2>2. CASE r \notin References(scopes)
    <3>1. r.scope \in DOMAIN scopes' /\ r.declaration \in DOMAIN scopes'[r.scope].states
      BY <1>4, ReferenceFacts, LenProperties
    <3>2. scopes'[r.scope].query = q
      BY <1>4, <2>2, <3>1
    <3>3. ScopeIsLexical(program, scopes', scopes'[r.scope])
      BY <1>1, <3>1, EstablishFacts
    <3>4. r.declaration \in DOMAIN program.queries[q].ctes
      BY <3>1, <3>2, <3>3 DEF ScopeIsLexical
    <3>5. Body(r)' = program.queries[q].ctes[r.declaration].query
      BY <1>1, <3>2 DEF Body, Declaration, CteQuery, Cte
    <3>6. Body(r)' \in Parts(program, q)
      BY <1>1, <1>2, <3>4, <3>5, PartsFacts
    <3> QED
      BY <1>5, <3>6
  <2> QED
    BY <2>1, <2>2
<1>12. call'.query \notin Entered'
  BY <1>3, NoneAssumption DEF Entered
<1> QED
  BY <1>1, <1>3, <1>6, <1>7, <1>8, <1>9, <1>10, <1>11, <1>12 DEF EntryInvariant

-----------------------------------------------------------------------------
(* No query expression is bound twice.                                     *)

LEMMA EntryBase ==
  ASSUME BinderInit
  PROVE  EntryInvariant
<1>1. /\ program \in Programs /\ call.query = program.root
      /\ DOMAIN stack = {} /\ DOMAIN scopes = {}
      /\ \A q \in QueryId : bindings[q] = 0
  BY DEF BinderInit, Init, Call
<1>2. Entered = {} /\ Taken = {program.root}
  BY <1>1 DEF Entered, Taken
<1>3. \A q \in QueryId : program.root \notin Parts(program, q)
  BY <1>1, PartsFacts
<1>4. References(scopes) = {}
  BY <1>1 DEF References
<1> QED
  BY <1>1, <1>2, <1>3, <1>4 DEF EntryInvariant

LEMMA EntryStep ==
  ASSUME BinderInvariant, EntryInvariant, [BinderNext]_binderVars
  PROVE  EntryInvariant'
<1>1. ScopesInvariant
  BY DEF BinderInvariant
<1> QED
  BY <1>1, QuietEntry, ReturnEntry, BindNestedEntry, BindDeclarationEntry,
     EstablishScopeEntry DEF BinderNext

(* No query expression is entered twice, whether its declaration is named  *)
(* from several places, from its own clause or never: bind_cte keeps what  *)
(* it bound, and no other call leads to the same place of the program.     *)
THEOREM NothingIsBoundTwice == BinderSpec => []BoundAtMostOnce
<1>1. BinderInit => EntryInvariant
  BY EntryBase
<1>2. BinderInvariant /\ EntryInvariant /\ [BinderNext]_binderVars => EntryInvariant'
  BY EntryStep
<1>3. EntryInvariant => BoundAtMostOnce
  BY DEF EntryInvariant, BoundAtMostOnce
<1> QED
  BY <1>1, <1>2, <1>3, BinderInduction, PTL DEF BinderSpec
=============================================================================
