------------------------------ MODULE CtePhases ------------------------------
(***************************************************************************)
(* What becomes of the declarations of a bound program: the type checker   *)
(* (src/typecheck.rs) types every one, memoized by CteId, some of them     *)
(* first while it looks for hints; the lowerer (src/lower.rs) lowers the   *)
(* ones that are used.  Neither checks what it relies on: that a           *)
(* declaration is registered before it is named, and that the binder has   *)
(* refused every cycle.  The binder is its promise here, BindingVerdict,   *)
(* and a name is what it means by the scopes.                              *)
(*                                                                         *)
(* Both phases are recursions over query expressions: a frame of the call  *)
(* stack holds what is left to do of one call.  What types are, and the    *)
(* nodes a query expression becomes, are left out.                         *)
(***************************************************************************)
EXTENDS BindingVerdict

VARIABLES
  phase,        \* "bind", "type", "lower", "lowered", or "type error"
  calls,        \* the active calls of the phase: [query, tasks, for]
  entries,      \* TypeChecker.ctes: declaration -> CteTypeState, or "absent"
  definitions,  \* Lowerer.cte_definitions
  lowered,      \* Lowerer.lowered_ctes
  typings,      \* history: how often each query expression was typed
  lowerings     \* history: how often each query expression was lowered

typingVars == <<entries, typings>>

loweringVars == <<definitions, lowered, lowerings>>

phasesVars == <<verdictVars, phase, calls, typingVars, loweringVars>>

-----------------------------------------------------------------------------
Places == {"table", "parentheses", "exists", "in"}

Task(do, query, cte) == [do |-> do, query |-> query, cte |-> cte]

UseCte(cte) == Task("cte", None, cte)

Nothing == Task("nothing", None, NoCte)

(* What an item asks for: a declaration, nothing more for a relation of    *)
(* the catalog, or what is done with a query expression in its place.      *)
ItemTask(q, item, do) ==
  IF item.name = None THEN Task(do[item.place], item.query, NoCte)
  ELSE IF Meaning(program, q, item.name) = NoCte THEN Nothing
  ELSE UseCte(Meaning(program, q, item.name))

Tasks(q, do) ==
  LET items == program.queries[q].items
  IN [i \in DOMAIN items |-> ItemTask(q, items[i], do)]

CteTasks(q) == [i \in DOMAIN program.queries[q].ctes |-> UseCte(Cte(q, i))]

(* body_hints: the sources of a body are typed to see what it could give;  *)
(* a query in parentheses is only asked for hints in its turn.             *)
HintTasks(q) ==
  Tasks(q, [place \in Places |-> CASE place = "table"       -> "type"
                                   [] place = "parentheses" -> "hint"
                                   [] OTHER                 -> "nothing"])

(* type_query_expression: the body, with hints first when it is a set      *)
(* operation, ORDER BY, then every declaration of its own clause.          *)
TypeTasks(q) ==
  (IF program.queries[q].setOperation THEN HintTasks(q) ELSE <<>>)
    \o Tasks(q, [place \in Places |-> IF place = "in" THEN "in" ELSE "type"])
    \o CteTasks(q)

(* Mutant: every declaration of the clause is lowered, used or not.        *)
LowerAllTasks(q) == Tasks(q, [place \in Places |-> "lower"]) \o CteTasks(q)

LowerTasks(q) == Tasks(q, [place \in Places |-> "lower"])

(* A call for a query expression, that of the declaration `for` or of none.*)
Frame(query, tasks, for) == [query |-> query, tasks |-> tasks, for |-> for]

OwnCtes(q) == {Cte(q, i) : i \in DOMAIN program.queries[q].ctes}

PhasesInit ==
  /\ Init
  /\ phase = "bind"
  /\ calls = <<>>
  /\ entries = [c \in Ctes(program) |-> "absent"]
  /\ definitions = {}
  /\ lowered = {}
  /\ typings = [q \in QueryId |-> 0]
  /\ lowerings = [q \in QueryId |-> 0]

Bind ==
  /\ Decide
  /\ UNCHANGED <<phase, calls, typingVars, loweringVars>>

-----------------------------------------------------------------------------
ThisCall == calls[Len(calls)]

ThisTask == ThisCall.tasks[1]

(* The next thing to do, of either phase.                                  *)
Does(p, do) == phase = p /\ calls # <<>> /\ ThisCall.tasks # <<>> /\ ThisTask.do = do

(* The innermost call has done everything.                                 *)
Done(p) == phase = p /\ calls # <<>> /\ ThisCall.tasks = <<>>

(* The calls when the task is taken up, which leaves `rest` of it.         *)
TakenUp(rest) == [calls EXCEPT ![Len(calls)].tasks = rest \o Tail(@)]

Popped == SubSeq(calls, 1, Len(calls) - 1)

(* Mutant: an entry that is there already is replaced.                     *)
RegisterAgain(q) ==
  [c \in DOMAIN entries |-> IF c \in OwnCtes(q) THEN "Unvisited" ELSE entries[c]]

(* register_ctes: or_insert_with leaves an entry alone that is there.      *)
Register(q) ==
  [c \in DOMAIN entries |->
     IF c \in OwnCtes(q) /\ entries[c] = "absent" THEN "Unvisited" ELSE entries[c]]

Counted(history, q) == [history EXCEPT ![q] = @ + 1]

(* There is nothing to do for the item, in either phase.                   *)
PassOver ==
  /\ Does("type", "nothing") \/ Does("lower", "nothing")
  /\ calls' = TakenUp(<<>>)
  /\ UNCHANGED <<verdictVars, phase, typingVars, loweringVars>>

-----------------------------------------------------------------------------
(* The type checker.                                                       *)

StartTyping ==
  /\ phase = "bind" /\ verdict = Bound
  /\ phase' = "type"
  /\ calls' = <<Frame(program.root, TypeTasks(program.root), NoCte)>>
  /\ entries' = Register(program.root)
  /\ typings' = Counted(typings, program.root)
  /\ UNCHANGED <<verdictVars, loweringVars>>

TypeQuery ==
  /\ Does("type", "type")
  /\ calls' = Append(TakenUp(<<>>), Frame(ThisTask.query, TypeTasks(ThisTask.query), NoCte))
  /\ entries' = Register(ThisTask.query)
  /\ typings' = Counted(typings, ThisTask.query)
  /\ UNCHANGED <<verdictVars, phase, loweringVars>>

(* Mutant: the declarations of the query are not registered.               *)
HintUnregistered ==
  /\ Does("type", "hint") \/ Does("type", "in")
  /\ calls' = Append(TakenUp(IF ThisTask.do = "hint" THEN <<>>
                             ELSE <<Task("type", ThisTask.query, NoCte)>>),
                     Frame(ThisTask.query, HintTasks(ThisTask.query), NoCte))
  /\ UNCHANGED <<verdictVars, phase, entries, typings, loweringVars>>

(* query_hints; the query of IN is typed with what they give.              *)
HintQuery ==
  /\ Does("type", "hint") \/ Does("type", "in")
  /\ calls' = Append(TakenUp(IF ThisTask.do = "hint" THEN <<>>
                             ELSE <<Task("type", ThisTask.query, NoCte)>>),
                     Frame(ThisTask.query, HintTasks(ThisTask.query), NoCte))
  /\ entries' = Register(ThisTask.query)
  /\ UNCHANGED <<verdictVars, phase, typings, loweringVars>>

(* type_cte of a declaration that is not typed yet.                        *)
TypeCte ==
  /\ Does("type", "cte")
  /\ entries[ThisTask.cte] = "Unvisited"
  /\ LET query == CteQuery(program, ThisTask.cte)
     IN /\ calls' = Append(TakenUp(<<>>), Frame(query, TypeTasks(query), ThisTask.cte))
        /\ entries' = [Register(query) EXCEPT ![ThisTask.cte] = "Typing"]
        /\ typings' = Counted(typings, query)
  /\ UNCHANGED <<verdictVars, phase, loweringVars>>

ReuseTyped ==
  /\ Does("type", "cte")
  /\ entries[ThisTask.cte] = "Typed"
  /\ calls' = TakenUp(<<>>)
  /\ UNCHANGED <<verdictVars, phase, typingVars, loweringVars>>

(* A call returns; the query of a declaration is kept.                     *)
ReturnTyped ==
  /\ Done("type")
  /\ calls' = Popped
  /\ entries' = IF ThisCall.for = NoCte THEN entries
                ELSE [entries EXCEPT ![ThisCall.for] = "Typed"]
  /\ UNCHANGED <<verdictVars, phase, typings, loweringVars>>

(* A type error of the program, wherever it stands: the phase ends.        *)
RejectTypes ==
  /\ phase = "type" /\ calls # <<>>
  /\ phase' = "type error"
  /\ UNCHANGED <<verdictVars, calls, typingVars, loweringVars>>

-----------------------------------------------------------------------------
(* The lowerer.                                                            *)

StartLowering ==
  /\ phase = "type" /\ calls = <<>>
  /\ phase' = "lower"
  /\ calls' = <<Frame(program.root, LowerTasks(program.root), NoCte)>>
  /\ definitions' = OwnCtes(program.root)
  /\ lowerings' = Counted(lowerings, program.root)
  /\ UNCHANGED <<verdictVars, typingVars, lowered>>

LowerQuery ==
  /\ Does("lower", "lower")
  /\ calls' = Append(TakenUp(<<>>), Frame(ThisTask.query, LowerTasks(ThisTask.query), NoCte))
  /\ definitions' = definitions \cup OwnCtes(ThisTask.query)
  /\ lowerings' = Counted(lowerings, ThisTask.query)
  /\ UNCHANGED <<verdictVars, phase, typingVars, lowered>>

LowerCte ==
  /\ Does("lower", "cte")
  /\ ThisTask.cte \notin lowered /\ ThisTask.cte \in definitions
  /\ LET query == CteQuery(program, ThisTask.cte)
     IN /\ calls' = Append(TakenUp(<<>>), Frame(query, LowerTasks(query), ThisTask.cte))
        /\ definitions' = definitions \cup OwnCtes(query)
        /\ lowerings' = Counted(lowerings, query)
  /\ UNCHANGED <<verdictVars, phase, typingVars, lowered>>

ReuseLowered ==
  /\ Does("lower", "cte")
  /\ ThisTask.cte \in lowered
  /\ calls' = TakenUp(<<>>)
  /\ UNCHANGED <<verdictVars, phase, typingVars, loweringVars>>

(* The plan of a declaration is kept; the last return ends the phase.      *)
ReturnLowered ==
  /\ Done("lower")
  /\ calls' = Popped
  /\ lowered' = lowered \cup ({ThisCall.for} \ {NoCte})
  /\ phase' = IF Len(calls) = 1 THEN "lowered" ELSE phase
  /\ UNCHANGED <<verdictVars, typingVars, definitions, lowerings>>

PhasesNext ==
  \/ Bind \/ PassOver
  \/ StartTyping \/ TypeQuery \/ HintQuery \/ TypeCte \/ ReuseTyped
  \/ ReturnTyped \/ RejectTypes
  \/ StartLowering \/ LowerQuery \/ LowerCte \/ ReuseLowered \/ ReturnLowered

(* compile is a sequential call: nothing but its own end stops it.         *)
PhasesSpec == PhasesInit /\ [][PhasesNext]_phasesVars /\ WF_phasesVars(PhasesNext)

-----------------------------------------------------------------------------
(* A declaration is registered before it is looked up, also when a query   *)
(* is visited for its hints before it is typed, and is not being typed:    *)
(* the `expect`s of type_cte and lower_cte never fail, and type_cte never  *)
(* meets the cycle that the binder was to refuse.                          *)
LookupsAreAnswered ==
  /\ Does("type", "cte") => entries[ThisTask.cte] \in {"Unvisited", "Typed"}
  /\ Does("lower", "cte") => ThisTask.cte \in lowered \cup definitions

(* A declaration is typed once, however often the query expression that    *)
(* declares or names it is typed again for hints; and nothing is lowered   *)
(* before everything is typed, what no name uses too.                      *)
DeclarationTypedOnce ==
  /\ \A c \in Ctes(program) : typings[CteQuery(program, c)] <= 1
  /\ phase \in {"lower", "lowered"} =>
       \A q \in QueryId : Encloses(program, program.root, q) =>
         typings[q] > 0 /\ \A c \in OwnCtes(q) : entries[c] = "Typed"

(* The query expressions evaluation needs: the root, what is nested in one *)
(* that is needed, and the declarations it names.                          *)
Needed(p) ==
  {q \in QueryId :
     \A S \in SUBSET QueryId :
       (/\ p.root \in S
        /\ \A r \in S : \A item \in Elements(p.queries[r].items) :
             /\ item.name = None => item.query \in S
             /\ item.name # None /\ Meaning(p, r, item.name) # NoCte
                  => CteQuery(p, Meaning(p, r, item.name)) \in S) => q \in S}

(* A query expression becomes nodes once if it is needed, else never: a    *)
(* declaration used twice is shared, one that is unused is not evaluated.  *)
LoweredWhenNeeded ==
  phase = "lowered" =>
    \A q \in QueryId : lowerings[q] = IF q \in Needed(program) THEN 1 ELSE 0
=============================================================================
