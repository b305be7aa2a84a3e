-------------------------- MODULE QueryCompilation --------------------------
(***************************************************************************)
(* A query expression on its way through `compile` (src/frontend.rs) and   *)
(* `evaluate`: bound, type checked, lowered to a graph that the validator  *)
(* must accept, and evaluated under the snapshot a host hands in.  The     *)
(* phases are SelectBinding, SelectTyping, SelectLowering and PlanGraphs;  *)
(* QueryService says what all of them together promise.                    *)
(***************************************************************************)
EXTENDS SelectLowering

CONSTANTS
  Programs,    \* the query expressions that are submitted
  Snapshots    \* what hosts supply: binding -> [descriptors, rows]

VARIABLES
  program,     \* the query expression, as the parser gives it
  phase,       \* what has been made of it
  artifact,    \* the HIR, the typed HIR or the graph
  reply        \* <<>>, or the snapshot, the failure and the rows

compilationVars == <<program, phase, artifact, reply>>

CompilationInit ==
  /\ program \in Programs
  /\ phase = "parsed"
  /\ artifact = program
  /\ reply = <<>>

(* One phase: its result is what the next one starts from.                 *)
Advance(from, to, result) ==
  /\ phase = from
  /\ phase' = to
  /\ artifact' = result
  /\ UNCHANGED <<program, reply>>

(* `bind` and `type_check`: an error ends the compilation.                 *)
BoundTo(hir) == Advance("parsed", IF WellBound(hir) THEN "bound" ELSE "rejected", hir)

BindProgram == BoundTo(BindQuery(artifact, <<>>))

AnnotatedTo(hir) == Advance("bound", IF WellTyped(hir) THEN "typed" ELSE "rejected", hir)

CheckProgram == AnnotatedTo(TypeQuery(artifact, <<>>))

(* `lower`: an `expect` on the way, or the assertion at its end, panics.   *)
LoweredTo(graph) ==
  Advance("typed", IF GraphPanics(graph) \/ ~ Validates(graph) THEN "panicked" ELSE "prepared", graph)

LowerProgram == LoweredTo(LowerQuery(artifact).graph)

Reply(snapshot, result) ==
  [snapshot |-> snapshot, failure |-> result.failure, rows |-> result.rows]

EvaluateGraph ==
  /\ phase = "prepared"
  /\ phase' = "answered"
  /\ \E snapshot \in Snapshots : reply' = <<Reply(snapshot, PlanResult(artifact, snapshot))>>
  /\ UNCHANGED <<program, artifact>>

CompilationNext == BindProgram \/ CheckProgram \/ LowerProgram \/ EvaluateGraph

(* A host that has called `compile` goes on to `evaluate`, and no call     *)
(* waits for anything: a phase with a successor is left.                   *)
Working == {"parsed", "bound", "typed", "prepared"}
Ended   == {"rejected", "panicked", "answered"}

Progress == phase \in Working /\ phase' \in Working \cup Ended

CompilationSpec ==
  CompilationInit /\ [][CompilationNext]_compilationVars /\ WF_phase(Progress)

-----------------------------------------------------------------------------
(* Whatever passes the type checker lowers to a graph the validator        *)
(* accepts: "Static source errors cannot reach this function" (lower.rs).  *)
(* Every rule of the validator on descriptors, fields, completeness of     *)
(* orders and placement of NULL follows from the rules of the type checker.*)
NothingPanics == phase # "panicked"

(* The rows that come back have the types the graph declares, so NULL only *)
(* in a nullable column, whatever a host has supplied; and no evaluation   *)
(* ends in a branch that the evaluator takes to be unreachable.            *)
AnswerFitsTypes ==
  phase = "answered" =>
    /\ reply[1].failure # Unreachable
    /\ \A row \in Range(reply[1].rows) : RowConforms(row, artifact.schema)

-----------------------------------------------------------------------------
(* The program without redundant parentheses around scalar expressions.    *)
(* They are not redundant around an ordinal, nor between a minus and the   *)
(* magnitude of the least integer.                                         *)
RECURSIVE Stripped(_)
Stripped(e) ==
  IF e.kind = "parenthesized" /\ ~ IsMinMagnitude(WithoutParentheses(e)) THEN Stripped(e.args[1])
  ELSE MapChildren(e, Stripped)

StrippedItem(item) ==
  [item EXCEPT !.expr = IF IsOrdinal(WithoutParentheses(@)) THEN @ ELSE Stripped(@)]

StrippedBlock(block) ==
  [block EXCEPT
     !.items   = [i \in DOMAIN @ |-> [@[i] EXCEPT !.expr = Stripped(@)]],
     !.where   = MapAll(@, Stripped),
     !.groupBy = MapAll(@, Stripped),
     !.having  = MapAll(@, Stripped)]

StrippedQuery(query) ==
  [query EXCEPT
     !.body = IF @.kind # "select" THEN @ ELSE [@ EXCEPT !.parts = <<StrippedBlock(@[1])>>],
     !.orderBy = [i \in DOMAIN @ |-> StrippedItem(@[i])]]

Analyzed(query) == TypeQuery(BindQuery(query, <<>>), <<>>)

Lowered(query) == LowerQuery(Analyzed(query)).graph

Passes(query) == WellBound(BindQuery(query, <<>>)) /\ WellTyped(Analyzed(query))

(* Redundant parentheses change nothing: not whether a grouped query is    *)
(* legal, not whether an order is complete enough for a row bound or for   *)
(* ROW_NUMBER, and not the answer.                                         *)
ParenthesesDoNotMatter ==
  LET stripped == StrippedQuery(program)
  IN stripped # program =>
       /\ phase \in {"rejected", "prepared"} => (Passes(stripped) <=> phase = "prepared")
       /\ phase = "answered" =>
            PlanResult(Lowered(stripped), reply[1].snapshot)
              = Result(reply[1].failure, reply[1].rows)

-----------------------------------------------------------------------------
PlanDescriptors(graph) == [i \in DOMAIN graph.schema |-> graph.schema[i].descriptor]

Commutative == {"union", "union all", "intersect", "intersect all"}

Swapped(query) ==
  [query EXCEPT !.body = IF @.how \in Commutative THEN [@ EXCEPT !.parts = Reverse(@)] ELSE @]

SameAnswer(result) ==
  /\ Failed(result.failure) <=> Failed(reply[1].failure)
  /\ ToBag(result.rows) = ToBag(reply[1].rows)

IsAlike(graph) ==
  /\ PlanDescriptors(graph) = PlanDescriptors(artifact)
  /\ phase = "answered" => SameAnswer(PlanResult(graph, reply[1].snapshot))

(* A UNION or INTERSECT gives the same with its operands the other way     *)
(* round: whichever side has the literals without a type of their own, the *)
(* types of both come from both, and the result is nullable if either is.  *)
(* (The operands of the runs give their results the same names.)           *)
OperandOrderDoesNotMatter ==
  LET swapped == Swapped(program)
  IN swapped # program =>
       /\ phase \in {"rejected", "prepared"} => (Passes(swapped) <=> phase = "prepared")
       /\ phase \in {"prepared", "answered"} => IsAlike(Lowered(swapped))

-----------------------------------------------------------------------------
StatusOf(reached) ==
  CASE reached \in {"parsed", "bound", "typed"} -> "submitted"
    [] reached = "rejected" -> "refused"
    [] OTHER -> reached

(* The phases together implement the service: a program is rejected by the *)
(* binder or the type checker, or its graph, made of joins, groups,        *)
(* windows, hidden keys and projections with fresh fields, gives the rows  *)
(* that the names, stages and orders of the source mean, under every       *)
(* snapshot, and every program gets one or the other.                      *)
Service == INSTANCE QueryService WITH status <- StatusOf(phase)

ImplementsQueryService == Service!ServiceSpec
=============================================================================
