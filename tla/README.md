# A verification of ShapeSQL

ShapeSQL compiles one relational query against a fixed catalog into a typed graph, Shape IR,
and has a reference evaluator for such graphs. This directory holds TLA+ models of that
program, TLC configurations that check them on small instances, and proofs for TLAPS. Paths
below are relative to the repository; the Rust sources are in `src/`, the language
specification in `docs/specification/`.

To run them: `tlc -config Graphs.cfg MCGraphValidation` (the pairs are in the table of
runs); `tlapm M.tla` for `M` one of `ReferenceEvaluationProofs`, `QueryScopesProofs`,
`CteBindingProofs`, `CtePhasesProofs`, `ScalarProofs`, `ExpressionProofs`, `NodeChainProofs` and
`HostOrderProofs`.

## 1. The system

Everything is a sequential library: no threads, no I/O, nothing persisted. What is hard is
elsewhere: five recursions over graphs and syntax trees, each with a memo
or a stack of scopes, each trusting the phase before it with `expect`, `unreachable!` or a
comment; demand-driven evaluation, in which a failure must be observed exactly when it is
required; and facts about rows (value keys, peer constants, nullability) that are derived on
one side of the program and relied upon on the other.

| Component | Source | State | Operations | What makes it correct |
|---|---|---|---|---|
| Lexer | `lexer.rs` | a position | scan | tokens of docs 04 |
| Parser | `parser.rs`, `ast.rs` | a position | recursive descent without going back | accepts the grammar of docs 06, groups by its precedence, spans that fit, errors where the text goes wrong |
| Names, catalog, frontend | `name.rs`, `catalog.rs`, `frontend.rs` | none; a list of relations | folding, `Catalog::push`, `compile` | ASCII case folds; phases run in order on whole results |
| Binder | `bind.rs`, `identity.rs` | scopes of WITH clauses with a state per declaration, counters of identities | `bind_query_expression`, `establish_cte_scope`, `bind_cte`, `finish_cte_scope`, `resolve_cte`, ORDER BY resolution | a name means what its place in the text says; every cycle and every unknown name is reported, in unused declarations too |
| Type checker | `typecheck.rs`, `hir.rs`, `types.rs` | memo of declarations | `type_query_expression`, `type_cte`, hints, placement and grouping rules | every query typed, each declaration once; what passes can be lowered |
| Lowerer | `lower.rs` | nodes, counters, definitions and plans of declarations | `lower_query_expression`, `lower_select`, `lower_cte` | the graph validates and means the query; declarations shared |
| Shape IR validator | `shape_ir.rs` | a state per node, recorded properties, defined fields | `Validator::new`, `validate`, `visit`, `validate_node` | accepts exactly well-formed graphs; what it derives is true of every result |
| Reference evaluator | `evaluation.rs` | a cache of node results | `evaluate`, `evaluate_node`, one function per node kind, `evaluate_expression` | docs 02 and 09: values, multiplicities, orders, demand, errors; one answer whatever order the host lists rows in |
| Interchange | `interchange.rs` | none | `decode`, `encode` | what is decoded is what was encoded; objects are closed, and nothing in a document is passed over but metadata |

The components meet in four places. `compile` chains parse, bind, type, lower. Each of the
last three walks the query expressions again, in an order of its own. `lower` ends with
`validate().expect(..)`. `evaluate` validates, then trusts the graph: it has no cycle check
and no missing-node error of its own, and it orders, slices and numbers rows by what the
validator has established about them.

## 2. The modules

| Module | Models | Role |
|---|---|---|
| `ShapeGraph` | `shape_ir.rs` `Graph`, `node_dependencies` | graphs as nodes with references; reachability, cycles, well-formedness |
| `GraphVerdict` | promise of `validate` | abstract: one step to a correct verdict |
| `GraphValidation` | `Validator::new`, `validate`, `visit` | the depth-first visit with its call stack; implements `GraphVerdict` |
| `EvaluationContract` | promise of `evaluate` (docs 09 §3.2, §9) | abstract: refused, or a failure that is required, or success |
| `ReferenceEvaluation` | `evaluate`, `evaluate_node`, the cache | composes `GraphValidation` with the recursive evaluator; implements `EvaluationContract` |
| `ReferenceEvaluationProofs` | | theorems about `GraphValidation` and, from them, about `ReferenceEvaluation` |
| `ScalarValues` | `evaluate_unary`, `evaluate_binary`, casts, membership | values, failures and operators |
| `ScalarRules` | `validate_expression`, `evaluate_expression`, one operator at a time | the descriptor and the value of every kind of expression, from those of its arguments |
| `ExpressionEvaluation` | the returns of both | a machine that applies one operator after another, from leaves outwards |
| `ScalarProofs` | | lemmas about values, operators and the rules of `ScalarRules` |
| `ExpressionProofs` | | theorems about `ExpressionEvaluation` |
| `NodeRules` | `validate_expression` on whole expressions, `validate_node` and the rule of each node kind | what a node accepts, and its schema, kind of collection, keys and peers |
| `NodeEvaluation` | `evaluate_expression` on whole expressions, the evaluation of each node kind | rows or a failure |
| `NodeChain` | | a machine that grows a graph node by node: what the rules say beside what evaluation gives |
| `NodeChainProofs` | | theorems about `NodeChain`: what the validator derives is true of what the evaluator gives |
| `HostOrderProofs` | | theorems about `NodeChain`: the order in which a host lists rows changes nothing |
| `QueryScopes` | `ast.rs`, the syntax that matters to names | programs, and what names mean by docs 07 §4 |
| `QueryScopesProofs` | | lemmas about programs, their scopes and the meaning of names |
| `BindingVerdict` | promise of `bind` | abstract: one step to a correct verdict about relation names |
| `CteBinding` | the binder's scopes and recursion | lazy binding with its call stack; implements `BindingVerdict` |
| `CteBindingProofs` | | theorems about `CteBinding`: scopes, marks and the meaning of names; its verdict; no query expression is entered twice |
| `CtePhases` | type checker's and lowerer's recursion over query expressions | composes `BindingVerdict` with both memos |
| `CtePhasesProofs` | | theorems about `CtePhases`: lookups, typing once, lowering what is needed |
| `SourceQueries` | `ast.rs`, `hir.rs`: the syntax of SELECT, structural equality | query expressions, and walks over them |
| `SelectBinding` | `bind.rs`: FROM, SELECT, WHERE, GROUP BY, HAVING, ORDER BY, columns | from names to identities |
| `SelectTyping` | `typecheck.rs`: descriptors, hints, placement, grouping, complete orders | from identities to a typed query, or a refusal |
| `SelectLowering` | `lower.rs`: every stage of SELECT, set operations, hidden keys | from a typed query to a plan |
| `PlanGraphs` | `NodeRules` and `NodeEvaluation` on whole plans | what the validator says of a plan, and what the evaluator makes of it |
| `QueryMeaning` | docs 03, 07 | reference: the rows a query means, computed on its syntax |
| `QueryService` | what a host sees of `compile` and `evaluate` | abstract: refused, or prepared and answered as the query means |
| `QueryCompilation` | `frontend.rs`, then `evaluate` | composes the phases above; implements `QueryService` |
| `SourceParser` | `parser.rs`, function by function | from classes of tokens to a syntax tree with spans, or an error |
| `SourceGrammar` | docs 06 | reference: the grammar as data, and what it derives |
| `SourceParsing` | `parse` | a machine that edits programs: the parser beside the grammar and the text |
| `Interchange` | `interchange.rs`, function by function | from JSON values to graphs, and back |
| `DocumentExchange` | `encode`, then `decode` | a graph handed over as a document that is changed on the way |
| `QueryTrees`, `MC*` | | instances for TLC |

State and actions follow the code. In `GraphValidation`, `stack` is the recursion of `visit`,
one frame per active call with the next dependency to visit; `states` is `Validator.states`;
`call` is the argument of the call being entered; each early return, each recursive call and
each assignment of a node state is an action. In `ReferenceEvaluation`, `evalStack` plays
that part for `evaluate_node`. In `CteBinding`, `stack` is the recursion of
`bind_query_expression`: a frame has its scope chain, its own scope, the next name or nested
query of its body, and the declaration it is bound for; `scopes` is `Binder.cte_scopes`. In
`CtePhases` a frame holds the query expression of a call, the tasks it has left, one for each
item of the body and each declaration of the clause, and the declaration it is made for; a task
that asks for nothing (a relation of the catalog, a query of EXISTS while hints are gathered)
is passed over. Variables marked *history* are no part of
the program and are only counted or collected.

In `QueryCompilation` each phase is one action, as `compile` has each phase work on the whole
result of the one before: `program` is the syntax, `artifact` what has been made of it so far.
A phase is an operator over the syntax, with the code's conditions in the code's places: a name
that does not resolve, a clause that is not allowed or an operand of the wrong type marks the
result, and a marked result is a refusal. Which of several errors is reported is left open.
A plan (`PlanGraphs`) is the tree of a graph's nodes. `QueryMeaning` is written
from the language specification and shares with the evaluator's model the operators on scalars
and on lists of values (`ScalarValues`, `AggregateValue`), which have runs of their own, but
nothing of binding, typing, stages, nodes or identities; it is no model of code.

In `SourceParser` a state of the parser is passed from call to call; an error ends it as `?`
does. `SourceGrammar` is written from the language specification: it finds the set of all
derivations, and so knows nothing of lookahead, precedence functions or loops.

In `Interchange` a JSON value is a record of one field that names its form. A written object is a
sequence of members, a received one (`StrictValue`) a function, so that duplicates and the order
of members exist only on paper. The decoder and the encoder have their own tables of words, as in
the code, and their functions have the code's names; a value that cannot be decoded is `Refused`,
which every enclosing value passes on as `?` does. Of serde_json the model has what
`StrictValueVisitor` sees of it: under the feature `arbitrary_precision`, which `Cargo.toml` asks
for, a number that is no machine integer arrives as an object of one private member.

`NodeChain` and `ExpressionEvaluation` have no counterpart as machines: their steps build
larger graphs and expressions from smaller ones (those of `SourceParsing` edit programs, and two of `DocumentExchange` edit documents), so that every invariant is checked at every
node and operator the validator accepts, composed with the others. The functions they apply at
each step are the code's. A step of `ExpressionEvaluation` is one return of
`validate_expression` and one of `evaluate_expression` for every row: the arguments of an
expression carry the values they have, and the annotation is chosen freely and must be the
derived one. Since no step looks deeper than one operator, the machine can be reasoned about
without induction over expressions.

## 3. The runs

| Run | Module, configuration | Question |
|---|---|---|
| graphs | `MCGraphValidation`, `Graphs.cfg` | traversal invariant, lookups and verdict for every reference structure, and with duplicate ids, repeated fields, broken rules; `validate` implements its promise and ends |
| evaluation | `MCReferenceEvaluation`, `Evaluation.cfg` | the evaluator never re-enters or misses a node, computes each at most once, and only what is required; `evaluate` implements its contract and returns |
| expressions | `MCExpressionEvaluation`, `Expressions.cfg` | two steps, each an operator or another leaf, from all leaves: descriptors, exact division, Kleene logic and demand |
| chain_ordering | `MCNodeChain`, `ChainOrdering.cfg` | orders, slices, rankings: independence of the host's row order, value keys, peer constants |
| chain_grouping | `MCNodeChain`, `ChainGrouping.cfg` | joins, groups, sets: multiplicities, overflow of sums |
| binding_trees | `MCCteBinding`, `BindingTrees.cfg` | names are lexical, cycles are found, nothing is bound twice; `bind` implements its promise and returns |
| cte_phases | `MCCtePhases`, `CtePhases.cfg` | no lookup of the type checker or lowerer misses; typed once, lowered when needed |
| source_parsing | `MCSourceParsing`, `SourceParsing.cfg` | the parser accepts what the grammar derives, its trees and spans show the source, and its errors stand where the source goes wrong |
| query_compilation | `MCQueryCompilation`, `QueryCompilation.cfg` | from syntax to rows: what is prepared means what was written, fits its types and never panics; parentheses and the order of operands do not matter |
| unnamed_binding | `MCQueryCompilation`, `UnnamedBinding.cfg` | the assertion at the end of `lower` fails (see the findings) |
| document_exchange | `MCDocumentExchange`, `DocumentExchange.cfg` | graphs survive being encoded, rephrased and decoded; what is accepted says nothing that is passed over |
| metadata_object | `MCDocumentExchange`, `MetadataObject.cfg` | metadata that is no object is accepted (see the findings) |

All pass but `unnamed_binding` and `metadata_object`. What they show is in the comments of the properties; the ones worth knowing first:

- `TraversalInvariant`: at every moment the stack of `visit` is a path without repetition and
  the completed nodes are closed under references, acyclic and checked. `VerdictIsCorrect`
  follows: a `Complete` node is never mistaken for a cycle, nor a cycle for completion.
- `NoReentry`, `LookupsSucceed`: the evaluator's missing checks are covered by the validator
  having walked the same references, those of EXISTS and IN included.
- `ImplementsEvaluationContract`: a failure is returned only if the node that fails is
  required, and success only if no required node fails.
- `ResultIndependentOfHostOrder`: a bag supplied in another order gives the same bag, and the
  same rows in the same order after Order, whichever of Slice and ROW_NUMBER follow. This
  rests on `ValueKeysIdentifyRows` and `PeerConstantsAreConstant`.
- `ImplementsQueryService`: whatever the type checker lets through is answered, under every
  snapshot, as the query means: names resolved through results, inputs and ordinals, groups,
  windows above HAVING, hidden sort keys that are dropped again, DISTINCT, row bounds. Where
  the meaning leaves the order of peers open, any such order will do.
- `NothingPanics`: of some thousands of queries, those the type checker accepts lower to
  graphs that the validator accepts. This is the comment at `lower.rs:25-27`, and the only
  exception found is the finding below.
- `ParenthesesDoNotMatter`, `OperandOrderDoesNotMatter`: grouped expressions are recognised in
  two phases by one structural equality, and hints flow from either operand to the other.
- `DescriptorIsSound`, `RowsConformToSchema`: no derived nullability or type is too optimistic.
- `ScopingIsLexical`: although a declaration is bound from wherever it happens to be named
  first, its names mean what they mean in its own place.
- `DeclarationTypedOnce`, `LoweredWhenNeeded`: the memos survive the clones that hints make,
  and exactly the query expressions that evaluation can require become nodes.
- `AcceptsTheGrammar`: the descent decides by lookahead what the grammar leaves to search, and
  loses no program and accepts no other by it. `TreeShowsTheSource` writes each node out again
  and compares it with the tokens of the node's own span, which a wrong mark, a clause in
  another's place, or operators grouped from the wrong side would break.
- `ErrorIsWhereItGoesWrong`: what stands before an error is the beginning of some program. Only
  a `NOT` after an operand is refused one token early, since it is taken only before `IN`.
- `GraphsSurviveExchange`: a valid graph that `encode` accepts comes back as it was, although
  `encode` looks only at the identities that are declared and `decode` at every one that is
  referred to. `NothingIsPassedOver`: an accepted document, its metadata apart, says what
  `encode` would write for the graph that was built of it. Together they make either direction
  the measure of the other, member by member and word by word.

### Findings

`lower` ends with `expect("reference lowering must always produce valid Shape IR")` under the
comment that any failure there is an implementation defect (`lower.rs:25-34`). A catalog may give a relation the
empty `RelationBinding` (`catalog.rs:9-12` takes any string); the lowerer copies it into the
Input node (`lower.rs:355-372`), whose rule refuses it (`shape_ir.rs:545`). A query of that
relation passes binding and type checking, and `compile` panics. `unnamed_binding` shows it.

`docs/specification/11-shape-ir-interchange.md:238` says of metadata that its value must be a
JSON object. `decode` accepts a document with `"metadata": 1.5`. A number that is no machine integer
reaches `visit_map` (`interchange.rs:188`) as an object of one private member, so that the test
of `Record::new` (`interchange.rs:225`) finds an object. Wherever else an object is expected its
members are looked at, and the number is refused. `metadata_object` shows it.

### Bounds

| Bound | Value | Why it is enough |
|---|---|---|
| nodes of a graph | 3 in any reference structure below a fixed root, one name absent; 2 with defects | a cycle of three, a diamond, a shared query, a missing and an unreachable node; the rest is proved for every number of nodes |
| references of a node | 1 input and 1 query (2 and 2 for evaluation) | order between them, sharing, a cycle through either; more are the same loop |
| demand of a node | at most two of its queries, in either order, repeatedly | none, one, both, cached again |
| INT64 | 2 bits (-2..1), 4 bits in chains and queries (-8..7) | the least integer, -1, 0, and sums that leave and return |
| TEXT | 10 strings, numbered in byte order | numerals inside and outside INT64, signs, truth values, others |
| expressions | two operators (`MaxSteps`), each of at most three arguments (`MaxArguments`): the expression made last, the one put by before, and four companions; 60 rows | every pair of operators, on every row of the schema; expressions of every size are proved |
| chains | 4 nodes after the input (3 for groups; `MaxNodes`), 3 rows, 2 fields, expressions of height 3 (`MaxHeight`; 4 for queries) over the fields and queries of `Refs` | peers, repeated rows, NULLs, and a fact carried across two nodes; what the rules derive is proved for every number of nodes and rows |
| queries through the whole pipeline | 8 families over two relations of two fields | each family crosses the clauses whose rules read one another: results, inputs and ordinals in ORDER BY with DISTINCT and bounds; scalars and WHERE; GROUP BY, HAVING, aggregates; windows in the list and in ORDER BY; joins and self-joins; set operations below set operations and in derived tables; all clauses at once; any of these as a derived table of an outer join |
| programs that are parsed | 3 to start from, 2 edits (`MaxEdits`), the second within the first and of at most 13 tokens (`MaxTokens`) | a phrase for every production and every class of token the parser tells apart: every production inside every other, and every token missing, or in excess, in any of them |
| snapshots | 7, up to 4 rows | repeated rows, NULLs, the same rows in another order, none, a NULL where there may be none, no relation, other descriptors |
| documents | 58 graphs of 1 to 3 nodes, 1 edit (`MaxEdits`) at any place | every word of every enumeration, every member of every kind of object, lost, doubled, renamed, reordered or with another value; each member is decoded by itself, so that several wrong ones add nothing |
| query expressions | 4, two declarable names, one that is not; the root declares and names something, and in fewer trees a relation is unknown or ambiguous | a clause of two, shadowing, a cycle of three, a clause inside an unused declaration |

`MaxNodes`, `MaxHeight`, `MaxSteps`, `MaxArguments`, `MaxEdits` and `MaxTokens` are bounds of the models; the others are the sets that the MC
modules choose. `CHECK_DEADLOCK FALSE` stands in every configuration because a call returns
and nothing follows.

### Fairness

Each machine is one call of a sequential program. The abstract verdicts state only that there is
one in the end. Weak fairness of its whole next-state
relation says that the call is run until it returns, and nothing more; no action is favoured.
`QueryCompilation` states it as `WF_phase(Progress)`: `Progress` is any step out of a phase
that has a successor. The next step is a function of a large artifact, and so stated TLC need not compute
that artifact again to see whether a step is possible.

## 4. What is proved

The validator and the evaluator for every set of graphs, snapshots, node names and field names;
the binder, and the recursions of the type checker and the lowerer, for every set of programs,
query expressions and relation names; scalar expressions of every size, for every width of
INT64, every set of strings and every schema, rows and queries; and graphs of nodes of every
kind, one on top of another, of every height, over every relation. Assumed are
`GraphsAssumption` (submitted graphs are finite sequences of nodes over these names),
`BehavioursAssumption` (a node demands finitely many queries), `ProgramsAssumption` (a program
is a tree of query expressions), `NoneAssumption` (a placeholder is no name), and of
expressions and nodes

- `IntRangeAssumption`, `TextAssumption`: INT64 runs from a negative `IntMin` to
  `-IntMin - 1`; a string is the numeral of one integer or of none and a truth value or none,
  and every value has a string;
- `SchemaAssumption`, `RowsAssumption`, `QueriesAssumption`: a schema is a list of fields, and the rows
  of the input and of the queries below EXISTS and IN conform to theirs. `evaluate_input` checks
  that of the input; of other nodes it is `RowsAreOfTheSchema` below. A query that fails gives one of the four errors;
- `LeavesAssumption`, `BoundsAssumption`: a leaf is a literal, a field or an EXISTS with any
  annotation at all, and bounds are numbers;
- `OperationsAssumption`, `HeightAssumption`: the nodes a graph is built of are those Rust's types
  allow (`IsNode`): each kind has the entries of its variant of `NodeKind`, and expressions are
  trees of the forms `Expression` has, of any bounded height. Whether they are typed, name
  fields that are there, or break a rule in any other way is left to the validator;
- `SourceAssumption`, `RelationsAssumption`: the schema of the input names no field twice, which
  `ensure_unique_schema` refuses, and a relation of the host has rows of values, of any length
  and type;
- `SidesAssumption`: the other input of a join or a set operation gives rows of its schema, as the
  theorem shows of the first.

TLC evaluates all of them in the runs.

| Theorem of `ReferenceEvaluationProofs`, on the validator | Says |
|---|---|
| `TypeCorrectness` | `ValidatorSpec => []ValidatorTypeOK` |
| `TraversalIsSound` | `ValidatorSpec => []TraversalInvariant` |
| `PropertiesAreAvailable` | `ValidatorSpec => []InputPropertiesAvailable` |
| `VerdictCorrectness` | `ValidatorSpec => []VerdictIsCorrect` |
| `TraversalImplementsVerdict` | every step is a `Decide` of `GraphVerdict` or a stutter |

The inductive invariant is `Invariants /\ VerdictIsCorrect`, where `Invariants` is the type
invariant with `TraversalInvariant`. The verdict alone is not inductive: to know that
`CyclicGraph` is true of a node marked `Visiting` one has to know that the marked nodes are
those on the stack and that the stack is a path; to know that acceptance is right one has to
know that completed nodes are closed and acyclic, and that every marked node was reached from
the root. Completion extends an acyclic set by a node that refers into it only
(`AcyclicExtension`); this is the only argument about sets of nodes that is not one step.
Cycles and reachability are defined by closed sets, so that no induction over paths is needed.

| Theorem of `ReferenceEvaluationProofs`, on the evaluator | Says |
|---|---|
| `EvaluatorTypeCorrectness` | `EvaluationSpec => []EvaluatorTypeOK` |
| `RecursionIsFinite` | `EvaluationSpec => []NoReentry` |
| `EvaluatorLookups` | `EvaluationSpec => []LookupsSucceed` |
| `SharedWork` | `EvaluationSpec => []EvaluatedAtMostOnce` |
| `DemandDriven` | `EvaluationSpec => []OnlyRequiredWork` |
| `CachedValuesAreComplete` | `EvaluationSpec => []CacheIsComplete` |
| `EvaluationImplementsContract` | every step is a step of `EvaluationContract` or a stutter |

The evaluator runs on the state the validator leaves, so the inductive invariant has the
validator's as a conjunct: `InductiveInvariant /\ EvaluatorTypeOK /\ EvaluationInvariant`. From
the validator come acyclicity and that every reference names a node (`AcceptedFacts`,
`WellFormedFacts`). `EvaluationInvariant` adds that each active evaluation waits for the next
one on the stack, which its own node uses, and has all earlier pieces of its work in the cache.
If a demanded node were under way, the stack from it upwards would be a set of nodes each of
which uses another of the set, which acyclicity excludes (`DemandIsNew`). When the stack
is empty the root is cached, the cache is closed under needs and free of failures, so it
contains everything required, and the value may be returned (`SuccessIsDeserved`).

| Theorem | of | Says |
|---|---|---|
| `BinderTypeCorrectness` | `CteBindingProofs` | `BinderSpec => []BinderTypeOK` |
| `CyclesAreActive` | `CteBindingProofs` | `BinderSpec => []BindingIsActive` |
| `NamesAreLexical` | `CteBindingProofs` | `BinderSpec => []ScopingIsLexical` |
| `BinderVerdictCorrectness` | `CteBindingProofs` | `BinderSpec => []VerdictIsCorrect` |
| `BindingImplementsVerdict` | `CteBindingProofs` | every step is a `Decide` of `BindingVerdict` or a stutter |
| `NothingIsBoundTwice` | `CteBindingProofs` | `BinderSpec => []BoundAtMostOnce` |

The binder's invariant is built in three layers, each inductive with the ones below it.
`BinderInvariant` says that the chain of scopes of every scope, of every active call and of the
call being entered lists exactly the clauses around its query, the inner ones later; that the
declarations marked `Binding` are those of the active calls; and that the meanings recorded so
far are those of the text. Lexical scoping needs the first part, because the chain with which a
declaration is bound is not that of the name that led to it. `VerdictInvariant` adds
`Progress`: each active call waits for the next one, the part of its body before that is clean,
a bound declaration is finished with everything inside it, and it depends on no cycle. A
name that leads to a declaration marked `Binding` closes a chain of such waits, each of which
is a dependency in the text, so the declaration does depend on itself (`CycleIsReal`); a
declaration that becomes bound depends only on bound ones, so it is on no cycle
(`BoundIsAcyclic`). `EntryInvariant` adds that what is still to be entered, by a call or for a
declaration, has not been entered and is waited for in one place only.

| Theorem of `CtePhasesProofs` | Says |
|---|---|
| `InvariantHolds` | `PhasesSpec => []PhasesInvariant`, the inductive invariant |
| `PhasesAreTyped` | `PhasesSpec => []PhasesTypeOK` |
| `EveryLookupIsAnswered` | `PhasesSpec => []LookupsAreAnswered` |
| `EveryDeclarationTypedOnce` | `PhasesSpec => []DeclarationTypedOnce` |
| `NeededIsLoweredOnce` | `PhasesSpec => []LoweredWhenNeeded` |

`PhasesInvariant` is a conjunction of four parts besides the types, each used by the next.

- `BoundFirst`: the phases run only on programs that the binder has accepted. This gives
  `WellScoped`: every name resolves, and no declaration depends on itself.
- `CallsAreScoped`: the scopes around the query of every active call belong to declarations
  that are registered (entries of the type checker, definitions of the lowerer), and every
  task a call has left stands in the text of its query. So what a task looks up is there.
  Moreover a call above that for a declaration is about something the declaration depends on.
  If a task asked for a declaration that is being typed, this declaration would depend on
  itself (`AskedIsNotFor`).
- `TypingIsKept`: declarations marked `Typing` are those of the active calls, one call each,
  and the mark tells how often the query was typed. Whatever a typed query expression contains
  is typed or left to a call. When no call is left, the typed query expressions are a set
  that contains the root and is closed under parts, hence all that the root encloses.
- `LoweringIsKept`: the same for the lowerer: a query expression is lowered, or is left to do
  in one task of one call, or neither; what a lowered one asks for is lowered or left to a
  call. At the end the lowered query expressions are closed under what evaluation needs, and
  each is needed because it was asked for by one that is; so they are `Needed`.

`LookupsAreAnswered` alone is far from inductive: that `type_cte` meets no declaration under
way depends on the whole stack, and on a fact about the text that another phase has
established. `Needed` is an intersection of closed sets, so that no induction over the text is
wanted here either.

| Theorem of `ExpressionProofs` | Says |
|---|---|
| `ExpressionsAreFormed` | `Spec => []ExpressionInvariant`, the inductive invariant |
| `DescriptorsAreSound` | `Spec => []DescriptorIsSound` |
| `DivisionsAreExact` | `Spec => []DivisionIsExact` |
| `ConnectivesAreKleene` | `Spec => []LogicIsKleene` |

`DescriptorIsSound` is not inductive: it speaks of the expression made last, and what that one
gives depends on its arguments. `ExpressionInvariant` says of every expression put by
that its values fit its descriptor (`Fits`: a value of the derived type, NULL only if nullable,
or one of the four errors), and of the one made last that it is valid, of one of the ten kinds
over arguments of which the same holds, and that its values are those the evaluator computes. `OperatorFits` is the step: for each kind, if the
validator's rule derives a descriptor from those of the arguments, and the arguments' values fit
theirs, then the evaluator's value fits the derived one. This is where the two halves of the
program, which share no code, have to agree: no operator may meet a type it calls
unreachable, and no NULL may come out where the validator has excluded it. `QuotientFacts`
proves division by absolute values exact and truncating, and `DivisionFacts` carries it to both
ends of INT64. `ConditionalIsKleene`, `NotIsKleene` and `MembershipIsKleene` compare the
operators' case distinctions with minimum, maximum and complement on three degrees of truth.

| Theorem of `NodeChainProofs` | Says |
|---|---|
| `ChainIsSound` | `ChainSpec => []ChainInv`, the inductive invariant |
| `RowsAreOfTheSchema` | `ChainSpec => []RowsConformToSchema` |
| `UnreachableIsNotReached` | `ChainSpec => []NothingUnreachable` |
| `ValueKeysAreKeys` | `ChainSpec => []ValueKeysIdentifyRows` |
| `PeersAgree` | `ChainSpec => []PeerConstantsAreConstant` |
| `SetsHaveTheirCopies` | `ChainSpec => SetMultiplicities`, an action property |
| `JoinsHaveTheirCopies` | `ChainSpec => JoinMultiplicities`, an action property |
| `GroupsDivideTheInput` | `ChainSpec => GroupsDivideInput`, an action property |

None of the four invariants is inductive by itself: that a value key still identifies rows after
a Project depends on the expressions of kept fields, that a predicate gives a truth value depends
on the rows conforming to the schema, and that of a Window depends on the widths of the
groups. `ChainInv` says them together of the node on top: its schema is a list of distinct fields,
all of them among those defined; either host gets rows of that schema or one of the errors that
may be observed (`Good`); each value key is a set of fields of the schema that identifies rows
(`Identifies`); and where the collection is ordered, each position has a peer group, and rows of
one group agree on the peer constants (`ConstantPeers`). For each kind of node there is a lemma of
each part: `Good` and the value keys of what the rule derives, and the peers of Project, Filter, Order
and Slice, the only kinds that keep or make an order.

An expression is a member of `Terms[n]` for some height, and each walk over it
(`ValidateExpression`, `Evaluate`, `Annotated`, `ReferencedFields`) is a function on terms. A
function on `Terms[n]` is extended to `Terms[n + 1]` by one operator, whose rule is that of
`ScalarRules`, so that `OperatorFits` of `ScalarProofs` is the step here as well as in
`ExpressionProofs`: a typed expression gives a value of its descriptor on every row of the
schema, or one of the four errors. Induction over heights is by the least height at which the claim fails (`LeastFacts`).
The same scheme gives the sum of a sequence and the loop of `take_one`. The longest arguments
are that sorting by a stable comparison arranges all positions and puts peers next to one
another (`Arranged`, `NewPeers`), which Order and the rankings need, and that groups divide
the rows, which the counts and sums of aggregates need.

The three action properties count. The copies of a row are the cardinality of a set of positions, and
two such sets are compared by a bijection between them (`SameSize`), so that a concatenation adds
(`ConcatCopies`) and an appended row adds one (`AppendCopies`). For a set operation the invariant of
the loop of `take_one` says, after each left row, how many copies of a row are still in the bag of right rows
and how many were kept (`TakingOf`): from there EXCEPT ALL leaves `max(l - r, 0)` and INTERSECT ALL
`min(l, r)` at the end, whatever the order of the rows. The candidates of a join are the product of
the positions of both sides, each pair once (`PairsAreOnce`); a row of the joined width comes apart into its two sides in one way
only (`WideFacts`), so a pair that is accepted stands as often as its sides do together (`MatchedCopies`), and a
padded row as often as the row that is alone (`PaddedCopies`). For groups, each position is in the one group of its key, and the
sizes of the groups are summed up (`GroupSizes`).

| Theorem of `HostOrderProofs` | Says |
|---|---|
| `HostsCorrespond` | `ChainSpec => []HostsInv`, the inductive invariant |
| `ResultsAgree` | `ChainSpec => []ResultIndependentOfHostOrder` |
| `FailuresAgree` | `ChainSpec => []FailureIndependentOfHostOrder` |

That two hosts have the same bag is not inductive, even with `ChainInv`: a Slice takes rows by
position, and bags have none. `HostsInv` says that both hosts fail or neither does, that the rows
of one are those of the other as often (`Alike`), and, while the collection is ordered, that the
rows and their peer groups correspond under one permutation of the positions, with groups that
never fall (`Lockstep`). So both hosts have the same rows in each group of peers, in any order
within it. The argument for each kind of node starts from the permutation `f` that takes equal
rows to equal rows without changing their order (`StableMove`):

- Project and Filter go row by row, so `f` also moves what they give; which row fails first may
  differ, whether one fails may not (`MovedFails`). They do the same to the rows of a `Lockstep`.
- Distinct, set operations and joins have bags that `CombinedCopies` and `EvaluatedJoinCopies`
  of `NodeChainProofs` determine from the bags of their inputs.
- Groups correspond to groups (`GroupsCorrespond`), and each aggregate is the same of arguments
  that moved, because a sum does not change under a permutation (`TotalMoves`) and is only compared
  with INT64 at its end: a running total would leave the range in one order and not in another.
- Order sorts by keys and leaves peers in the order of the host. Peers
  start at the same positions for both hosts (`SamePeers`), because the keys are the same, one
  after the other (`SortedMoves`).
- RANK and DENSE_RANK count the peers up to a row, so they depend on its key alone. ROW_NUMBER tells peers
  apart: the validator asks for a value key among the items, with which one sort key is one row
  (`RowNumberKeys`), and `f` then keeps the order within the partition (`StableCarried`).
- Slice needs a value key among the peer constants. Then the rows of one group are one row, so both hosts
  have the same list, not only the same groups (`SameLines`).

Only model-checked: termination (liveness), and everything about queries, documents and source
texts, whose modules declare or reach operators that are recursive over data.

## 5. What the models leave out

- Graphs: the spelling of identities and the names of fields. In `ShapeGraph` the rules of a
  node are a flag; they are `NodeRules` in full. The declared schema of a node is taken to be
  the one the rules derive, since any other is refused.
- Expressions: concatenation of TEXT, whose results are outside any finite set of strings; the
  field of IN is the query's only field, which the validator requires. The annotation of an expression is the declared descriptor; leaves with
  wrong annotations are among the inputs.
- Nodes: `Empty` is an input without rows.
- Binding: names of fields, qualifiers, source positions and identities. A body is its names
  and nested queries in the order the binder meets them, without nested set operations in one
  body. `CtePhases` visits a query's parts in the binder's order in the lowerer too; the lowerer
  takes ORDER BY before the select list, which changes no answer it models.
- Termination of typing and lowering. Derived tables are typed again for hints, so the work
  can grow exponentially with nesting, which is a cost that no property bounds.
- Types in `CtePhases`: only that the type checker may refuse a program at any point.
- Queries: a query below EXISTS or IN is a name with a schema, rows and a failure (`Queries`),
  since `CtePhases` models how such queries are reached and `ReferenceEvaluation` how they are
  demanded. WITH is in `CteBinding` and `CtePhases` only, without the clauses of SELECT. Also left out
  are concatenation of TEXT, which of several errors is reported, and source positions.
- Parsing: the text of names, literals and messages; a token is its class, and a span is the
  positions of its tokens. `QueryCompilation` starts from syntax trees.
- Documents: bytes, escapes and white space, which serde_json reads, and its limit of 128 levels
  of nesting, which `encode` does not know of. `validate` is taken as done: the graphs to encode
  are valid ones. Of identifiers and of the spellings of INT64 there are samples of both kinds.
- Not modelled: the lexer and the conformance suite; they are a pure function of text
  and data files.

## 6. What could come next

1. WITH in the queries of `QueryCompilation`, so that a shared declaration is bound, typed,
   lowered and evaluated with the clauses around it.
2. Theorems about whole plans: the facts of `NodeChainProofs` and `HostOrderProofs` on the trees of
   `PlanGraphs`, where the other input of a join is a plan too and not one of `Sides`. Its recursions
   would have to be functions for that.
