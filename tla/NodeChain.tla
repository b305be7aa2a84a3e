----------------------------- MODULE NodeChain -----------------------------
(***************************************************************************)
(* A graph grown upwards from one Input node, one node at a time: each is  *)
(* put on top when the validator accepts it, and is evaluated as the       *)
(* evaluator would.  The same graph is evaluated for two hosts that hold   *)
(* the same relations but list their rows in different orders: a relation  *)
(* is a bag, and the order in which it is supplied means nothing.          *)
(***************************************************************************)
EXTENDS NodeEvaluation

CONSTANTS
  SourceSchema,   \* the schema the Input node declares
  Relations,      \* what a host may have bound to it: [schema, rows]
  Operations,     \* the nodes to put on top, not yet annotated
  Sides,          \* other graphs to join or combine with: [properties, rows]
  MaxNodes        \* bound on the height of the graph

(* A schema names no field twice.                                          *)
DistinctFields(schema) == \A i, j \in DOMAIN schema : schema[i].id = schema[j].id => i = j

ASSUME SourceAssumption == IsSchema(SourceSchema) /\ DistinctFields(SourceSchema)

ASSUME RelationsAssumption ==
  \A relation \in Relations :
    DOMAIN relation = {"schema", "rows"} /\ relation.rows \in Seq(Seq(Values))

ASSUME OperationsAssumption == \A node \in Operations : IsNode(node)

ASSUME SidesAssumption ==
  \A side \in Sides :
    LET schema == side.properties.schema
    IN IsSchema(schema) /\ DistinctFields(schema) /\ side.rows \in Seq(RowsOf(schema))

VARIABLES
  props,          \* NodeProperties of the top node
  definedFields,  \* the fields introduced so far
  given, other,   \* what the top node gives each host
  peers,          \* host -> the peer group of each of its ordered rows
  last,           \* the node put on top last, and its other input
  height

chainVars == <<props, definedFields, given, other, peers, last, height>>

NoSide == [properties |-> BagOf(<<>>, {}), rows |-> <<>>]

Unordered == [given |-> <<>>, other |-> <<>>]

ChainInit ==
  /\ props = BagOf(SourceSchema, {})
  /\ definedFields = FieldIds(SourceSchema) \cup UNION {FieldIds(s.properties.schema) : s \in Sides}
  /\ \E relation \in Relations :
     \E order \in SetToSeqs(DOMAIN relation.rows) :
       /\ given = EvaluateInput(relation, SourceSchema)
       /\ other = EvaluateInput([relation EXCEPT !.rows = Pick(relation.rows, order)], SourceSchema)
  /\ peers = Unordered
  /\ last = [node |-> NodeKind("input", "", <<>>, <<>>), side |-> NoSide]
  /\ height = 1

-----------------------------------------------------------------------------
AnnotatedItems(items, schema) ==
  [i \in DOMAIN items |-> [items[i] EXCEPT !.expr = Annotated(items[i].expr, schema)]]

AnnotatedAll(exprs, schema) == [i \in DOMAIN exprs |-> Annotated(exprs[i], schema)]

AnnotatedNode(node, schema) ==
  [node EXCEPT !.entries =
     [k \in DOMAIN node.entries |->
        [node.entries[k] EXCEPT !.args      = AnnotatedAll(@, schema),
                                !.partition = AnnotatedAll(@, schema),
                                !.order     = AnnotatedItems(@, schema)]]]

(* The nodes of a kind, annotated for the environment of their expressions.*)
Candidates(kind, environment) ==
  {AnnotatedNode(node, environment) : node \in {o \in Operations : o.kind = kind}}

(* Put an accepted node on top; Rows gives its rows from those of its      *)
(* inputs.  The other host has the rows of the side in the reverse order.  *)
Put(node, side, properties, Rows(_, _)) ==
  /\ height < MaxNodes
  /\ given.failure = Null /\ other.failure = Null
  /\ OutputsDiffer(node)
  /\ Introduces(node) \cap definedFields = {}
  /\ props' = properties
  /\ definedFields' = definedFields \cup Introduces(node)
  /\ given' = Rows(given.rows, side.rows)
  /\ other' = Rows(other.rows, Reverse(side.rows))
  /\ last' = [node |-> node, side |-> side]
  /\ height' = height + 1

(* The rows at these positions keep their peer groups.                     *)
SelectPeers(Indices(_)) ==
  peers' = IF props.ordered
           THEN [given |-> Pick(peers.given, Indices(given.rows)),
                 other |-> Pick(peers.other, Indices(other.rows))]
           ELSE Unordered

PutProject ==
  \E node \in Candidates("project", props.schema) :
    /\ AcceptsProject(node, props)
    /\ Put(node, NoSide, ProjectProperties(node, props),
           LAMBDA rows, side : EvaluateProject(node, props.schema, rows))
    /\ UNCHANGED peers

PutFilter ==
  \E node \in Candidates("filter", props.schema) :
    /\ AcceptsFilter(node, props)
    /\ Put(node, NoSide, props, LAMBDA rows, side : EvaluateFilter(node, props.schema, rows))
    /\ SelectPeers(LAMBDA rows : FilterIndices(node, props.schema, rows))

PutJoin ==
  \E side \in Sides :
    LET right == side.properties IN
    \E node \in Candidates("join", props.schema \o right.schema) :
      /\ AcceptsJoin(node, props, right)
      /\ Put(node, side, JoinProperties(node, props, right),
             LAMBDA rows, rights : EvaluateJoin(node, props.schema, right.schema, rows, rights))
      /\ peers' = Unordered

PutAggregate ==
  \E node \in Candidates("aggregate", props.schema) :
    /\ AcceptsAggregate(node, props)
    /\ Put(node, NoSide, AggregateProperties(node, props),
           LAMBDA rows, side : EvaluateAggregate(node, props.schema, rows))
    /\ peers' = Unordered

PutWindow ==
  \E node \in Candidates("window", props.schema) :
    /\ AcceptsWindow(node, props)
    /\ Put(node, NoSide, WindowProperties(node, props),
           LAMBDA rows, side : EvaluateWindow(node, props.schema, rows))
    /\ peers' = Unordered

PutDistinct ==
  \E node \in Candidates("distinct", props.schema) :
    /\ Put(node, NoSide, DistinctProperties(props),
           LAMBDA rows, side : EvaluateDistinct(rows))
    /\ peers' = Unordered

PutSet ==
  \E side \in Sides, node \in Candidates("set", props.schema) :
    /\ AcceptsSet(node, props, side.properties)
    /\ Put(node, side, SetProperties(node, props, side.properties),
           LAMBDA rows, rights : EvaluateSet(node, rows, rights))
    /\ peers' = Unordered

(* The peer group of each position of the rows an Order node gives.        *)
OrderPeers(node, rows) ==
  LET items  == node.entries[1].order
      keys   == OrderKeys(items, props.schema, rows)
      sorted == OrderIndices(node, props.schema, rows)
  IN [p \in DOMAIN sorted |-> Cardinality({q \in NewPeers(sorted, keys) : q <= p})]

PutOrder ==
  \E node \in Candidates("order", props.schema) :
    /\ AcceptsOrder(node, props)
    /\ Put(node, NoSide, OrderProperties(node, props),
           LAMBDA rows, side : EvaluateOrder(node, props.schema, rows))
    /\ peers' = IF given'.failure = Null /\ other'.failure = Null
                THEN [given |-> OrderPeers(node, given.rows),
                      other |-> OrderPeers(node, other.rows)]
                ELSE Unordered

PutSlice ==
  \E node \in Candidates("slice", props.schema) :
    /\ AcceptsSlice(node, props)
    /\ Put(node, NoSide, props, LAMBDA rows, side : EvaluateSlice(node, rows))
    /\ SelectPeers(LAMBDA rows : SliceIndices(node, Len(rows)))

PutForgetOrder ==
  \E node \in Candidates("forget_order", props.schema) :
    /\ AcceptsForgetOrder(props)
    /\ Put(node, NoSide, ForgetOrderProperties(props), LAMBDA rows, side : Result(Null, rows))
    /\ peers' = Unordered

ChainNext ==
  \/ PutProject \/ PutFilter \/ PutJoin \/ PutAggregate \/ PutWindow
  \/ PutDistinct \/ PutSet \/ PutOrder \/ PutSlice \/ PutForgetOrder

ChainSpec == ChainInit /\ [][ChainNext]_chainVars

-----------------------------------------------------------------------------
(* Properties.                                                             *)

Succeeded == given.failure = Null /\ other.failure = Null

(* Every row a node gives, to either host, is a row of the schema the      *)
(* validator derived for it: NULL stands only in nullable fields.          *)
RowsConformToSchema ==
  \A row \in Range(given.rows) \cup Range(other.rows) : RowConforms(row, props.schema)

(* On a graph that passed validation the evaluator never comes to a branch *)
(* it marks unreachable: a NULL compared without placement, a predicate    *)
(* that is no truth value, a reference to a field that is not there.       *)
NothingUnreachable == Unreachable \notin {given.failure, other.failure}

(* Whether a required operation fails does not depend on the order in      *)
(* which the host lists rows: a SUM that is in range in one order is in    *)
(* range in all, whatever its running total goes through.                  *)
FailureIndependentOfHostOrder == (given.failure = Null) <=> (other.failure = Null)

(* Nor does the bag of rows: what ROW_NUMBER numbers and what Slice keeps  *)
(* is settled by the value keys the validator asked for.                   *)
ResultIndependentOfHostOrder == ToBag(given.rows) = ToBag(other.rows)

Agree(r1, r2, fields) ==
  \A f \in fields : r1[FieldPosition(props.schema, f)] = r2[FieldPosition(props.schema, f)]

(* Two rows that agree on a value key are the same row.                    *)
ValueKeysIdentifyRows ==
  \A key \in props.valueKeys :
    /\ key \subseteq FieldIds(props.schema)
    /\ \A r1, r2 \in Range(given.rows) : Agree(r1, r2, key) => r1 = r2

(* A peer-constant field has one value in each peer group.                 *)
PeerConstantsAreConstant ==
  props.ordered /\ Succeeded =>
    \A p, q \in DOMAIN given.rows :
      peers.given[p] = peers.given[q] => Agree(given.rows[p], given.rows[q], props.peerConstant)

-----------------------------------------------------------------------------
Copies(row, rows) == Cardinality({i \in DOMAIN rows : rows[i] = row})

Multiplicity(how, l, r) ==
  CASE how = "union all"     -> l + r
    [] how = "union"         -> IF l + r > 0 THEN 1 ELSE 0
    [] how = "intersect all" -> IF l < r THEN l ELSE r
    [] how = "intersect"     -> IF l > 0 /\ r > 0 THEN 1 ELSE 0
    [] how = "except all"    -> IF l > r THEN l - r ELSE 0
    [] how = "except"        -> IF l > 0 /\ r = 0 THEN 1 ELSE 0

(* The loops of evaluate_set give every row the number of copies SQL       *)
(* defines from the copies of it in the two inputs.                        *)
SetMultiplicities ==
  [][last'.node.kind = "set" =>
       LET left == given.rows
           right == last'.side.rows
       IN \A row \in Range(left) \cup Range(right) \cup Range(given'.rows) :
            Copies(row, given'.rows)
              = Multiplicity(last'.node.how, Copies(row, left), Copies(row, right))]_chainVars

Joins(node, schema, row) ==
  node.how = "cross" \/ Evaluate(node.entries[1].args[1], schema, row) = True

(* A join has each pair of rows that its condition accepts as often as the *)
(* two rows occur, and, where the join type asks for it, each row without  *)
(* a partner padded with NULL as often as it occurs: never a padded row    *)
(* for a row that has a partner, never one for each failed comparison.     *)
JoinMultiplicities ==
  [][last'.node.kind = "join" /\ given'.failure = Null =>
       LET node   == last'.node
           schema == props.schema \o last'.side.properties.schema
           left   == given.rows
           right  == last'.side.rows
           noLeft  == Nulls(Len(props.schema))
           noRight == Nulls(Len(last'.side.properties.schema))
           Matched(l, r) ==
             IF l \in Range(left) /\ r \in Range(right) /\ Joins(node, schema, l \o r)
             THEN Copies(l, left) * Copies(r, right) ELSE 0
           LeftAlone(l) ==
             node.how \in {"left", "full"} /\ \A r \in Range(right) : ~ Joins(node, schema, l \o r)
           RightAlone(r) ==
             node.how \in {"right", "full"} /\ \A l \in Range(left) : ~ Joins(node, schema, l \o r)
       IN \A l \in Range(left) \cup {noLeft}, r \in Range(right) \cup {noRight} :
            Copies(l \o r, given'.rows) =
              Matched(l, r)
                + (IF r = noRight /\ LeftAlone(l) THEN Copies(l, left) ELSE 0)
                + (IF l = noLeft /\ RightAlone(r) THEN Copies(r, right) ELSE 0)]_chainVars

(* The groups of an Aggregate node divide its input: no two rows for one   *)
(* key, one row in all when there is no key, even of an empty input, and   *)
(* the counts of the groups add up to the rows of the input.               *)
GroupsDivideInput ==
  [][last'.node.kind = "aggregate" /\ given'.failure = Null =>
       LET entries  == last'.node.entries
           keyCount == Cardinality({k \in DOMAIN entries : entries[k].function = "group"})
           Key(row) == SubSeq(row, 1, keyCount)
           counted  == {k \in DOMAIN entries : entries[k].function = "count_all"}
       IN /\ keyCount = 0 => Len(given'.rows) = 1
          /\ \A i, j \in DOMAIN given'.rows :
               i # j => Key(given'.rows[i]) # Key(given'.rows[j])
          /\ \A k \in counted :
               Total([g \in DOMAIN given'.rows |-> given'.rows[g][k]]) = Len(given.rows)]_chainVars
=============================================================================
