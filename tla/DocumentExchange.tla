-------------------------- MODULE DocumentExchange -------------------------
(***************************************************************************)
(* A graph handed over as a Shape IR document: a producer encodes it, the  *)
(* text may be rewritten on the way by a tool that keeps its meaning or by *)
(* one that does not, and a consumer decodes what has arrived.  The codec  *)
(* is Interchange; what is permitted is docs/specification/11.             *)
(***************************************************************************)
EXTENDS Interchange, SequencesExt

CONSTANTS
  Graphs,      \* graphs that validate accepts
  Strings,     \* what a string may be replaced by
  Values,      \* what any value may be replaced by
  MemberNames, \* what a member may be renamed to
  Extras,      \* members that may be added
  Metadata,    \* metadata that a tool may leave in a document
  MaxEdits     \* the number of changes on the way

VARIABLES
  graph,       \* the graph of the producer
  document,    \* its text, Absent before encode, Refused if it has none
  edits,       \* the number of changes
  faithful,    \* whether all of them have kept the meaning
  answer       \* what decode has returned, Absent before

exchangeVars == <<graph, document, edits, faithful, answer>>

-----------------------------------------------------------------------------
(* The values within a text, by their paths.                               *)

Children(v) ==
  CASE Is("object", v) -> [i \in DOMAIN v.object |-> v.object[i][2]]
    [] Is("array", v)  -> v.array
    [] OTHER           -> <<>>

RECURSIVE Sites(_), At(_, _), Put(_, _, _)
Sites(v) ==
  {<<>>} \cup UNION {{<<i>> \o p : p \in Sites(Children(v)[i])} : i \in DOMAIN Children(v)}

At(v, path) == IF path = <<>> THEN v ELSE At(Children(v)[Head(path)], Tail(path))

Put(v, path, new) ==
  LET i == Head(path)
      below == Put(Children(v)[i], Tail(path), new)
  IN IF path = <<>> THEN new
     ELSE IF Is("object", v) THEN [v EXCEPT !.object[i][2] = below]
     ELSE [v EXCEPT !.array[i] = below]

(* Documents, nodes, fields and expressions may carry metadata (docs 11,   *)
(* 4.7); an object is known by the names of its members.                   *)
MayCarryMetadata(names) ==
  \E known \in {{"nodes"}, {"kind", "collection"}, {"id", "name", "type"}, {"kind", "type"}} :
    known \subseteq names

NamesOf(v) == {v.object[i][1] : i \in DOMAIN v.object}

(* The order of members has no meaning, and metadata has none.             *)
Rephrased(v) ==
  IF ~ Is("object", v) THEN {}
  ELSE {JsonObject(Reverse(v.object))}
         \cup {JsonObject(<< <<"metadata", m>> >> \o v.object) :
                 m \in IF /\ MayCarryMetadata(NamesOf(v))
                          /\ "metadata" \notin NamesOf(v) THEN Metadata ELSE {}}

Damaged(v) ==
  Values
    \cup (IF Is("string", v) THEN {JsonString(s) : s \in Strings} ELSE {})
    \cup (IF Is("array", v)
          THEN UNION {{JsonArray(RemoveAt(v.array, i)), JsonArray(InsertAt(v.array, i, v.array[i]))} :
                        i \in DOMAIN v.array}
          ELSE {})
    \cup (IF Is("object", v)
          THEN UNION {{JsonObject(RemoveAt(v.object, i)), JsonObject(Append(v.object, v.object[i]))} :
                        i \in DOMAIN v.object}
                 \cup {JsonObject([v.object EXCEPT ![i][1] = name]) :
                         i \in DOMAIN v.object, name \in MemberNames}
                 \cup {JsonObject(Append(v.object, extra)) : extra \in Extras}
          ELSE {})

-----------------------------------------------------------------------------
Init ==
  /\ graph \in Graphs
  /\ document = Absent
  /\ edits = 0
  /\ faithful = TRUE
  /\ answer = Absent

Encode ==
  /\ document = Absent
  /\ document' = encode(graph)
  /\ UNCHANGED <<graph, edits, faithful, answer>>

(* One value of the document on its way becomes another.                   *)
Rewrite(Forms(_), kept) ==
  /\ document \notin {Absent, Refused} /\ answer = Absent
  /\ edits < MaxEdits
  /\ \E path \in Sites(document) : \E new \in Forms(At(document, path)) :
       document' = Put(document, path, new)
  /\ edits' = edits + 1
  /\ faithful' = (faithful /\ kept)
  /\ UNCHANGED <<graph, answer>>

Rephrase == Rewrite(Rephrased, TRUE)

Damage == Rewrite(Damaged, FALSE)

Decode ==
  /\ document \notin {Absent, Refused} /\ answer = Absent
  /\ answer' = decode(document)
  /\ UNCHANGED <<graph, document, edits, faithful>>

Next == Encode \/ Rephrase \/ Damage \/ Decode

ExchangeSpec == Init /\ [][Next]_exchangeVars

-----------------------------------------------------------------------------
RECURSIVE WithoutMetadata(_)
WithoutMetadata(v) ==
  LET names == DOMAIN v.object
      kept  == IF MayCarryMetadata(names) THEN names \ {"metadata"} ELSE names
  IN CASE Is("object", v) -> [object |-> [m \in kept |-> WithoutMetadata(v.object[m])]]
       [] Is("array", v)  -> [array |-> [i \in DOMAIN v.array |-> WithoutMetadata(v.array[i])]]
       [] OTHER           -> v

Accepted == answer \notin {Absent, Refused}

(* What encode writes, decode reads as the same graph, whatever the order  *)
(* of the members and whatever metadata has been added on the way; encode  *)
(* refuses every graph whose document decode would refuse, although it     *)
(* looks at the identities that are declared and not at those referred to. *)
GraphsSurviveExchange ==
  answer # Absent /\ faithful => answer = graph

(* Nothing in a document that is accepted is passed over: but for metadata *)
(* it says what encode writes for the graph that decode has built, member  *)
(* by member, each of them once and every value in its canonical form.     *)
NothingIsPassedOver ==
  Accepted =>
    LET received == Received(document)
    IN received # Refused /\ WithoutMetadata(received) = Received(encode_graph(answer))

(* Metadata is a JSON object (docs 11, 4.7: "Its value MUST be a JSON      *)
(* object").                                                               *)
MetadataIsAnObject ==
  Accepted =>
    \A path \in Sites(document) :
      LET v == At(document, path)
      IN Is("object", v) /\ MayCarryMetadata(NamesOf(v)) =>
           \A i \in DOMAIN v.object : v.object[i][1] = "metadata" => Is("object", v.object[i][2])
=============================================================================
