----------------------------- MODULE MCCtePhases -----------------------------
(***************************************************************************)
(* Instances of CtePhases for TLC: trees of four query expressions with a  *)
(* declaration of x at the root, and two more queries that are a           *)
(* declaration, a derived table, in parentheses, or of IN.                 *)
(***************************************************************************)
EXTENDS CtePhases, QueryTrees

MCPlaces == {p \in PlacesAs({x, y, "table", "parentheses", "in"}) :
               \E q \in 1 .. 3 : p[q].in = 0 /\ p[q].as = x}

MCPrograms ==
  {ProgramOf(Syntax(place, names, FALSE, unions), OneOfEach) :
     place \in MCPlaces,
     names \in {n \in [0 .. 3 -> {x, y, z}] : n[0] # y /\ n[1] # z},
     unions \in BOOLEAN}
=============================================================================
