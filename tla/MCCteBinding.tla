---------------------------- MODULE MCCteBinding ----------------------------
(***************************************************************************)
(* An instance of CteBinding for TLC: trees of four query expressions,     *)
(* each one a declaration of x, a declaration of y or a derived table, and *)
(* each with one name in its body, after or before what is nested.  The    *)
(* name z is never declared.                                               *)
(***************************************************************************)
EXTENDS CteBinding, QueryTrees

MCPlaces == PlacesAs({x, y, "table"})

(* Trees in which names stand before what is nested, over the catalogs     *)
(* that have y not once.                                                   *)
FewPrograms ==
  {ProgramOf(Syntax(place, names, TRUE, FALSE), relations) :
     place \in {p \in MCPlaces : /\ p[1] = [in |-> 0, as |-> x]
                                 /\ p[2].as # "table" /\ p[2].in = 1
                                 /\ p[3].as # x},
     names \in {n \in [0 .. 3 -> {x, y, z}] : n[0] = x /\ n[2] = z /\ n[3] # z},
     relations \in NoneOrTwo}

(* And those in which the root declares and names x, over a catalog that  *)
(* has every name.                                                         *)
MCPrograms ==
  {ProgramOf(Syntax(place, names, FALSE, FALSE), OneOfEach) :
     place \in {p \in MCPlaces : p[1] = [in |-> 0, as |-> x]},
     names \in {n \in [0 .. 3 -> {x, y, z}] : n[0] = x /\ n[3] # z}}
    \cup FewPrograms
=============================================================================
