---------------------------- MODULE QueryService ----------------------------
(***************************************************************************)
(* What a host sees of `compile` and `evaluate` (src/lib.rs): a submitted  *)
(* program is refused or prepared, and a prepared program is answered as   *)
(* its meaning demands under the snapshot the host hands in.  Refusing and *)
(* failing are the only ways not to give rows, and nothing is left         *)
(* without a reply.                                                        *)
(***************************************************************************)
EXTENDS QueryMeaning

CONSTANT Snapshots   \* what hosts supply: binding -> [descriptors, rows]

VARIABLES
  program,     \* the submitted query expression, whichever it is
  status,      \* "submitted", "refused", "prepared" or "answered"
  reply        \* <<>>, or the snapshot, the failure and the rows

serviceVars == <<program, status, reply>>

ServiceInit ==
  /\ status = "submitted"
  /\ reply = <<>>

Refuse ==
  /\ status = "submitted"
  /\ status' = "refused"
  /\ UNCHANGED <<program, reply>>

Prepare ==
  /\ status = "submitted"
  /\ status' = "prepared"
  /\ UNCHANGED <<program, reply>>

IsAnswer(answer) ==
  /\ answer.snapshot \in Snapshots
  /\ MayAnswer(MeaningOfQuery(program, answer.snapshot), answer.failure, answer.rows)

Answer ==
  /\ status = "prepared"
  /\ status' = "answered"
  /\ Len(reply') = 1 /\ \A answer \in Range(reply') : IsAnswer(answer)
  /\ UNCHANGED program

ServiceNext == Refuse \/ Prepare \/ Answer

ServiceSpec ==
  ServiceInit /\ [][ServiceNext]_serviceVars /\ <>(status \in {"refused", "answered"})
=============================================================================
