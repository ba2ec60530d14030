------------------------------ MODULE MCDisks ------------------------------
(***************************************************************************)
(* A machine with two disks and a free target, a second name for a clone,  *)
(* and pairs of operations that meet at the same disks.                    *)
(***************************************************************************)
EXTENDS Disks, TLC

CONSTANTS user, machine, clone, d1, d2, m1, c1, c2, n3

MCKind == [p \in Plans |-> IF p = "move and keep" THEN "move" ELSE p]
MCOriginal == (machine :> <<d1, d2, NoVolume>>) @@ (clone :> Undefined)
MCMachine == [p \in Plans |-> machine]
MCNewMachine == [p \in Plans |-> IF p = "clone" THEN clone ELSE machine]
MCChosen ==
  [p \in Plans |-> CASE p \in {"grow", "move", "move and keep"} -> {1}
                     [] p \in {"clone", "remove"} -> {1, 2}
                     [] OTHER -> {3}]
MCNewVolume ==
  [p \in Plans |-> CASE p = "clone" -> <<c1, c2, n3>>
                     [] OTHER -> <<m1, c2, n3>>]
MCResourceIDs ==
  [p \in Plans |-> Volumes \cup (IF p = "clone" THEN {machine, clone} ELSE {machine})]
MCSteps == [p \in Plans |-> 1]
MCTurns == [p \in Plans |-> 1..2]
MCAuthor == [p \in Plans |-> user]
MCPlanSets ==
  {{"grow", "move"}, {"grow", "clone"}, {"move", "remove"}, {"move", "clone"},
   {"clone", "remove"}, {"add", "keep"}, {"add", "delete"}, {"add", "accept"},
   {"add", "remove"}, {"grow", "add"}, {"move and keep", "remove"}}

=============================================================================
