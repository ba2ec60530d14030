----------------------------- MODULE MCCreation -----------------------------
(***************************************************************************)
(* Creations of two volumes from one preparation, which "make" hands over  *)
(* and "copy" does not, and a plan of every kind that recovers one.        *)
(***************************************************************************)
EXTENDS Creation, TLC

CONSTANTS user, machine, other, files

MCAction == [p \in Plans |-> IF p \in {"make", "copy"} THEN "create" ELSE p]
MCResourceIDs ==
  [p \in Plans |-> CASE p = "delete" -> {machine, files}
                     [] p = "copy" -> {other}
                     [] OTHER -> {machine}]
MCSteps == [p \in Plans |-> 1]
MCAuthor == [p \in Plans |-> user]

Interchangeable == Permutations(Jobs) \cup Permutations(Keys)
=============================================================================
