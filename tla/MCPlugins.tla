------------------------------ MODULE MCPlugins ------------------------------
(***************************************************************************)
(* One plugin whose version v1 is installed and enabled; plans that switch *)
(* it off and on, upgrade it to v2 with or without grants, and call v1.    *)
(***************************************************************************)
EXTENDS Plugins, TLC

CONSTANTS v1, v2, user

MCInherited ==
  [active |-> v1, previous |-> NoVersion, enabled |-> TRUE, removed |-> FALSE,
   versions |-> {v1}, granted |-> {v1}, last |-> NoPlan]

\* A plan is named for what it does.
MCAction == [p \in Plans |-> p]
MCTarget == [p \in Plans |-> CASE p = "call" -> v1 [] p \in Fresh -> v2 [] OTHER -> NoVersion]
MCResourceIDs == [p \in Plans |-> IF p = "call" THEN {v1} ELSE {Lifecycle}]
MCSteps == [p \in Plans |-> 1]
MCAuthor == [p \in Plans |-> user]

Interchangeable == Permutations(Jobs) \cup Permutations(Keys)
=============================================================================
