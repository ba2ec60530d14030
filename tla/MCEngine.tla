------------------------------ MODULE MCEngine ------------------------------
(***************************************************************************)
(* Small instances of the engine.  "one" touches a single resource in one  *)
(* step; "many" needs both resources and has two steps; "keeping" retains  *)
(* the effects of its first step; "repair" recovers any of them.           *)
(***************************************************************************)
EXTENDS EngineLease, TLC

CONSTANTS one, many, keeping, repair, r1, r2, user

MCResourceIDs ==
  one :> {r1} @@ many :> {r1, r2} @@ keeping :> {r2} @@ repair :> {r1, r2}
MCSteps == one :> 1 @@ many :> 2 @@ keeping :> 2 @@ repair :> 1
MCAuthor == [p \in {one, many, keeping, repair} |-> user]

\* The same with the plans of the smaller instances only.
FewResourceIDs == keeping :> {r1} @@ repair :> {r1}
FewSteps == keeping :> 2 @@ repair :> 1
FewAuthor == [p \in {keeping, repair} |-> user]

Interchangeable == Permutations(Jobs) \cup Permutations(Keys)
=============================================================================
