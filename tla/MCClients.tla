----------------------------- MODULE MCClients ------------------------------
(***************************************************************************)
(* One job of two steps and a follower with pages of two events: it reads  *)
(* the rows of one job.  A workspace with two VM settings, of which one    *)
(* starts the VM; both remove the prepared copy.                           *)
(***************************************************************************)
EXTENDS Clients

CONSTANTS plan, user, disk

MCResourceIDs == [p \in Plans |-> {disk}]
MCSteps == [p \in Plans |-> 2]
MCAuthor == [p \in Plans |-> user]
=============================================================================
