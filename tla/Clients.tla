------------------------------- MODULE Clients -------------------------------
(***************************************************************************)
(* The two clients of the coordinator that outlive one answer: the command *)
(* line following a job (Follower, over Engine) and the terminal workspace *)
(* setting up a VM (Workspace).  They share nothing but the coordinator,   *)
(* which keeps them apart by key and by job: a behaviour has one of them.  *)
(***************************************************************************)
EXTENDS Follower, Workspace

VARIABLE client
clientVars == <<client, followVars, workspaceVars>>

ClientsInit ==
  /\ client \in {"command line", "workspace"}
  /\ FollowerInit /\ WorkspaceInit

ClientsNext ==
  /\ UNCHANGED client
  /\ \/ client = "command line" /\ FollowerNext /\ UNCHANGED workspaceVars
     \/ client = "workspace" /\ WorkspaceNext /\ UNCHANGED followVars

\* The command line goes on and its calls return.
ClientsFairSpec ==
  /\ ClientsInit /\ [][ClientsNext]_clientVars
  /\ WF_followVars(FollowStep)
=============================================================================
