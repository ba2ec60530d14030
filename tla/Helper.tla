------------------------------- MODULE Helper -------------------------------
(***************************************************************************)
(* The privileged helper (internal/helper): a root process that answers    *)
(* one connection at a time.  A call goes on when the coordinator that     *)
(* made it has given up or died; its answer is then lost.  The helper may  *)
(* die at any point, since systemd starts it anew for the next connection. *)
(*                                                                         *)
(* Only the calls that change something are here.  Those that just look    *)
(* wait for the helper to be free and are part of the step that asks.      *)
(***************************************************************************)
EXTENDS Handlers

CONSTANT NoCall  \* the helper waits for a connection

VARIABLE call    \* the call it works on: for which job, how far, which item

\* seen: what the call found on the host and has changed there since.
Call == [job : Jobs, at : STRING, i : Nat, seen : SUBSET Nat]

ASSUME NoCall \notin Call

HelperInit == call = NoCall

HelperFree == call = NoCall
Proceeds(at) == call' = [call EXCEPT !.at = at]

\* The coordinator sends the request and waits.
Asks(j) ==
  /\ HelperFree
  /\ call' = [job |-> j, at |-> "received", i |-> 1, seen |-> {}]
  /\ Go(j, "asked")

\* The connection is closed; whoever still waits has the answer.
Answers ==
  /\ call' = NoCall
  /\ IF In(call.job, "asked") THEN Go(call.job, "ok") ELSE UNCHANGED work

\* The call fails, or the helper dies; who waits reads an error.
Breaks ==
  /\ ~HelperFree
  /\ call' = NoCall
  /\ IF In(call.job, "asked") THEN Go(call.job, "error") ELSE UNCHANGED work
=============================================================================
