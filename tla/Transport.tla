----------------------------- MODULE Transport -----------------------------
(***************************************************************************)
(* The coordinator's socket server (internal/transport/local) and its      *)
(* shutdown (cmd/virmilld).  One goroutine serves each connection, reading *)
(* a request, calling the service and writing the reply in turn.  Reads of *)
(* appliances are heavy: one at a time, under a context that a watcher     *)
(* cancels when the client hangs up.  Close may run twice, from the signal *)
(* goroutine and, once Serve has returned, deferred by main.               *)
(*                                                                         *)
(* Frames, peer credentials and what the service computes are abstracted:  *)
(* a request is heavy or light, a service call ends when it likes, a heavy *)
(* one for sure once its context is canceled.                              *)
(***************************************************************************)
EXTENDS Naturals, FiniteSets

CONSTANTS
  Conns,   \* connections that may exist at a time
  Slots,   \* how many of them are served: 32 in the code
  NoConn   \* no connection

ASSUME SlotsAreCounted == Slots \in Nat \ {0}
ASSUME NoConnIsNone == NoConn \notin Conns

VARIABLES
  client,      \* the client's end of each connection
  inbox,       \* the request sent on it that nobody has read
  handler,     \* the goroutine that serves it
  connections, \* Server.connections, what Close will close
  slots,       \* tokens in the channel of Serve
  heavyReads,  \* the connection whose heavy read holds the token, or NoConn
  canceled,    \* heavy reads whose context is canceled
  ctx,         \* whether the server's context is live
  listening,   \* whether the listener is open
  serve,       \* the loop of Serve and the connection it is about to admit
  closer,      \* the two calls of Close: by "signal" and "deferred"
  process      \* "serving", "tearing-down" (Close has returned to main), "exited"

vars == <<client, inbox, handler, connections, slots, heavyReads, canceled, ctx, listening,
          serve, closer, process>>

Closers == {"signal", "deferred"}
Serving == {"reading", "light", "heavy", "called", "replying", "ending"}
Leaving == {"unregistering", "hanging up", "finished"}

TypeOK ==
  /\ client \in [Conns -> {"none", "backlog", "idle", "waiting", "gone", "cut"}]
  /\ inbox \in [Conns -> {"empty", "light", "heavy"}]
  /\ handler \in [Conns -> {"none"} \cup Serving \cup Leaving]
  /\ connections \subseteq Conns
  /\ slots \in Nat
  /\ heavyReads \in Conns \cup {NoConn}
  /\ canceled \subseteq Conns
  /\ ctx \in BOOLEAN /\ listening \in BOOLEAN
  /\ serve \in [pc : {"accept", "admit", "spawn", "returned"}, conn : Conns \cup {NoConn}]
  /\ closer \in [Closers -> {"idle", "canceled", "unlistened", "swept", "done"}]
  /\ process \in {"serving", "tearing-down", "exited"}

Init ==
  /\ client = [c \in Conns |-> "none"]
  /\ inbox = [c \in Conns |-> "empty"]
  /\ handler = [c \in Conns |-> "none"]
  /\ connections = {} /\ slots = 0
  /\ heavyReads = NoConn /\ canceled = {}
  /\ ctx = TRUE /\ listening = TRUE
  /\ serve = [pc |-> "accept", conn |-> NoConn]
  /\ closer = [k \in Closers |-> "idle"]
  /\ process = "serving"

server == <<inbox, handler, connections, slots, heavyReads, canceled>>
daemon == <<ctx, listening, serve, closer, process>>

\* The server's end was closed: the client sees the end of the stream.
Cut(S) ==
  [c \in Conns |-> IF c \in S /\ client[c] \in {"idle", "waiting"} THEN "cut" ELSE client[c]]
Broken(c) == client[c] \in {"gone", "cut"}

-----------------------------------------------------------------------------
(* Clients: dial, send one request at a time, hang up at any moment. *)

Dial(c) ==
  /\ listening /\ client[c] = "none"
  /\ client' = [client EXCEPT ![c] = "backlog"]
  /\ UNCHANGED <<server, daemon>>

Send(c) ==
  /\ client[c] = "idle"
  /\ client' = [client EXCEPT ![c] = "waiting"]
  /\ \E kind \in {"light", "heavy"} : inbox' = [inbox EXCEPT ![c] = kind]
  /\ UNCHANGED <<handler, connections, slots, heavyReads, canceled, daemon>>

HangUp(c) ==
  /\ client[c] \in {"idle", "waiting"}
  /\ client' = [client EXCEPT ![c] = "gone"]
  /\ UNCHANGED <<server, daemon>>

\* A connection both ends of which are closed may be dialed anew.
Forget(c) ==
  /\ Broken(c) /\ handler[c] = "none" /\ serve.conn # c
  /\ client' = [client EXCEPT ![c] = "none"]
  /\ inbox' = [inbox EXCEPT ![c] = "empty"]
  /\ UNCHANGED <<handler, connections, slots, heavyReads, canceled, daemon>>

-----------------------------------------------------------------------------
(* Server.Serve *)

AcceptUnix(c) ==
  /\ serve.pc = "accept" /\ listening /\ process = "serving"
  /\ client[c] = "backlog"
  /\ client' = [client EXCEPT ![c] = "idle"]
  /\ serve' = [pc |-> "admit", conn |-> c]
  /\ UNCHANGED <<server, ctx, listening, closer, process>>

\* The listener was closed, or accepting failed for good.
AcceptFails ==
  /\ serve.pc = "accept" /\ process = "serving"
  /\ serve' = [pc |-> "returned", conn |-> NoConn]
  /\ UNCHANGED <<client, server, ctx, listening, closer, process>>

Admit ==
  LET c == serve.conn IN
  /\ serve.pc = "admit" /\ process = "serving"
  /\ slots < Slots
  /\ slots' = slots + 1
  /\ connections' = connections \cup {c}
  /\ serve' = [serve EXCEPT !.pc = "spawn"]
  /\ UNCHANGED <<client, inbox, handler, heavyReads, canceled, ctx, listening, closer, process>>

\* Mutant of Refuse: the connection is dropped without closing it.
RefuseSilently ==
  /\ serve.pc = "admit" /\ process = "serving"
  /\ slots >= Slots
  /\ serve' = [pc |-> "accept", conn |-> NoConn]
  /\ UNCHANGED <<client, server, ctx, listening, closer, process>>

Refuse ==
  LET c == serve.conn IN
  /\ serve.pc = "admit" /\ process = "serving"
  /\ slots >= Slots
  /\ client' = Cut({c})
  /\ serve' = [pc |-> "accept", conn |-> NoConn]
  /\ UNCHANGED <<server, ctx, listening, closer, process>>

Spawn ==
  /\ serve.pc = "spawn" /\ process = "serving"
  /\ handler' = [handler EXCEPT ![serve.conn] = "reading"]
  /\ serve' = [pc |-> "accept", conn |-> NoConn]
  /\ UNCHANGED <<client, inbox, connections, slots, heavyReads, canceled, ctx, listening, closer,
                 process>>

-----------------------------------------------------------------------------
(* The goroutine of a connection. *)

Go(c, from, to) ==
  /\ handler[c] = from /\ process # "exited"
  /\ handler' = [handler EXCEPT ![c] = to]

\* What a client sent before it hung up is still read and answered.
ReadRequest(c) ==
  /\ inbox[c] # "empty" /\ client[c] # "cut"
  /\ Go(c, "reading", inbox[c])
  /\ inbox' = [inbox EXCEPT ![c] = "empty"]
  /\ UNCHANGED <<client, connections, slots, heavyReads, canceled, daemon>>

StreamEnds(c) ==
  /\ client[c] = "cut" \/ (client[c] = "gone" /\ inbox[c] = "empty")
  /\ Go(c, "reading", "ending")
  /\ UNCHANGED <<client, inbox, connections, slots, heavyReads, canceled, daemon>>

\* Nothing came for five minutes.
IdleTimeout(c) ==
  /\ client[c] = "idle"
  /\ Go(c, "reading", "ending")
  /\ UNCHANGED <<client, inbox, connections, slots, heavyReads, canceled, daemon>>

LightCallReturns(c) ==
  /\ Go(c, "light", "replying")
  /\ UNCHANGED <<client, inbox, connections, slots, heavyReads, canceled, daemon>>

\* The token, or RESOURCE_BUSY.
HeavyCall(c) ==
  /\ heavyReads # c
  /\ IF heavyReads = NoConn
       THEN heavyReads' = c /\ Go(c, "heavy", "heavy")
       ELSE UNCHANGED heavyReads /\ Go(c, "heavy", "replying")
  /\ UNCHANGED <<client, inbox, connections, slots, canceled, daemon>>

\* Mutant of CancelRead: nobody watches the client or the clock.
CancelReadAtShutdown(c) ==
  /\ heavyReads = c /\ handler[c] = "heavy" /\ c \notin canceled
  /\ process # "exited" /\ ~ctx
  /\ canceled' = canceled \cup {c}
  /\ UNCHANGED <<client, inbox, handler, connections, slots, heavyReads, daemon>>

\* The watcher sees the client hang up, or the context of the server ends, or
\* twenty minutes are over.
CancelRead(c) ==
  /\ heavyReads = c /\ handler[c] = "heavy" /\ c \notin canceled
  /\ process # "exited"
  /\ canceled' = canceled \cup {c}
  /\ UNCHANGED <<client, inbox, handler, connections, slots, heavyReads, daemon>>

HeavyCallReturns(c) ==
  /\ heavyReads = c
  /\ Go(c, "heavy", "called")
  /\ UNCHANGED <<client, inbox, connections, slots, heavyReads, canceled, daemon>>

\* Mutant of ReleaseRead: cleanup is forgotten on the way of a canceled call.
ReleaseReadUnlessCanceled(c) ==
  /\ Go(c, "called", "replying")
  /\ heavyReads' = IF c \in canceled THEN c ELSE NoConn
  /\ canceled' = canceled \ {c}
  /\ UNCHANGED <<client, inbox, connections, slots, daemon>>

\* cleanup cancels the context and waits for the watcher, then the token returns.
ReleaseRead(c) ==
  /\ Go(c, "called", "replying")
  /\ heavyReads' = NoConn
  /\ canceled' = canceled \ {c}
  /\ UNCHANGED <<client, inbox, connections, slots, daemon>>

Reply(c) ==
  /\ client[c] = "waiting"
  /\ Go(c, "replying", "reading")
  /\ client' = [client EXCEPT ![c] = "idle"]
  /\ UNCHANGED <<inbox, connections, slots, heavyReads, canceled, daemon>>

\* The write fails: a client that hung up, a connection that Close has closed.
ReplyFails(c) ==
  /\ Broken(c)
  /\ Go(c, "replying", "ending")
  /\ UNCHANGED <<client, inbox, connections, slots, heavyReads, canceled, daemon>>

\* Mutant of ReleaseSlot: the slot is released by those only that had a request.
ReleaseSlotOnceAsked(c) ==
  /\ Go(c, "ending", "unregistering")
  /\ slots' = IF client[c] = "idle" THEN slots ELSE slots - 1
  /\ UNCHANGED <<client, inbox, connections, heavyReads, canceled, daemon>>

\* The deferred calls.  The next connection may be admitted from here on.
ReleaseSlot(c) ==
  /\ Go(c, "ending", "unregistering")
  /\ slots' = slots - 1
  /\ UNCHANGED <<client, inbox, connections, heavyReads, canceled, daemon>>

\* Close no longer finds the connection.
Unregister(c) ==
  /\ Go(c, "unregistering", "hanging up")
  /\ connections' = connections \ {c}
  /\ UNCHANGED <<client, inbox, slots, heavyReads, canceled, daemon>>

CloseConnection(c) ==
  /\ Go(c, "hanging up", "finished")
  /\ client' = Cut({c})
  /\ UNCHANGED <<inbox, connections, slots, heavyReads, canceled, daemon>>

\* wg.Done
Done(c) ==
  /\ Go(c, "finished", "none")
  /\ UNCHANGED <<client, inbox, connections, slots, heavyReads, canceled, daemon>>

-----------------------------------------------------------------------------
(* Server.Close, called by k *)

CloseStep(k, from, to) ==
  /\ closer[k] = from /\ process # "exited"
  /\ closer' = [closer EXCEPT ![k] = to]

\* A signal arrives at any time, main's deferred call once Serve has returned.
StartClose(k) ==
  /\ k = "deferred" => serve.pc = "returned"
  /\ CloseStep(k, "idle", "canceled")
  /\ ctx' = FALSE
  /\ UNCHANGED <<client, server, listening, serve, process>>

CloseListener(k) ==
  /\ CloseStep(k, "canceled", "unlistened")
  /\ listening' = FALSE
  /\ client' = [c \in Conns |-> IF client[c] = "backlog" THEN "none" ELSE client[c]]
  /\ UNCHANGED <<server, ctx, serve, process>>

\* Mutant of Sweep: a connection without a request is left open.
SweepBusy(k) ==
  /\ CloseStep(k, "unlistened", "swept")
  /\ client' = Cut({c \in connections : handler[c] # "reading"})
  /\ UNCHANGED <<server, ctx, listening, serve, process>>

Sweep(k) ==
  /\ CloseStep(k, "unlistened", "swept")
  /\ client' = Cut(connections)
  /\ UNCHANGED <<server, ctx, listening, serve, process>>

Goroutines == {c \in Conns : handler[c] # "none"}

\* Mutant of AwaitGoroutines: Close does not wait.
AwaitNothing(k) ==
  /\ CloseStep(k, "swept", "done")
  /\ process' = IF k = "deferred" THEN "tearing-down" ELSE process
  /\ UNCHANGED <<client, server, ctx, listening, serve>>

\* wg.Wait; the deferred call then lets main close the engine and the journal.
AwaitGoroutines(k) ==
  /\ Goroutines = {}
  /\ CloseStep(k, "swept", "done")
  /\ process' = IF k = "deferred" THEN "tearing-down" ELSE process
  /\ UNCHANGED <<client, server, ctx, listening, serve>>

Exit ==
  /\ process = "tearing-down"
  /\ process' = "exited"
  /\ client' = Cut(Conns)
  /\ UNCHANGED <<server, ctx, listening, serve, closer>>

-----------------------------------------------------------------------------

Handle(c) ==
  \/ ReadRequest(c) \/ StreamEnds(c) \/ LightCallReturns(c) \/ HeavyCall(c)
  \/ HeavyCallReturns(c) \/ ReleaseRead(c) \/ Reply(c) \/ ReplyFails(c)
  \/ ReleaseSlot(c) \/ Unregister(c) \/ CloseConnection(c) \/ Done(c)

Close(k) == CloseListener(k) \/ Sweep(k) \/ AwaitGoroutines(k)

Stopped == process = "exited" /\ UNCHANGED vars

Next ==
  \/ \E c \in Conns : Dial(c) \/ Send(c) \/ HangUp(c) \/ Forget(c)
  \/ \E c \in Conns : AcceptUnix(c) \/ Handle(c) \/ IdleTimeout(c) \/ CancelRead(c)
  \/ AcceptFails \/ Admit \/ Refuse \/ Spawn
  \/ \E k \in Closers : StartClose(k) \/ Close(k)
  \/ Exit \/ Stopped

Spec == Init /\ [][Next]_vars
-----------------------------------------------------------------------------
(* What must hold. *)

\* The connection that got a slot before its goroutine is started.
Admitted == IF serve.pc = "spawn" THEN {serve.conn} ELSE {}
WithSlot == {c \in Conns : handler[c] \in Serving} \cup Admitted

\* Slots and registered connections account for the running goroutines exactly:
\* no connection leaks its slot, and Close misses none that has not begun to close
\* itself.  More may be registered than there are slots, since a goroutine gives
\* back its slot first (Serve, Close).
SlotsAreAccounted ==
  /\ slots = Cardinality(WithSlot) /\ slots <= Slots
  /\ connections = WithSlot \cup {c \in Conns : handler[c] = "unregistering"}

\* The token of the heavy reads is with a goroutine that is still inside such a
\* read: a busy answer is true, and nobody forgets to return it (Server.call).
TokenIsInUse ==
  /\ heavyReads # NoConn => handler[heavyReads] \in {"heavy", "called"}
  /\ \A c \in Conns : handler[c] = "called" => heavyReads = c

\* Both limits of the server: neither a slot nor the token is lost or doubled.
LimitsAreAccounted == SlotsAreAccounted /\ TokenIsInUse

\* Main closes the engine and the journal only after the last request ended, also
\* those of connections accepted while a signal was closing the server (run).
TeardownIsQuiet ==
  process # "serving" => Goroutines = {} /\ serve.pc = "returned"

-----------------------------------------------------------------------------
(* Progress.  The scheduler is fair to every goroutine, light calls return and *)
(* heavy ones do once canceled, which their time limit ensures; no client has  *)
(* to do anything and no read deadline has to pass.                            *)

Fairness ==
  /\ \A c \in Conns :
       /\ WF_vars(AcceptUnix(c)) /\ WF_vars(CancelRead(c))
       /\ WF_vars(Handle(c) /\ (handler[c] = "heavy" /\ heavyReads = c => c \in canceled))
  /\ WF_vars(AcceptFails /\ ~listening) /\ WF_vars(Admit) /\ WF_vars(Refuse) /\ WF_vars(Spawn)
  /\ WF_vars(StartClose("deferred")) /\ \A k \in Closers : WF_vars(Close(k))
  /\ WF_vars(Exit)

FairSpec == Spec /\ Fairness

\* A client that sent a request gets its answer or the end of the stream.
RequestsEnd == \A c \in Conns : client[c] = "waiting" ~> client[c] # "waiting"

\* No heavy read blocks the others for ever, whatever its client does.
HeavyReadsEnd == \A c \in Conns : heavyReads = c ~> heavyReads # c

\* Nobody waits for the server, or for the token, for ever.
CallsEnd == RequestsEnd /\ HeavyReadsEnd

\* Once the server is being closed, the process ends, even if a connection was
\* accepted too late for the first sweep and its client stays (Close, run).
ShutdownEnds == ~ctx ~> process = "exited"
=============================================================================
