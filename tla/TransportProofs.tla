-------------------------- MODULE TransportProofs --------------------------
(***************************************************************************)
(* The socket server loses no slot and no token, and main tears the        *)
(* process down in silence: for any connections, however many, and any     *)
(* number of slots.                                                        *)
(***************************************************************************)
EXTENDS Transport, FiniteSetTheorems, TLAPS

-----------------------------------------------------------------------------
(* The inductive invariant.  That slots count the goroutines needs that the  *)
(* connection the loop is about to admit is not served yet, hence that one   *)
(* nobody has accepted, or that was forgotten, has no goroutine.             *)

AdmitsOneAtATime ==
  IF serve.pc \in {"admit", "spawn"}
    THEN serve.conn \in Conns /\ handler[serve.conn] = "none"
    ELSE serve.conn = NoConn

NewOnesAreUnserved ==
  \A c \in Conns : client[c] \in {"none", "backlog"} => handler[c] = "none" /\ serve.conn # c

LimitsInv ==
  /\ TypeOK
  /\ AdmitsOneAtATime /\ NewOnesAreUnserved
  /\ IsFiniteSet(WithSlot) /\ LimitsAreAccounted

\* Those that are still registered although they gave back their slot.
Lingering == {c \in Conns : handler[c] = "unregistering"}

LEMMA InitLimits == Init => LimitsInv
<1> SUFFICES ASSUME Init
             PROVE  LimitsInv
  OBVIOUS
<1> USE DEF Init
<1>1. TypeOK
  BY DEF TypeOK, Closers, Serving
<1>2. AdmitsOneAtATime /\ NewOnesAreUnserved
  BY NoConnIsNone DEF AdmitsOneAtATime, NewOnesAreUnserved
<1>3. WithSlot = {} /\ Lingering = {}
  BY DEF WithSlot, Admitted, Serving, Lingering
<1>4. IsFiniteSet(WithSlot) /\ SlotsAreAccounted
  BY <1>3, FS_EmptySet, SlotsAreCounted DEF SlotsAreAccounted, Lingering
<1>5. TokenIsInUse
  BY DEF TokenIsInUse
<1> QED
  BY <1>1, <1>2, <1>4, <1>5 DEF LimitsInv, LimitsAreAccounted

-----------------------------------------------------------------------------
(* Steps by what they do to the goroutines. *)

\* Clients, both calls of Close and the end of the process leave the server alone.
Outside ==
  \/ \E c \in Conns : Dial(c) \/ Send(c) \/ HangUp(c) \/ Forget(c)
  \/ \E k \in Closers : StartClose(k) \/ Close(k)
  \/ Exit

\* A goroutine goes on, and keeps its slot.
Moves(c) ==
  \/ ReadRequest(c) \/ StreamEnds(c) \/ IdleTimeout(c) \/ LightCallReturns(c) \/ HeavyCall(c)
  \/ HeavyCallReturns(c) \/ ReleaseRead(c) \/ Reply(c) \/ ReplyFails(c)

\* One without a slot goes on to its end.
Leaves(c) == Unregister(c) \/ CloseConnection(c) \/ Done(c)

LEMMA StepKinds ==
  Next => \/ Outside
          \/ \E c \in Conns : Moves(c) \/ ReleaseSlot(c) \/ Leaves(c) \/ CancelRead(c) \/ AcceptUnix(c)
          \/ AcceptFails \/ Admit \/ Refuse \/ Spawn
          \/ UNCHANGED vars
BY DEF Next, Outside, Moves, Leaves, Handle, Stopped

LEMMA OutsideKeeps ==
  ASSUME LimitsInv, Outside
  PROVE  LimitsInv'
<1> USE DEF LimitsInv
<1>1. UNCHANGED <<handler, connections, slots, heavyReads, canceled, serve>>
  BY DEF Outside, Dial, Send, HangUp, Forget, StartClose, Close, CloseListener, Sweep,
         AwaitGoroutines, Exit, server, daemon
<1>2. TypeOK'
  <2>1. CASE \E c \in Conns : Dial(c) \/ Send(c) \/ HangUp(c) \/ Forget(c)
    BY <2>1 DEF TypeOK, Dial, Send, HangUp, Forget, server, daemon
  <2>2. CASE \E k \in Closers : StartClose(k) \/ Close(k)
    <3> PICK k \in Closers : StartClose(k) \/ Close(k)
      BY <2>2
    <3>1. client' \in [Conns -> {"none", "backlog", "idle", "waiting", "gone", "cut"}]
      BY DEF TypeOK, StartClose, Close, CloseListener, Sweep, AwaitGoroutines, Cut
    <3>2. closer' \in [Closers -> {"idle", "canceled", "unlistened", "swept", "done"}]
      BY DEF TypeOK, StartClose, Close, CloseListener, Sweep, AwaitGoroutines, CloseStep
    <3>3. ctx' \in BOOLEAN /\ listening' \in BOOLEAN /\ process' \in {"serving", "tearing-down", "exited"}
      BY DEF TypeOK, StartClose, Close, CloseListener, Sweep, AwaitGoroutines
    <3>4. inbox' = inbox
      BY DEF StartClose, Close, CloseListener, Sweep, AwaitGoroutines, server
    <3> QED
      BY <1>1, <3>1, <3>2, <3>3, <3>4 DEF TypeOK
  <2>3. CASE Exit
    BY <2>3 DEF TypeOK, Exit, Cut, server
  <2> QED
    BY <2>1, <2>2, <2>3 DEF Outside
<1>3. NewOnesAreUnserved'
  <2> SUFFICES ASSUME NEW c \in Conns, client'[c] \in {"none", "backlog"}
               PROVE  handler[c] = "none" /\ serve.conn # c
    BY <1>1 DEF NewOnesAreUnserved
  <2>1. client[c] \in {"none", "backlog"} \/ Forget(c)
    BY DEF TypeOK, Outside, Dial, Send, HangUp, Forget, StartClose, Close, CloseListener, Sweep,
           AwaitGoroutines, Exit, Cut
  <2> QED
    BY <2>1 DEF NewOnesAreUnserved, Forget
<1>4. AdmitsOneAtATime' /\ IsFiniteSet(WithSlot)' /\ LimitsAreAccounted'
  BY <1>1 DEF AdmitsOneAtATime, WithSlot, Admitted, LimitsAreAccounted, SlotsAreAccounted, TokenIsInUse
<1> QED
  BY <1>2, <1>3, <1>4

LEMMA MovesKeep ==
  ASSUME LimitsInv, NEW c \in Conns, Moves(c)
  PROVE  LimitsInv'
<1> USE DEF LimitsInv
<1> USE DEF Moves, ReadRequest, StreamEnds, IdleTimeout, LightCallReturns, HeavyCall,
            HeavyCallReturns, ReleaseRead, Reply, ReplyFails, Go, daemon
<1>1. PICK to \in Serving : handler[c] \in Serving /\ handler' = [handler EXCEPT ![c] = to]
  BY DEF TypeOK, Serving
<1>2. UNCHANGED <<connections, slots, serve>>
  OBVIOUS
<1>3. TypeOK'
  BY <1>1, <1>2 DEF TypeOK
<1>4. \A d \in Conns : client'[d] \in {"none", "backlog"} => client[d] \in {"none", "backlog"} /\ d # c
  BY <1>1 DEF TypeOK, NewOnesAreUnserved, Serving
<1>5. NewOnesAreUnserved' /\ AdmitsOneAtATime'
  BY <1>1, <1>2, <1>4 DEF TypeOK, NewOnesAreUnserved, AdmitsOneAtATime, Serving
<1>6. Lingering' = Lingering
  BY <1>1 DEF Lingering, TypeOK, Serving
<1>7. WithSlot' = WithSlot
  BY <1>1, <1>2 DEF WithSlot, Admitted, TypeOK
<1>8. IsFiniteSet(WithSlot)' /\ SlotsAreAccounted'
  BY <1>2, <1>6, <1>7 DEF LimitsAreAccounted, SlotsAreAccounted, Lingering
<1>9. TokenIsInUse'
  <2> TokenIsInUse
    BY DEF LimitsAreAccounted
  <2>1. CASE handler[c] = "heavy" /\ heavyReads = NoConn
    BY <1>1, <2>1, NoConnIsNone DEF TokenIsInUse, TypeOK
  <2>2. CASE handler[c] = "called"
    BY <1>1, <2>2, NoConnIsNone DEF TokenIsInUse, TypeOK
  <2>3. CASE handler[c] \notin {"heavy", "called"}
    <3>1. to # "called" /\ heavyReads # c /\ UNCHANGED heavyReads
      BY <1>1, <2>3, NoConnIsNone DEF TokenIsInUse, TypeOK
    <3> QED
      BY <1>1, <2>3, <3>1 DEF TokenIsInUse, TypeOK
  <2>4. CASE handler[c] = "heavy" /\ heavyReads # NoConn
    <3>1. /\ UNCHANGED heavyReads
          /\ \/ heavyReads = c /\ to = "called"
             \/ heavyReads # c /\ to = "replying"
      BY <1>1, <2>4 DEF TypeOK
    <3> QED
      BY <1>1, <2>4, <3>1 DEF TokenIsInUse, TypeOK
  <2> QED
    BY <2>1, <2>2, <2>3, <2>4
<1> QED
  BY <1>3, <1>5, <1>8, <1>9 DEF LimitsAreAccounted

\* A goroutine that ends gives back its slot, and no other.
LEMMA ReleaseKeeps ==
  ASSUME LimitsInv, NEW c \in Conns, ReleaseSlot(c)
  PROVE  LimitsInv'
<1> USE DEF LimitsInv
<1>1. /\ handler[c] = "ending" /\ handler' = [handler EXCEPT ![c] = "unregistering"]
      /\ slots' = slots - 1
      /\ UNCHANGED <<client, inbox, connections, heavyReads, canceled, serve>>
  BY DEF ReleaseSlot, Go, daemon
<1>2. c \in WithSlot /\ serve.conn # c
  BY <1>1, NoConnIsNone DEF WithSlot, Serving, AdmitsOneAtATime
<1>3. WithSlot' = WithSlot \ {c} /\ Lingering' = Lingering \cup {c}
  BY <1>1, <1>2 DEF WithSlot, Admitted, Lingering, Serving, TypeOK
<1>4. IsFiniteSet(WithSlot') /\ Cardinality(WithSlot') = Cardinality(WithSlot) - 1
  BY <1>2, <1>3, FS_RemoveElement
<1>5. Cardinality(WithSlot') \in Nat
  BY <1>4, FS_CardinalityType
<1>6. SlotsAreAccounted'
  <2>1. slots = Cardinality(WithSlot) /\ slots <= Slots /\ connections = WithSlot \cup Lingering
    BY DEF LimitsAreAccounted, SlotsAreAccounted, Lingering
  <2>2. connections' = WithSlot' \cup Lingering'
    BY <1>1, <1>2, <1>3, <2>1
  <2>3. slots' = Cardinality(WithSlot') /\ slots' <= Slots
    BY <1>1, <1>4, <1>5, <2>1, SlotsAreCounted, FS_CardinalityType
  <2> QED
    BY <2>2, <2>3 DEF SlotsAreAccounted, Lingering
<1>7. TypeOK'
  <2>1. slots' \in Nat
    BY <1>5, <1>6 DEF SlotsAreAccounted
  <2> QED
    BY <1>1, <2>1 DEF TypeOK, ReleaseSlot, daemon, Leaving
<1>8. AdmitsOneAtATime' /\ NewOnesAreUnserved'
  BY <1>1, <1>2 DEF AdmitsOneAtATime, NewOnesAreUnserved, TypeOK
<1>9. TokenIsInUse'
  BY <1>1 DEF LimitsAreAccounted, TokenIsInUse, TypeOK
<1> QED
  BY <1>4, <1>6, <1>7, <1>8, <1>9 DEF LimitsAreAccounted

\* What it does afterwards concerns its registration only.
LEMMA LeavesKeep ==
  ASSUME LimitsInv, NEW c \in Conns, Leaves(c)
  PROVE  LimitsInv'
<1> USE DEF LimitsInv
<1>1. /\ UNCHANGED <<inbox, slots, heavyReads, canceled, serve, ctx, listening, closer, process>>
      /\ client' \in {client, Cut({c})}
  BY DEF Leaves, Unregister, CloseConnection, Done, daemon
<1>2. PICK to \in {"none"} \cup Leaving : /\ handler[c] \in Leaving /\ to # "unregistering"
                                       /\ handler' = [handler EXCEPT ![c] = to]
  BY DEF Leaves, Unregister, CloseConnection, Done, Go, Leaving
<1>3. connections' = IF handler[c] = "unregistering" THEN connections \ {c} ELSE connections
  BY DEF Leaves, Unregister, CloseConnection, Done, Go
<1>4. serve.conn # c
  BY <1>2, NoConnIsNone DEF AdmitsOneAtATime, Leaving
<1>5. WithSlot' = WithSlot /\ c \notin WithSlot
  BY <1>1, <1>2, <1>4 DEF WithSlot, Admitted, Serving, Leaving, TypeOK
<1>6. Lingering' = Lingering \ {c}
  BY <1>2 DEF Lingering, TypeOK
<1>7. SlotsAreAccounted'
  <2>1. slots = Cardinality(WithSlot) /\ slots <= Slots /\ connections = WithSlot \cup Lingering
    BY DEF LimitsAreAccounted, SlotsAreAccounted, Lingering
  <2>2. connections' = WithSlot' \cup Lingering'
    BY <1>3, <1>5, <1>6, <2>1 DEF Lingering
  <2> QED
    BY <1>1, <1>5, <2>1, <2>2 DEF SlotsAreAccounted, Lingering
<1>8. TypeOK'
  BY <1>1, <1>2, <1>3 DEF TypeOK, Cut
<1>9. AdmitsOneAtATime' /\ NewOnesAreUnserved'
  <2>1. \A d \in Conns : client'[d] \in {"none", "backlog"} => client[d] \in {"none", "backlog"}
    BY <1>1 DEF Cut, TypeOK
  <2>2. \A d \in Conns : d # c => handler'[d] = handler[d]
    BY <1>2
  <2>3. handler[c] # "none"
    BY <1>2 DEF Leaving
  <2>4. AdmitsOneAtATime'
    BY <1>1, <1>4, <2>2 DEF AdmitsOneAtATime
  <2>5. NewOnesAreUnserved'
    BY <1>1, <2>1, <2>2, <2>3 DEF NewOnesAreUnserved
  <2> QED
    BY <2>4, <2>5
<1>10. TokenIsInUse'
  BY <1>1, <1>2 DEF LimitsAreAccounted, TokenIsInUse, TypeOK, Leaving
<1> QED
  BY <1>5, <1>7, <1>8, <1>9, <1>10 DEF LimitsAreAccounted

\* The loop of Serve accepts, refuses, or ends.
LEMMA LoopKeeps ==
  ASSUME LimitsInv, (\E c \in Conns : AcceptUnix(c)) \/ AcceptFails \/ Refuse
  PROVE  LimitsInv'
<1> USE DEF LimitsInv, AcceptUnix, AcceptFails, Refuse, server
<1>1. /\ UNCHANGED <<handler, connections, slots, heavyReads>>
      /\ serve.pc # "spawn" /\ serve'.pc # "spawn"
  OBVIOUS
<1>2. TypeOK'
  BY DEF TypeOK, Cut
<1>3. AdmitsOneAtATime' /\ NewOnesAreUnserved'
  BY NoConnIsNone DEF AdmitsOneAtATime, NewOnesAreUnserved, Cut, TypeOK
<1>4. WithSlot' = WithSlot
  BY <1>1 DEF WithSlot, Admitted
<1>5. LimitsAreAccounted' /\ IsFiniteSet(WithSlot)'
  BY <1>1, <1>4 DEF LimitsAreAccounted, SlotsAreAccounted, TokenIsInUse
<1> QED
  BY <1>2, <1>3, <1>5

\* The slot is taken and the connection registered before the goroutine starts.
LEMMA AdmitKeeps ==
  ASSUME LimitsInv, Admit
  PROVE  LimitsInv'
<1> USE DEF LimitsInv
<1>1. /\ serve.pc = "admit" /\ slots < Slots /\ slots' = slots + 1
      /\ connections' = connections \cup {serve.conn}
      /\ UNCHANGED <<client, inbox, handler, heavyReads, canceled>>
      /\ serve' = [serve EXCEPT !.pc = "spawn"]
  BY DEF Admit
<1>2. serve.conn \in Conns /\ handler[serve.conn] = "none"
  BY <1>1 DEF AdmitsOneAtATime
<1>3. /\ serve'.pc = "spawn" /\ serve'.conn = serve.conn
      /\ serve' \in [pc : {"accept", "admit", "spawn", "returned"}, conn : Conns \cup {NoConn}]
  BY <1>1 DEF TypeOK
<1>4. serve.conn \notin WithSlot /\ WithSlot' = WithSlot \cup {serve.conn}
  BY <1>1, <1>2, <1>3 DEF WithSlot, Admitted, Serving
<1>5. IsFiniteSet(WithSlot') /\ Cardinality(WithSlot') = Cardinality(WithSlot) + 1
  BY <1>4, FS_AddElement
<1>6. SlotsAreAccounted'
  <2>1. slots = Cardinality(WithSlot) /\ slots <= Slots /\ connections = WithSlot \cup Lingering
    BY DEF LimitsAreAccounted, SlotsAreAccounted, Lingering
  <2>2. connections' = WithSlot' \cup Lingering'
    BY <1>1, <1>4, <2>1 DEF Lingering
  <2>3. slots' = Cardinality(WithSlot') /\ slots' <= Slots
    BY <1>1, <1>4, <1>5, <2>1, SlotsAreCounted, FS_CardinalityType
  <2> QED
    BY <2>2, <2>3 DEF SlotsAreAccounted, Lingering
<1>7. TypeOK'
  BY <1>1, <1>2, <1>3 DEF TypeOK, Admit
<1>8. AdmitsOneAtATime' /\ NewOnesAreUnserved' /\ TokenIsInUse'
  BY <1>1, <1>2, <1>3 DEF AdmitsOneAtATime, NewOnesAreUnserved, LimitsAreAccounted, TokenIsInUse
<1> QED
  BY <1>5, <1>6, <1>7, <1>8 DEF LimitsAreAccounted

LEMMA SpawnKeeps ==
  ASSUME LimitsInv, Spawn
  PROVE  LimitsInv'
<1> USE DEF LimitsInv
<1>1. /\ serve.pc = "spawn" /\ serve' = [pc |-> "accept", conn |-> NoConn]
      /\ handler' = [handler EXCEPT ![serve.conn] = "reading"]
      /\ UNCHANGED <<client, inbox, connections, slots, heavyReads, canceled>>
  BY DEF Spawn
<1>2. serve.conn \in Conns /\ handler[serve.conn] = "none"
  BY <1>1 DEF AdmitsOneAtATime
<1>3. WithSlot' = WithSlot /\ Lingering' = Lingering
  BY <1>1, <1>2 DEF WithSlot, Admitted, Lingering, Serving, TypeOK
<1>4. IsFiniteSet(WithSlot)' /\ SlotsAreAccounted'
  BY <1>1, <1>3 DEF LimitsAreAccounted, SlotsAreAccounted, Lingering
<1>5. TypeOK'
  BY <1>1, <1>2 DEF TypeOK, Serving, Spawn
<1>6. AdmitsOneAtATime' /\ NewOnesAreUnserved'
  BY <1>1, <1>2, NoConnIsNone DEF AdmitsOneAtATime, NewOnesAreUnserved, TypeOK
<1>7. TokenIsInUse'
  BY <1>1, <1>2 DEF LimitsAreAccounted, TokenIsInUse, TypeOK
<1> QED
  BY <1>4, <1>5, <1>6, <1>7 DEF LimitsAreAccounted

LEMMA CancelKeeps ==
  ASSUME LimitsInv, NEW c \in Conns, CancelRead(c)
  PROVE  LimitsInv'
BY DEF LimitsInv, CancelRead, daemon, TypeOK, AdmitsOneAtATime, NewOnesAreUnserved, WithSlot, Admitted,
       LimitsAreAccounted, SlotsAreAccounted, TokenIsInUse

LEMMA StepLimits == LimitsInv /\ [Next]_vars => LimitsInv'
<1> SUFFICES ASSUME LimitsInv, [Next]_vars
             PROVE  LimitsInv'
  OBVIOUS
<1>1. CASE UNCHANGED vars
  BY <1>1 DEF vars, LimitsInv, TypeOK, AdmitsOneAtATime, NewOnesAreUnserved, WithSlot, Admitted,
              LimitsAreAccounted, SlotsAreAccounted, TokenIsInUse
<1>2. CASE Next
  BY <1>1, <1>2, StepKinds, OutsideKeeps, MovesKeep, ReleaseKeeps, LeavesKeep, LoopKeeps, AdmitKeeps, SpawnKeeps, CancelKeeps
<1> QED
  BY <1>1, <1>2

\* Neither a slot nor the token of the heavy reads is lost, doubled or kept by a
\* goroutine that is gone, on any of the ways a connection ends (Serve, call).
THEOREM LimitsHold == Spec => []LimitsAreAccounted
<1>1. LimitsInv => LimitsAreAccounted
  BY DEF LimitsInv
<1> QED
  BY <1>1, InitLimits, StepLimits, PTL DEF Spec

\* Every variable keeps its type; the count of slots never goes below zero.
THEOREM TransportTypes == Spec => []TypeOK
<1>1. LimitsInv => TypeOK
  BY DEF LimitsInv
<1> QED
  BY <1>1, InitLimits, StepLimits, PTL DEF Spec

-----------------------------------------------------------------------------
(* Teardown.  The deferred call runs only when the loop has ended, so nothing *)
(* is spawned any more once it waits.                                         *)

QuietInv ==
  /\ closer["deferred"] # "idle" => serve.pc = "returned"
  /\ TeardownIsQuiet

LEMMA StepQuiet == TypeOK /\ QuietInv /\ [Next]_vars => QuietInv'
<1> SUFFICES ASSUME TypeOK, QuietInv, [Next]_vars
             PROVE  QuietInv'
  OBVIOUS
<1>1. CASE UNCHANGED vars
  BY <1>1 DEF vars, QuietInv, TeardownIsQuiet, Goroutines
<1>2. CASE Outside
  <2>1. UNCHANGED <<handler, serve>>
    BY <1>2 DEF Outside, Dial, Send, HangUp, Forget, StartClose, Close, CloseListener, Sweep,
                AwaitGoroutines, Exit, server, daemon
  <2>2. closer'["deferred"] # "idle" => serve.pc = "returned"
    BY <1>2 DEF Outside, Dial, Send, HangUp, Forget, StartClose, Close, CloseListener, Sweep,
                AwaitGoroutines, CloseStep, Exit, daemon, TypeOK, Closers, QuietInv
  <2>3. process' # "serving" => process # "serving" \/ (Goroutines = {} /\ closer["deferred"] = "swept")
    BY <1>2 DEF Outside, Dial, Send, HangUp, Forget, StartClose, Close, CloseListener, Sweep,
                AwaitGoroutines, CloseStep, Exit, daemon
  <2> QED
    BY <2>1, <2>2, <2>3 DEF QuietInv, TeardownIsQuiet, Goroutines
<1>3. ASSUME NEW c \in Conns, Moves(c) \/ ReleaseSlot(c) \/ Leaves(c) \/ CancelRead(c)
      PROVE  QuietInv'
  <2>1. UNCHANGED <<serve, closer, process>> /\ Goroutines # {}
    BY <1>3 DEF Moves, ReleaseSlot, Leaves, Unregister, CloseConnection, Done, CancelRead, ReadRequest, StreamEnds, IdleTimeout, LightCallReturns, HeavyCall,
                HeavyCallReturns, ReleaseRead, Reply, ReplyFails, Go, daemon, Goroutines
  <2> QED
    BY <2>1 DEF QuietInv, TeardownIsQuiet
<1>4. ASSUME (\E c \in Conns : AcceptUnix(c)) \/ AcceptFails \/ Admit \/ Refuse \/ Spawn
      PROVE  QuietInv'
  BY <1>4 DEF AcceptUnix, AcceptFails, Admit, Refuse, Spawn, QuietInv, TeardownIsQuiet
<1> QED
  BY <1>1, <1>2, <1>3, <1>4, StepKinds

\* Main closes the engine and the journal only after the last goroutine ended and
\* none can start (run, Server.Close).
THEOREM TeardownAwaitsAll == Spec => []TeardownIsQuiet
<1>1. Init => QuietInv
  BY DEF Init, QuietInv, TeardownIsQuiet, Closers
<1>2. QuietInv => TeardownIsQuiet
  BY DEF QuietInv
<1> QED
  BY <1>1, <1>2, StepQuiet, TransportTypes, PTL DEF Spec
=============================================================================
