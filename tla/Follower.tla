------------------------------ MODULE Follower ------------------------------
(***************************************************************************)
(* The command line following one job (internal/ui/cli/events_stream.go):  *)
(* it alternates between reading the job's row and draining the pages of   *)
(* its event table, and ends with a line that reports the terminal state.  *)
(* The job is run by Engine meanwhile.  Calls fail when the coordinator is *)
(* down and may fail otherwise; writing a line may fail; the consumer may  *)
(* start again behind the last complete line it read.                      *)
(*                                                                         *)
(* Checks of well-formed answers are left out: the store gives no others.  *)
(***************************************************************************)
EXTENDS Engine, Sequences

CONSTANTS
  Followed,    \* the job that is followed
  Page,        \* events per answer: LIMIT 1000 and eventBatchLimit
  MaxAfter     \* bound on the cursor a consumer starts with

ASSUME FollowerBounds == Followed \in Jobs /\ Page \in Nat \ {0} /\ MaxAfter \in Nat

VARIABLES
  log,         \* the phases of the followed job's rows in table events
  pc,          \* what the follower does next
  streaming,   \* whether events are asked for, or only the end is awaited
  from,        \* the cursor the consumer started with
  cursor,      \* the last event whose line was written
  upTo,        \* the last event of the page in hand
  full,        \* that page had the greatest size
  last,        \* the state of the job when it was last read
  lines        \* the events the consumer has read, in their order

session == <<pc, streaming, from, cursor, upTo, full, last, lines>>
followVars == <<vars, log, session>>

Calls == {"first", "watch", "get"}

FollowerTypeOK ==
  /\ log \in Seq(JobState)
  /\ pc \in Calls \cup {"off", "emit", "terminal", "done", "failed", "broken"}
  /\ streaming \in BOOLEAN /\ full \in BOOLEAN
  /\ from \in Nat /\ cursor \in Nat /\ upTo \in Nat
  /\ last \in JobState
  /\ lines \in Seq(Nat)

FollowerInit ==
  /\ Init
  /\ log = <<>>
  /\ pc = "off" /\ streaming = FALSE
  /\ from = 0 /\ cursor = 0 /\ upTo = 0 /\ full = FALSE
  /\ last = "queued" /\ lines = <<>>

\* Every transaction that writes the row appends its event (Store.Update).
Logged ==
  log' = IF events'[Followed] = events[Followed] THEN log
                                                 ELSE Append(log, jobs'[Followed].state)

Answers == phase = "serving" /\ UNCHANGED <<vars, log>>

\* "operation watch --follow --after N"
Follow ==
  /\ pc = "off"
  /\ \E after \in 0..MaxAfter : from' = after /\ cursor' = after
  /\ streaming' = TRUE /\ pc' = "first"
  /\ UNCHANGED <<vars, log, upTo, full, last, lines>>

\* "plan apply --wait": the answer to Apply is the first reading of the job.
FollowApplied ==
  /\ pc = "off" /\ Stored(Followed) /\ Answers
  /\ streaming' \in BOOLEAN
  /\ last' = jobs[Followed].state
  /\ pc' = IF streaming' THEN "watch" ELSE IF Terminal(last') THEN "terminal" ELSE "get"
  /\ UNCHANGED <<from, cursor, upTo, full, lines>>

FirstGet ==
  /\ pc = "first" /\ Stored(Followed) /\ Answers
  /\ last' = jobs[Followed].state
  /\ pc' = "watch"
  /\ UNCHANGED <<streaming, from, cursor, upTo, full, lines>>

\* Store.Events: the events behind the cursor, at most a page.
PageEnd ==
  CASE Len(log) <= cursor -> cursor
    [] Len(log) > cursor + Page -> cursor + Page
    [] OTHER -> Len(log)

Watch ==
  /\ pc = "watch" /\ Stored(Followed) /\ Answers
  /\ upTo' = PageEnd
  /\ full' = (PageEnd = cursor + Page)
  /\ pc' = "emit"
  /\ UNCHANGED <<streaming, from, cursor, last, lines>>

EmitEvent ==
  /\ pc = "emit" /\ cursor < upTo
  /\ cursor' = cursor + 1
  /\ lines' = Append(lines, cursor')
  /\ UNCHANGED <<vars, log, pc, streaming, from, upTo, full, last>>

\* Mutant of Drained: a full page counts as the last one.
DrainedByOnePage ==
  /\ pc = "emit" /\ cursor = upTo
  /\ pc' = IF Terminal(last) THEN "terminal" ELSE "get"
  /\ UNCHANGED <<vars, log, streaming, from, cursor, upTo, full, last, lines>>

\* Behind a full page there may be more; else the last reading decides.
Drained ==
  /\ pc = "emit" /\ cursor = upTo
  /\ pc' = CASE full -> "watch"
             [] ~full /\ Terminal(last) -> "terminal"
             [] OTHER -> "get"
  /\ UNCHANGED <<vars, log, streaming, from, cursor, upTo, full, last, lines>>

\* Mutant of Get: the first reading of the job stays the last.
GetStale ==
  /\ pc = "get" /\ Answers
  /\ pc' = IF streaming THEN "watch" ELSE "get"
  /\ UNCHANGED <<streaming, from, cursor, upTo, full, last, lines>>

\* The next turn begins at once if the state is terminal, else after the poll.
Get ==
  /\ pc = "get" /\ Answers
  /\ last' = jobs[Followed].state
  /\ pc' = CASE streaming -> "watch"
             [] ~streaming /\ Terminal(last') -> "terminal"
             [] OTHER -> "get"
  /\ UNCHANGED <<streaming, from, cursor, upTo, full, lines>>

EmitTerminal ==
  /\ pc = "terminal"
  /\ pc' = "done"
  /\ UNCHANGED <<vars, log, streaming, from, cursor, upTo, full, last, lines>>

\* A call fails, or the client is interrupted or runs out of time.
Detach ==
  /\ pc \in Calls \cup {"emit", "terminal"}
  /\ pc' = "failed"
  /\ UNCHANGED <<vars, log, streaming, from, cursor, upTo, full, last, lines>>

\* Mutant of WriteFails: the cursor moves before the line is written.
WriteFailsBehindCursor ==
  /\ pc \in {"emit", "terminal"}
  /\ pc' = "broken"
  /\ cursor' = IF cursor < upTo THEN cursor + 1 ELSE cursor
  /\ UNCHANGED <<vars, log, streaming, from, upTo, full, last, lines>>

\* No complete line reaches the consumer and none is attempted after it.
WriteFails ==
  /\ pc \in {"emit", "terminal"}
  /\ pc' = "broken"
  /\ UNCHANGED <<vars, log, streaming, from, cursor, upTo, full, last, lines>>

\* The consumer starts again behind the last event it read.
Resume ==
  /\ pc \in {"failed", "broken"} /\ streaming
  /\ pc' = "first"
  /\ UNCHANGED <<vars, log, streaming, from, cursor, upTo, full, last, lines>>

FollowStep ==
  \/ FirstGet \/ Watch \/ EmitEvent \/ Drained \/ Get \/ EmitTerminal

FollowerNext ==
  \/ Next /\ Logged /\ UNCHANGED session
  \/ Follow \/ FollowApplied \/ FollowStep \/ Detach \/ WriteFails \/ Resume

FollowerSpec == FollowerInit /\ [][FollowerNext]_followVars
-----------------------------------------------------------------------------
(* What must hold. *)

\* The consumer reads every event behind its first cursor once and in order,
\* over pages, failing calls, broken pipes and restarts; and the final line never
\* runs ahead of them: whatever happens to the job while its events are drained,
\* the event that recorded the reported state was written before
\* (followOperation).
EveryEventReadOnce == lines = [i \in 1..(cursor - from) |-> from + i]
EndIsLast ==
  streaming /\ pc \in {"terminal", "done"} =>
    Terminal(last) /\ \E i \in 1..Len(log) : i <= cursor /\ log[i] = last
StreamIsComplete == EveryEventReadOnce /\ EndIsLast

\* Following a job that stays terminal comes to an end (followOperation).
FollowingEnds ==
  <>[](Stored(Followed) /\ Terminal(jobs[Followed].state) /\ phase = "serving") =>
    []<>(pc \in {"off", "done", "failed", "broken"})

\* The client's process goes on and calls to a serving coordinator return.
FollowerFairSpec == FollowerSpec /\ WF_followVars(FollowStep)
=============================================================================
