----------------------------- MODULE GuestSetup -----------------------------
(***************************************************************************)
(* Running a reviewed recipe in a guest over SSH (internal/guestsetup):    *)
(* four stages, each with an intent in the journal before its script is    *)
(* sent and a receipt once its exit status is known.  A script whose       *)
(* answer is lost goes on in the guest and is never sent again.            *)
(*                                                                         *)
(* The identity of the machine, the tool and the key, which Validate       *)
(* compares, does not change here; the guest only runs scripts.            *)
(***************************************************************************)
EXTENDS Handlers, Sequences

CONSTANTS
  Guest,     \* Guest[p]: the machine whose guest the recipe of plan p is for
  NoIntent   \* nothing is on record for this stage

Readiness == 1
Check == 2
ApplyStage == 3
Verify == 4
Stages == {Readiness, Check, ApplyStage, Verify}

\* received: what the exit status of a stage may mean.
Meanings(s) ==
  CASE s = Readiness -> {"ready", "stage failed"}
    [] s = Check -> {"already-configured", "needs-apply", "stage failed"}
    [] s = ApplyStage -> {"applied", "stage failed"}
    [] s = Verify -> {"verified", "stage failed"}

Receipts == (UNION {Meanings(s) : s \in Stages}) \cup {"skip-apply"}
Unknown == "effect unknown"

RecipePlans == {p \in Plans : Kind[p] = "recipe"}

ASSUME RecipePlansAreComplete ==
  /\ NoIntent \notin Receipts \cup {Unknown}
  /\ \A p \in RecipePlans : Steps[p] = 4 /\ p \in Retaining /\ p \notin RecoveryPlans

\* resources(key): the recipes for one machine all name it.
ASSUME GuestsAreSetUpAlone ==
  \A p, q \in RecipePlans : Guest[p] = Guest[q] => ResourceIDs[p] \cap ResourceIDs[q] # {}

VARIABLES
  stage,    \* the stage records of each job: no intent, no receipt, or the receipt
  sent,     \* the scripts sent for each job, in order
  running   \* the scripts guests are running: <<j, s>>

recipes == <<stage, sent, running>>

GuestSetupTypeOK ==
  /\ stage \in [Jobs -> [Stages -> Receipts \cup {Unknown, NoIntent}]]
  /\ sent \in [Jobs -> Seq(Stages)]
  /\ running \subseteq Jobs \X Stages

GuestSetupInit ==
  /\ stage = [j \in Jobs |-> [s \in Stages |-> NoIntent]]
  /\ sent = [j \in Jobs |-> <<>>]
  /\ running = {}

-----------------------------------------------------------------------------

Complete(receipt) == receipt \in Receipts \ {"stage failed"}

\* stages: every stage up to s has a good receipt.
CompleteUpTo(j, s) == \A t \in 1..s : Complete(stage[j][t])

StageOf(j) == runner[j].i + 1
Skipped(j, s) == s = ApplyStage /\ stage[j][Check] = "already-configured"

\* boundary: a job that still runs stops at a cancellation.
MayGoOn(j) == Canceled(j) => jobs[j].state \in Unresolved

RecipeValid(p, owner) == owner # NoJob => MayGoOn(owner)

PlanRecipe(p) ==
  /\ StorePlan(p, [guest |-> Guest[p]])
  /\ UNCHANGED recipes

-----------------------------------------------------------------------------
(* Service.Execute *)

RecipeStep(j, at) == Does(j, "recipe") /\ In(j, at) /\ KeepsEngine

Notes(j, receipt) == stage' = [stage EXCEPT ![j][StageOf(j)] = receipt]

IntendStage(j) ==
  LET s == StageOf(j) IN
  /\ RecipeStep(j, "idle") /\ MayGoOn(j)
  /\ CompleteUpTo(j, s - 1) /\ stage[j][s] = NoIntent
  /\ Notes(j, Unknown)
  /\ Go(j, IF Skipped(j, s) THEN "skip-apply" ELSE "send")
  /\ UNCHANGED <<sent, running>>

SendScript(j) ==
  LET s == StageOf(j) IN
  /\ RecipeStep(j, "send") /\ MayGoOn(j)
  /\ sent' = [sent EXCEPT ![j] = Append(@, s)]
  /\ running' = running \cup {<<j, s>>}
  /\ Go(j, "waiting")
  /\ UNCHANGED stage

\* The script ends.  Its exit status reaches whoever still waits for it.
ScriptEnds(j, s) ==
  /\ <<j, s>> \in running
  /\ running' = running \ {<<j, s>>}
  /\ IF In(j, "waiting") /\ StageOf(j) = s
       THEN \E meaning \in Meanings(s) : Go(j, meaning)
       ELSE UNCHANGED work
  /\ KeepsEngine /\ UNCHANGED <<stage, sent>>

\* Mutant of CancelScript: the child was killed, so nothing is left.
CancelScriptSafely(j) ==
  /\ RecipeStep(j, "waiting") /\ ~MayGoOn(j)
  /\ Go(j, "canceled-safely")
  /\ UNCHANGED recipes

\* runContext kills ssh; what it started in the guest may go on.
CancelScript(j) ==
  /\ RecipeStep(j, "waiting") /\ ~MayGoOn(j)
  /\ Go(j, "error")
  /\ UNCHANGED recipes

RecordStage(j) ==
  /\ Does(j, "recipe") /\ At(j, "execute") /\ work[j].at \in Receipts
  /\ Notes(j, work[j].at) /\ Go(j, "noted")
  /\ KeepsEngine /\ UNCHANGED <<sent, running>>

EndStage(j) ==
  /\ RecipeStep(j, "noted")
  /\ Go(j, IF MayGoOn(j) /\ Complete(stage[j][StageOf(j)]) THEN "ok" ELSE "error")
  /\ UNCHANGED recipes

\* Service.Reconcile looks at the receipts and never at the guest.
RecipeDone(i, j) == MayGoOn(j) /\ CompleteUpTo(j, i + 1)

GuestsLosePower == running' = {} /\ UNCHANGED <<stage, sent>>

RecipeWork(j) ==
  IntendStage(j) \/ SendScript(j) \/ CancelScript(j) \/ RecordStage(j) \/ EndStage(j)

-----------------------------------------------------------------------------
(* What must hold. *)

\* A guest sees each script of a job at most once and in order, "apply" only
\* after its check asked for it, and never the scripts of two jobs at a time,
\* also when the first is still running there and nobody waits for it any more
\* (Service.Execute, Engine.run).
ScriptsRunAsReviewed ==
  /\ \A j \in Jobs :
       /\ \A i \in 2..Len(sent[j]) : sent[j][i - 1] < sent[j][i]
       /\ ApplyStage \in {sent[j][i] : i \in 1..Len(sent[j])} => stage[j][Check] = "needs-apply"
  /\ \A s, t \in running :
       s # t => Guest[jobs[s[1]].planID] # Guest[jobs[t[1]].planID]

RecipeAchieved(j) ==
  /\ CompleteUpTo(j, Verify)
  /\ Verify \in {sent[j][i] : i \in 1..Len(sent[j])}
  /\ \A s \in Stages : <<j, s>> \notin running
RecipeUntouched(j) == sent[j] = <<>>
=============================================================================
