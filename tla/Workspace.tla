------------------------------ MODULE Workspace ------------------------------
(***************************************************************************)
(* The terminal workspace setting up a VM (internal/ui/tui): the import    *)
(* and VM forms, the review of a plan, the one approval that covers        *)
(* preparation, creation, start and clean-up (workspace_import_chain.go),  *)
(* and the setup saved on disk (workspace_drafts.go).                      *)
(*                                                                         *)
(* m is the program's Workspace value; an action is the handling of one    *)
(* key or one message by Update.  The commands it returns run on their     *)
(* own: writes of the saved setup, calls of the coordinator.  The          *)
(* coordinator gives plans and accepts each idempotency key once, as       *)
(* OneJobPerKey of Engine promises; jobs end when they end.                *)
(*                                                                         *)
(* Left out: inspection and pickers (a source is chosen at once), the      *)
(* hand-offs to network and pool creation, the pages of other actions.     *)
(***************************************************************************)
EXTENDS Naturals, Sequences

CONSTANTS
  Settings,     \* complete VM settings
  Starting,     \* those that start the VM afterwards
  Cleaning,     \* those that remove the prepared copy afterwards
  Nil,
  MaxJobs, MaxReviews, MaxKeys, MaxFaults   \* bounds: jobs, plans, keys pressed, failures

ASSUME WorkspaceBounds ==
  /\ Starting \subseteq Settings /\ Cleaning \subseteq Settings /\ Nil \notin Settings
  /\ {MaxJobs, MaxReviews, MaxKeys, MaxFaults} \subseteq Nat

\* What the window holds: a job is its position, 0 is none.
Operations == {"prepare", "create", "start", "discard"}
Effects == {"change the host", "copy the volumes", "delete the prepared copy", "something new"}
Form == [source : Nat \cup {Nil}, settings : Settings \cup {Nil}]
Document == [state : {"editing", "submitting", "submitted"}, job : Nat, form : Form]
Question == [op : Operations, settings : Settings \cup {Nil}, source : Nat \cup {Nil}]
Review == [id : Nat, op : Operations, settings : Settings \cup {Nil},
           source : Nat \cup {Nil}, asks : SUBSET Effects]
Offer == [settings : Settings, start : BOOLEAN, cleanup : BOOLEAN, asks : SUBSET Effects]
Call == [plan : Review, key : Nat, by : {"user", "chain"}, approval : Offer \cup {Nil}, root : Nat]
Submission == [call : Call, stage : {"guard", "sent", "failed"}, job : {0}]
Chain == [root : Nat, settings : Settings, sent : Settings \cup {Nil}, approved : SUBSET Effects,
          start : BOOLEAN, cleanup : BOOLEAN, discarding : BOOLEAN, prep : Nat, create : Nat,
          source : Nat \cup {Nil}, vm : Nat, startJob : Nat]

Flags == BOOLEAN
Openings == {"no", "show", "start"}
Outcomes == {"none", "loading", "read", "failed"}
Modals == {"", "import", "creation"}
Windows ==
  [form : Form \cup {Nil}, picking : Flags, kept : Form \cup {Nil},
   plan : Review \cup {Nil}, key : Nat, offer : Offer \cup {Nil},
   asked : Question \cup {Nil}, load : Nat \cup {Nil}, checking : Flags,
   opening : Openings, apply : Submission \cup {Nil}, busy : Flags,
   chain : Chain \cup {Nil}, detail : Nat, outcome : Outcomes,
   waiting : Nat, autoReview : Nat, autoPreview : Flags, saved : Document \cup {Nil},
   fenced : Flags, modal : Modals, resuming : Document \cup {Nil}]

\* Nothing else is mistaken for nothing.
ASSUME NilIsNothing ==
  Nil \notin Nat \cup Form \cup Document \cup Question \cup Review \cup Offer \cup Call
              \cup Submission \cup Chain \cup Windows

VARIABLES
  m,            \* the window, Nil when none is open
  saves,        \* writes of the saved setup on their way, in their sequence
  file,         \* the saved setup
  writer,       \* setupWriter: its generation is "current" or "stale", or it "failed"
  accepted,     \* the coordinator's jobs; a job is its position
  strays,       \* apply calls nobody waits for that may still be accepted
  ids,          \* how many plans and idempotency keys there have been
  used,         \* bounds: keys pressed and failures so far
  unconfirmed   \* a setup was sent, and nobody was told or decided otherwise since

environment == <<accepted, strays>>
disk_ == <<saves, file, writer>>
workspaceVars == <<m, saves, file, writer, accepted, strays, ids, used, unconfirmed>>

\* A form of kind "import" has no source yet; a VM form has its preparation.
ImportOf(s) == [source |-> 0, settings |-> s]
IsImport(f) == f # Nil /\ f.source = 0
IsCreation(f) == f # Nil /\ f.source # 0

\* Settings whose import was submitted while their hardware was read: such a
\* form can only be left (previewPreparationWith).
Orphan(f) == f # Nil /\ f.source = Nil
HardwareOf(f) == IF Orphan(f) THEN 0 ELSE f.source

Draft(f) == [state |-> "editing", job |-> 0, form |-> f]

Succeeded(j) == j \in DOMAIN accepted /\ accepted[j].state = "succeeded"
IsA(j, op) == j \in DOMAIN accepted /\ accepted[j].plan.op = op

HasVM(v) == v = 0 \/ (IsA(v, "create") /\ Succeeded(v))

\* A finished preparation whose copy nothing removes.
Prepared(j) ==
  /\ IsA(j, "prepare") /\ Succeeded(j)
  /\ \A k \in DOMAIN accepted : IsA(k, "discard") /\ accepted[k].plan.source = j
                                  => accepted[k].state = "failed"

\* NewWorkspace after setupLoaded: d is the document that was loaded.
Window(d) ==
  [form |-> Nil, picking |-> FALSE, kept |-> Nil,
   plan |-> Nil, key |-> 0, offer |-> Nil,
   asked |-> Nil, load |-> Nil, checking |-> FALSE, opening |-> "no", apply |-> Nil,
   busy |-> FALSE, chain |-> Nil,
   detail |-> 0, outcome |-> "none", waiting |-> 0,
   autoReview |-> 0, autoPreview |-> FALSE,
   saved |-> d, fenced |-> FALSE, modal |-> "", resuming |-> Nil]

WorkspaceInit ==
  /\ m = Window(Nil) /\ saves = <<>> /\ file = Nil /\ writer = "current"
  /\ accepted = <<>> /\ strays = {}
  /\ ids = [review |-> 0, key |-> 0] /\ used = [keys |-> 0, faults |-> 0]
  /\ unconfirmed = FALSE

\* Update: behind every handler a changed form becomes the next saved setup.
\* A choice that was not written within 400 ms of the next one never is.
Submits(s) == s.doc.state # "editing"
Without(i) ==
  [k \in 1 .. Len(saves) - 1 |-> IF k < i THEN saves[k] ELSE saves[k + 1]]
Choices == {i \in DOMAIN saves : ~Submits(saves[i])}
Lasting == IF Choices = {} THEN saves ELSE Without(CHOOSE i \in Choices : TRUE)
Becomes(n) ==
  LET d == IF n.form = Nil THEN n.saved ELSE Draft(n.form) IN
  IF n.resuming # Nil \/ n.modal # "" \/ n.fenced \/ d = n.saved
  THEN m' = n /\ saves' = saves
  ELSE /\ m' = [n EXCEPT !.saved = d]
       /\ saves' = Append(Lasting, [doc |-> d, call |-> Nil])

Handled(n) == Becomes(n) /\ UNCHANGED <<file, writer>>

\* Keys reach a page only in front of every form, review and question.
Shown == m # Nil /\ m.modal = "" /\ m.plan = Nil
OnPage == Shown /\ m.form = Nil /\ ~m.picking
OnForm == Shown /\ m.form # Nil
Ready == ~m.busy /\ m.apply = Nil

\* Mutant of NoOutcome: the window stays busy for the page it left.
NoOutcomeBusy(n) == [n EXCEPT !.outcome = "none", !.opening = "no"]

\* resetJobOutcome
NoOutcome(n) ==
  [n EXCEPT !.outcome = "none", !.opening = "no",
            !.busy = IF n.opening # "no" /\ n.apply = Nil THEN FALSE ELSE n.busy]

\* page: another section is shown.
Paged(n) ==
  [NoOutcome(n) EXCEPT !.detail = 0, !.asked = Nil,
                       !.busy = IF n.apply = Nil THEN FALSE ELSE n.busy]

Loading(n, id) == [n EXCEPT !.load = id, !.busy = TRUE, !.picking = TRUE]
Asking(n, op, settings, source) ==
  [n EXCEPT !.asked = [op |-> op, settings |-> settings, source |-> source], !.busy = TRUE]

Quietly == UNCHANGED <<accepted, strays, ids, unconfirmed>>
-----------------------------------------------------------------------------
(* The pages and the question about a saved setup. *)

\* A finished creation or later step is no longer asked about (offerSetup).
Forgettable(d) == d.state = "submitted" /\ IsCreation(d.form) /\ Succeeded(d.job)

OpenPage(n, kind) ==
  IF kind = "creation" THEN [n EXCEPT !.fenced = FALSE, !.picking = TRUE]
                       ELSE [n EXCEPT !.fenced = FALSE, !.form = ImportOf(Nil)]

\* openImport and openCreationSources, chosen from the catalog.
OpenSetup(kind) ==
  /\ OnPage /\ Ready
  /\ LET n == NoOutcome(m) IN
     \/ /\ m.saved # Nil
        /\ Handled([n EXCEPT !.modal = kind]) /\ UNCHANGED unconfirmed
     \/ /\ m.saved # Nil => Forgettable(m.saved)
        /\ Handled(OpenPage([n EXCEPT !.saved = Nil], kind)) /\ unconfirmed' = FALSE
  /\ UNCHANGED <<accepted, strays, ids>>

\* openNewVM bypasses the question.
NewVM ==
  /\ OnPage /\ Ready /\ m.detail = 0
  /\ Handled(OpenPage(m, "import")) /\ unconfirmed' = FALSE
  /\ UNCHANGED <<accepted, strays, ids>>

\* updateSetup answers without the rest of Update.
Answering(n) == m # Nil /\ m.modal # "" /\ m' = n /\ UNCHANGED disk_

Back == Answering([m EXCEPT !.modal = ""]) /\ Quietly

StartNew ==
  /\ Answering(OpenPage([m EXCEPT !.modal = "", !.resuming = Nil, !.saved = Nil,
                                  !.form = Nil, !.kept = Nil], m.modal))
  /\ unconfirmed' = FALSE /\ UNCHANGED <<accepted, strays, ids>>

\* A source that changed meanwhile cannot be resumed: Esc is all that is left.
ResumeSetup ==
  /\ m # Nil /\ m.saved # Nil
  /\ LET d == m.saved  n == [m EXCEPT !.modal = ""] IN
     CASE d.state = "submitted" /\ IsImport(d.form) ->
            Answering([n EXCEPT !.resuming = d, !.checking = TRUE, !.busy = TRUE])
       [] d.state = "editing" /\ IsImport(d.form) ->
            \E unchanged \in BOOLEAN :
              Answering([n EXCEPT !.form = d.form, !.resuming = IF unchanged THEN Nil ELSE d])
       [] d.state = "editing" /\ IsCreation(d.form) ->
            Answering(Loading([n EXCEPT !.resuming = d], HardwareOf(d.form)))
       [] OTHER -> Answering([n EXCEPT !.detail = IF d.job = 0 THEN @ ELSE d.job,
                                       !.outcome = "none"])
  /\ Quietly

\* resumePreparedJob
Checked ==
  /\ m # Nil /\ m.checking
  /\ LET d == m.resuming
         n == [m EXCEPT !.checking = FALSE, !.busy = FALSE] IN
     Handled(CASE d = Nil -> [m EXCEPT !.checking = FALSE]
               [] d # Nil /\ Succeeded(d.job) -> Loading(n, d.job)
               [] OTHER -> [n EXCEPT !.resuming = Nil, !.detail = d.job, !.outcome = "none"])
  /\ Quietly

NotChecked ==
  /\ m # Nil /\ m.checking
  /\ Handled([m EXCEPT !.checking = FALSE, !.busy = FALSE,
                       !.resuming = Nil, !.modal = "creation"])
  /\ Quietly
-----------------------------------------------------------------------------
(* Forms and the hardware they are filled with. *)

\* An import whose resumption is unsettled takes no key but Esc.
Editable == OnForm /\ ~m.busy /\ (IsImport(m.form) => m.resuming = Nil)

Edit(s) ==
  /\ Editable /\ m.form.settings # s
  /\ Handled([m EXCEPT !.form.settings = s]) /\ Quietly

\* Esc at rest leaves the form; the saved setup stays.
EscForm ==
  /\ Shown /\ ~m.busy /\ (m.form # Nil \/ m.picking)
  /\ LET n == [m EXCEPT !.form = Nil, !.picking = FALSE] IN
     IF m.resuming # Nil /\ IsImport(m.form)
     THEN Handled([n EXCEPT !.resuming = Nil, !.modal = "import"])
     ELSE Handled([n EXCEPT !.asked = IF IsImport(m.form) THEN Nil ELSE m.asked])
  /\ Quietly

\* Esc while waiting forgets what was asked (updateCreation, updateImport).
GiveUp ==
  /\ Shown /\ m.busy /\ (m.form # Nil \/ m.picking)
  /\ Handled([m EXCEPT !.asked = Nil, !.busy = FALSE, !.picking = FALSE,
                       !.load = IF m.picking \/ IsCreation(m.form) THEN Nil ELSE m.load])
  /\ Quietly

\* The list of prepared images: one is chosen.
ChooseSource(j) ==
  /\ Shown /\ m.picking /\ m.form = Nil /\ ~m.busy
  /\ Prepared(j) /\ Handled(Loading(m, j)) /\ Quietly

\* "reload", and the hardware page of an import.
ReadHardware ==
  /\ Editable
  /\ Handled(Loading(m, HardwareOf(m.form))) /\ Quietly

\* The form that the hardware just read is shown in.
Filled(n, s) ==
  LET d == n.resuming IN
  IF d # Nil /\ d.state = "submitted" /\ IsImport(d.form) /\ d.job = n.load THEN
    [n EXCEPT !.form = [source |-> n.load, settings |-> d.form.settings], !.resuming = Nil]
  ELSE IF d # Nil /\ IsCreation(d.form) /\ d.form.source = n.load THEN
    [n EXCEPT !.form = d.form, !.resuming = Nil]
  ELSE IF n.form = Nil /\ n.kept # Nil /\ n.kept.source = n.load THEN
    [n EXCEPT !.form = n.kept, !.kept = Nil]
  ELSE IF n.form # Nil /\ HardwareOf(n.form) = n.load /\ n.form.settings # Nil THEN n
  ELSE IF n.load = 0 /\ ~IsImport(n.form) THEN
    [n EXCEPT !.form = [source |-> Nil, settings |-> s]]
  ELSE [n EXCEPT !.form = [source |-> n.load, settings |-> s]]

\* Preview of an import asks for its preparation; of a VM, for its creation.
Previewing(n) == Asking(n, IF IsImport(n.form) THEN "prepare" ELSE "create",
                        n.form.settings, n.form.source)

\* creation-load.  A preparation just finished goes on to its review.
Loaded ==
  /\ m # Nil /\ m.load # Nil
  /\ (m.resuming # Nil /\ IsCreation(m.resuming.form)) => m.resuming.form.source = m.load
  /\ \E s \in Settings \cup {Nil} :
       LET n == [Filled(m, s) EXCEPT !.load = Nil, !.busy = FALSE, !.picking = FALSE,
                                     !.fenced = FALSE, !.autoReview = 0]
           complete == n.form.settings # Nil
           reviewed == m.autoReview # 0 /\ m.autoReview = m.load
           early == [n EXCEPT !.autoPreview = FALSE, !.autoReview = m.autoReview] IN
       CASE m.autoPreview /\ m.load = 0 /\ IsImport(n.form) ->
              Handled(IF complete THEN Previewing(early) ELSE early)
         [] reviewed /\ complete ->
              Handled(Previewing(IF n.chain = Nil THEN n
                                 ELSE [n EXCEPT !.chain.sent = n.form.settings]))
         [] reviewed /\ ~complete -> Handled([n EXCEPT !.chain = Nil])
         [] OTHER -> Handled(n)
  /\ unconfirmed' = FALSE /\ UNCHANGED <<accepted, strays, ids>>

LoadFails ==
  /\ m # Nil /\ m.load # Nil
  /\ Handled([m EXCEPT !.load = Nil, !.busy = FALSE, !.autoReview = 0, !.autoPreview = FALSE])
  /\ Quietly

\* The images are not those the saved setup was made for.
LoadDiffers ==
  /\ m # Nil /\ m.load # Nil /\ m.resuming # Nil /\ IsCreation(m.resuming.form)
  /\ Handled([m EXCEPT !.load = Nil, !.busy = FALSE]) /\ Quietly

\* Preview; an import reads the hardware first, so that one review covers all.
Preview ==
  /\ Editable /\ ~Orphan(m.form)
  /\ CASE m.form.settings # Nil -> Handled(Previewing(m))
       [] m.form.settings = Nil /\ IsImport(m.form) ->
            Handled(Loading([m EXCEPT !.autoPreview = TRUE], 0))
       [] OTHER -> FALSE
  /\ Quietly

\* Other reviews: the start of a VM (0 is one that was there before) from its
\* page or its job, the removal of a prepared copy from the list.
PreviewOther(op, source) ==
  /\ Shown /\ ~m.busy
  /\ \/ OnPage /\ m.detail = 0 /\ op = "start" /\ HasVM(source)
     \/ /\ Shown /\ m.picking /\ m.form = Nil
        /\ op = "discard" /\ Prepared(source)
  /\ Handled(Asking(m, op, Nil, source)) /\ Quietly
-----------------------------------------------------------------------------
(* A review and the approval that may cover later steps. *)

Asks(op) == CASE op = "create" -> {"change the host", "copy the volumes"}
              [] op = "discard" -> {"delete the prepared copy"}
              [] OTHER -> {"change the host"}

\* What the coordinator plans for.
Plannable(r) ==
  CASE r.op = "prepare" -> TRUE
    [] r.op = "start" -> HasVM(r.source)
    [] r.op = "create" -> Prepared(r.source)
    [] r.op = "discard" -> /\ Prepared(r.source)
                           /\ \A j \in DOMAIN accepted : accepted[j].plan.source = r.source
                                                      => accepted[j].state # "running"

\* chainOfferFor
OfferFor(n, p) ==
  LET s == n.form.settings IN
  IF /\ n.chain = Nil /\ n.form # Nil /\ s # Nil
     /\ \/ p.op = "prepare" /\ IsImport(n.form)
        \/ p.op = "create" /\ IsCreation(n.form) /\ s \in Starting \cup Cleaning
  THEN [settings |-> s, start |-> s \in Starting, cleanup |-> s \in Cleaning,
        asks |-> p.asks \cup (IF p.op = "prepare" THEN Asks("create") ELSE {})
                        \cup (IF s \in Cleaning THEN Asks("discard") ELSE {})]
  ELSE Nil

\* Mutant of KeyOfReview: every Enter sends under a key of its own.
KeyOfEnter(n) == ids.key + 1

\* A review keeps its idempotency key.
KeyOfReview(n) == IF n.key = 0 THEN ids.key + 1 ELSE n.key

\* autoApplyChain and "enter" send the plan on screen; guardSetupApply first
\* writes what was submitted when a form is open.
Sending(n, by) ==
  LET k == KeyOfReview(n)
      call == [plan |-> n.plan, key |-> k, by |-> by, approval |-> n.offer,
               root |-> IF by = "chain" THEN n.chain.root ELSE 0]
      o == NoOutcome([n EXCEPT !.busy = TRUE, !.key = k])
      d == [Draft(n.form) EXCEPT !.state = "submitting"] IN
  /\ IF n.form = Nil
     THEN m' = [o EXCEPT !.apply = [call |-> call, stage |-> "sent", job |-> 0]] /\ saves' = saves
     ELSE /\ m' = [o EXCEPT !.apply = [call |-> call, stage |-> "guard", job |-> 0],
                           !.saved = d, !.fenced = TRUE]
          /\ saves' = Append(saves, [doc |-> d, call |-> call])
  /\ strays' = IF n.apply # Nil /\ n.apply.stage = "sent" THEN strays \cup {n.apply.call}
                                                        ELSE strays
  /\ ids' = [review |-> IF n.plan.id > ids.review THEN n.plan.id ELSE ids.review,
             key |-> IF k > ids.key THEN k ELSE ids.key]
  /\ UNCHANGED <<file, writer>>

\* chainPlanArrived: is this the step the approval waits for, and as approved?
Expected(n) ==
  LET c == n.chain  p == n.plan IN
  /\ c # Nil
  /\ \/ p.op = "create" /\ c.prep # 0 /\ c.create = 0
     \/ p.op = "start" /\ c.vm # 0
     \/ p.op = "discard" /\ c.discarding
\* Mutant of AsApproved: what the step asks for is not compared.
AsApprovedByKind(c, p) == p.op = "create" => p.source = c.prep

AsApproved(c, p) ==
  /\ p.asks \subseteq c.approved
  /\ CASE p.op = "create" -> p.source = c.prep /\ c.sent = c.settings
       [] p.op = "start" -> p.source = c.vm
       [] p.op = "discard" -> p.source = c.source

\* The plan may ask for more than this client expects.
PlanArrives ==
  /\ m # Nil /\ m.asked # Nil /\ Plannable(m.asked) /\ ids.review < MaxReviews
  /\ \E more \in {{}} \cup (IF m.asked.op = "create" THEN {{"something new"}} ELSE {}) :
       LET r == m.asked
           p == [id |-> ids.review + 1, op |-> r.op, settings |-> r.settings,
                 source |-> r.source, asks |-> Asks(r.op) \cup more]
           n == [m EXCEPT !.asked = Nil, !.busy = FALSE, !.plan = p, !.key = 0,
                          !.offer = OfferFor(m, p)] IN
       CASE Expected(n) /\ AsApproved(n.chain, p) -> Sending(n, "chain")
         [] Expected(n) /\ ~AsApproved(n.chain, p) ->
              Handled([n EXCEPT !.chain = Nil]) /\ ids' = [ids EXCEPT !.review = p.id] /\ strays' = strays
         [] OTHER -> Handled(n) /\ ids' = [ids EXCEPT !.review = p.id] /\ strays' = strays
  /\ UNCHANGED <<accepted, unconfirmed>>

\* An automatic step that is refused ends the approval: a removal silently, a
\* creation with the busy window.
Unplanned ==
  LET unremoved == m.chain # Nil /\ m.chain.discarding
      uncreated == m.chain # Nil /\ ~m.chain.discarding /\ IsCreation(m.form) IN
  /\ Handled([m EXCEPT !.asked = Nil,
                       !.busy = m.apply # Nil /\ ~uncreated,
                       !.chain = IF unremoved \/ uncreated THEN Nil ELSE @])
  /\ Quietly

CanPlan(r) == Plannable(r) /\ ids.review < MaxReviews

PlanFails == m # Nil /\ m.asked # Nil /\ CanPlan(m.asked) /\ Unplanned
PlanRefused == m # Nil /\ m.asked # Nil /\ ~CanPlan(m.asked) /\ Unplanned

Confirm ==
  /\ m # Nil /\ m.modal = "" /\ m.plan # Nil /\ Ready
  /\ Sending(m, "user") /\ UNCHANGED <<accepted, unconfirmed>>

EscReview ==
  /\ m # Nil /\ m.modal = "" /\ m.plan # Nil
  /\ Handled([m EXCEPT !.plan = Nil, !.offer = Nil]) /\ Quietly

\* The coordinator accepts an idempotency key once (operations.Engine.Apply).
Known(c) == {j \in DOMAIN accepted : accepted[j].key = c.key}

Job(c) == [plan |-> c.plan, key |-> c.key, by |-> c.by, approval |-> c.approval,
           root |-> c.root, state |-> "running"]

CanAccept(c) == Known(c) # {} \/ (Plannable(c.plan) /\ Len(accepted) < MaxJobs)

Accepting(c) ==
  /\ CanAccept(c)
  /\ accepted' = IF Known(c) # {} THEN accepted ELSE Append(accepted, Job(c))

JobOf(c) == CHOOSE j \in DOMAIN accepted' : accepted'[j].key = c.key

\* "apply" answers with an error: the review and its key are kept.
SubmissionFails(stage) ==
  /\ m # Nil /\ m.apply # Nil /\ m.apply.stage = stage
  /\ Handled([m EXCEPT !.apply = Nil, !.busy = m.asked # Nil]) /\ UNCHANGED <<ids, unconfirmed>>

\* The setup could not be saved first: nothing was sent.
NotSent == SubmissionFails("failed") /\ UNCHANGED environment

ApplyRefused ==
  SubmissionFails("sent") /\ ~CanAccept(m.apply.call) /\ UNCHANGED environment

\* Nobody knows whether the job was accepted, or will be.
ApplyFails ==
  /\ SubmissionFails("sent")
  /\ \/ UNCHANGED environment
     \/ Accepting(m.apply.call) /\ UNCHANGED strays
     \/ strays' = strays \cup {m.apply.call} /\ UNCHANGED accepted

\* startChain: the job begins an approval, or is a step of it.
StartChain(n, j, p) ==
  LET c == n.chain  o == n.offer IN
  CASE n.plan # p -> c
    [] n.plan = p /\ o # Nil ->
         [root |-> j, settings |-> o.settings, sent |-> Nil, approved |-> o.asks,
          start |-> o.start, cleanup |-> o.cleanup, discarding |-> FALSE,
          prep |-> IF p.op = "prepare" THEN j ELSE 0,
          create |-> IF p.op = "prepare" THEN 0 ELSE j,
          source |-> IF p.op = "prepare" THEN j
                     ELSE IF n.form # Nil THEN n.form.source ELSE 0,
          vm |-> 0, startJob |-> 0]
    [] n.plan = p /\ o = Nil ->
         CASE c # Nil /\ p.op = "create" /\ c.create = 0 -> [c EXCEPT !.create = j]
           [] c # Nil /\ p.op = "start" -> [c EXCEPT !.startJob = j]
           [] p.op = "discard" -> Nil
           [] OTHER -> c

\* "apply": the job is shown; setupAccepted names it in the saved setup.
Applied ==
  /\ m # Nil /\ m.apply # Nil /\ m.apply.stage = "sent" /\ Accepting(m.apply.call)
  /\ LET j == JobOf(m.apply.call)  f == m.form
         d == [m.saved EXCEPT !.state = "submitted", !.job = j]
         n == [m EXCEPT !.chain = StartChain(m, j, m.apply.call.plan),
                        !.apply = Nil, !.busy = FALSE,
                        !.plan = Nil, !.offer = Nil, !.form = Nil, !.picking = FALSE,
                        !.detail = j, !.outcome = "none",
                        !.waiting = IF IsImport(f) THEN j ELSE @,
                        !.kept = IF IsImport(f) /\ f.settings # Nil
                                 THEN [source |-> j, settings |-> f.settings] ELSE @] IN
     IF m.fenced /\ m.saved # Nil
     THEN m' = [n EXCEPT !.saved = d] /\ saves' = Append(saves, [doc |-> d, call |-> Nil])
     ELSE m' = n /\ saves' = saves
  /\ unconfirmed' = FALSE /\ UNCHANGED <<file, writer, strays, ids>>
-----------------------------------------------------------------------------
(* The page of a job, and what an approval does when the job has ended. *)

OpenJob(j) ==
  /\ OnPage /\ j \in DOMAIN accepted
  /\ \/ m.detail = 0 /\ Handled([NoOutcome(m) EXCEPT !.detail = j])
     \/ Handled([Paged(m) EXCEPT !.detail = j])
  /\ Quietly

\* Esc on the page of a job, or another page.
Leave ==
  /\ OnPage
  /\ \/ m.detail # 0 /\ Handled([NoOutcome(m) EXCEPT !.detail = 0])
     \/ Handled(Paged(m))
  /\ Quietly

\* "preparation-job": the preparation waited for goes on to its VM.
PreparationRead ==
  /\ m # Nil /\ m.waiting # 0
  /\ LET j == m.waiting
         n == [m EXCEPT !.waiting = 0]
         idle == m.plan = Nil /\ ~m.busy /\ m.form = Nil /\ ~m.picking
         expected == m.detail = j \/ (m.chain # Nil /\ m.chain.prep = j) IN
     \/ Succeeded(j) /\ idle /\ expected /\ Handled([Loading(n, j) EXCEPT !.autoReview = j])
     \/ accepted[j].state # "running" /\ ~(Succeeded(j) /\ idle /\ expected)
          /\ Handled([n EXCEPT !.chain = Nil])
  /\ Quietly

PreparationUnread ==
  m # Nil /\ m.waiting # 0 /\ Handled([m EXCEPT !.waiting = 0]) /\ Quietly

\* "job-update": a failed step ends the approval, a success is looked into.
JobRead ==
  /\ m # Nil /\ m.detail # 0 /\ accepted[m.detail].state # "running"
  /\ LET step == m.chain # Nil /\ m.detail \in {m.chain.create, m.chain.startJob} IN
     \/ ~Succeeded(m.detail) /\ step /\ Handled([m EXCEPT !.chain = Nil])
     \/ Succeeded(m.detail) /\ m.outcome = "none" /\ Handled([m EXCEPT !.outcome = "loading"])
  /\ Quietly

\* requestChainDiscard
Discarding(n) ==
  IF n.chain.source = 0 THEN [n EXCEPT !.chain = Nil]
  ELSE Asking([n EXCEPT !.chain.discarding = TRUE], "discard", Nil, n.chain.source)

\* chainAfterCreation, chainAfterStart
Continuing(n) ==
  LET c == n.chain IN
  CASE c # Nil /\ c.create = n.detail /\ ~c.start ->
         IF c.cleanup THEN Discarding(n) ELSE [n EXCEPT !.chain = Nil]
    [] c # Nil /\ c.create = n.detail /\ c.start ->
         [n EXCEPT !.chain.vm = n.detail, !.opening = "start", !.busy = TRUE]
    [] c # Nil /\ c.create # n.detail /\ c.startJob = n.detail /\ ~c.discarding ->
         IF c.cleanup THEN Discarding(n) ELSE [n EXCEPT !.chain = Nil]
    [] OTHER -> n

\* "job-outcome"
OutcomeRead ==
  /\ m # Nil /\ m.detail # 0 /\ m.outcome = "loading"
  /\ Handled(Continuing([m EXCEPT !.outcome = "read"])) /\ Quietly

OutcomeUnread ==
  /\ m # Nil /\ m.detail # 0 /\ m.outcome = "loading"
  /\ LET c == m.chain
         ends == c # Nil /\ \/ c.create = m.detail
                            \/ c.startJob = m.detail /\ ~c.discarding IN
     Handled([m EXCEPT !.outcome = "failed", !.chain = IF ends THEN Nil ELSE @])
  /\ Quietly

RefreshOutcome ==
  /\ OnPage /\ m.detail # 0 /\ m.outcome = "failed"
  /\ Handled([m EXCEPT !.outcome = "loading"]) /\ Quietly

\* The VM that a job is about.
VMOf(j) == IF IsA(j, "create") THEN j ELSE accepted[j].plan.source
OpenVM(how) ==
  /\ OnPage /\ m.detail # 0 /\ m.outcome = "read"
  /\ IsA(m.detail, "create") \/ IsA(m.detail, "start")
  /\ Handled([m EXCEPT !.opening = how, !.busy = TRUE]) /\ Quietly

\* "job-open-vm" and receiveJobVM.
VMOpened ==
  /\ m # Nil /\ m.opening # "no"
  /\ LET n == [m EXCEPT !.opening = "no", !.busy = FALSE] IN
     Handled(IF m.detail = 0 \/ m.outcome # "read" THEN n
             ELSE IF m.opening = "start" THEN Asking(Paged(n), "start", Nil, VMOf(m.detail))
             ELSE Paged(n))
  /\ Quietly

VMNotOpened ==
  m # Nil /\ m.opening # "no" /\ Handled([m EXCEPT !.opening = "no", !.busy = FALSE]) /\ Quietly

\* Any other message: what was left unsaved is saved.
Pulse == m # Nil /\ Handled(m) /\ m' # m /\ Quietly
-----------------------------------------------------------------------------
(* The saved setup on disk: each write runs on its own.  It must come after  *)
(* the last one written and find the generation its window knows.            *)

\* A submission whose write failed answers without having been sent.
Unsent(n, calls) ==
  IF n # Nil /\ n.apply # Nil /\ n.apply.stage = "guard" /\ n.apply.call \in calls
  THEN [n EXCEPT !.apply.stage = "failed"] ELSE n

CallsOf(s) == {s[i].call : i \in DOMAIN s} \ {Nil}

\* Mutant of Overtaking: the sequence of the writes is not checked.
OvertakingOne(i) == Without(i)

\* Earlier writes are superseded.
Overtaking(i) == SubSeq(saves, i + 1, Len(saves))

Send(n, c) ==
  LET awaited == n.apply # Nil /\ n.apply.call = c /\ n.apply.stage = "guard" IN
  /\ m' = IF awaited THEN [n EXCEPT !.apply.stage = "sent"] ELSE n
  /\ strays' = IF awaited THEN strays ELSE strays \cup {c}
  /\ unconfirmed' = (awaited /\ n.fenced)

Written(i) ==
  /\ m # Nil /\ i \in DOMAIN saves /\ writer = "current"
  /\ LET c == saves[i].call
         n == Unsent(m, CallsOf(SubSeq(saves, 1, i - 1))) IN
     IF c = Nil THEN m' = n /\ UNCHANGED <<strays, unconfirmed>>
                ELSE Send(n, c)
  /\ file' = saves[i].doc /\ saves' = Overtaking(i)
  /\ UNCHANGED <<writer, accepted, ids>>

\* Nobody knows whether what was written would survive a power cut.
WrittenUnsafely(i) ==
  /\ m # Nil /\ i \in DOMAIN saves /\ writer = "current"
  /\ m' = Unsent(m, CallsOf(SubSeq(saves, 1, i)))
  /\ file' = saves[i].doc /\ saves' = Overtaking(i) /\ writer' = "failed"
  /\ Quietly

NotWritten(i) ==
  /\ m # Nil /\ i \in DOMAIN saves
  /\ writer' = "failed" /\ m' = Unsent(m, {saves[i].call} \ {Nil})
  /\ saves' = Without(i)
  /\ UNCHANGED file /\ Quietly

\* Another window saves: this one's generation is stale from then on.
OtherSaves ==
  /\ file' = Draft(ImportOf(Nil))
  /\ writer' = IF writer = "current" THEN "stale" ELSE writer
  /\ unconfirmed' = FALSE /\ UNCHANGED <<m, saves, accepted, strays, ids>>
-----------------------------------------------------------------------------
(* The coordinator's jobs, calls that arrive late, and windows. *)

JobEnds(j, state) ==
  /\ j \in DOMAIN accepted /\ accepted[j].state = "running"
  /\ accepted' = [accepted EXCEPT ![j].state = state]
  /\ UNCHANGED <<m, saves, file, writer, strays, ids, unconfirmed>>

StrayArrives(c) ==
  /\ c \in strays /\ Accepting(c) /\ strays' = strays \ {c}
  /\ UNCHANGED <<m, saves, file, writer, ids, unconfirmed>>

Gone ==
  /\ m' = Nil /\ saves' = <<>>
  /\ strays' = IF m.apply # Nil /\ m.apply.stage = "sent" THEN strays \cup {m.apply.call}
                                                        ELSE strays
  /\ UNCHANGED <<accepted, ids, unconfirmed>>

\* RunOptions: the last choices are written as the program ends.
Quit ==
  /\ m # Nil /\ Gone
  /\ \/ m.saved # Nil /\ writer = "current" /\ file' = m.saved
     \/ UNCHANGED file
  /\ UNCHANGED writer

Die == m # Nil /\ Gone /\ UNCHANGED <<file, writer>>

StartWindow ==
  /\ m = Nil /\ m' = Window(file) /\ writer' = "current"
  /\ UNCHANGED <<saves, file>> /\ Quietly

\* The saved setup cannot be read; it is kept, and nothing is saved.
StartWindowWithout ==
  /\ m = Nil /\ m' = Window(Nil) /\ writer' = "failed"
  /\ UNCHANGED <<saves, file>> /\ Quietly
-----------------------------------------------------------------------------
(* Bounds: keys pressed and failures are counted.                           *)

Counted(what, bound) == used[what] < bound /\ used' = [used EXCEPT ![what] = @ + 1]
Freely == UNCHANGED used
Failing == Counted("faults", MaxFaults)

Pressed ==
  /\ \/ \E kind \in {"import", "creation"} : OpenSetup(kind)
     \/ NewVM \/ Back \/ StartNew \/ ResumeSetup
     \/ \E s \in Settings : Edit(s)
     \/ EscForm \/ GiveUp \/ ReadHardware \/ Preview \/ Confirm \/ EscReview
     \/ \E j \in DOMAIN accepted : ChooseSource(j) \/ OpenJob(j)
     \/ \E v \in 0 .. Len(accepted) : PreviewOther("start", v) \/ PreviewOther("discard", v)
     \/ Leave \/ RefreshOutcome \/ \E how \in {"show", "start"} : OpenVM(how)
  /\ Counted("keys", MaxKeys)

\* Every call is answered, or fails when its time is up.
CheckAnswered == (Checked /\ Freely) \/ (NotChecked /\ Failing)
LoadAnswered == ((Loaded \/ LoadDiffers) /\ Freely) \/ (LoadFails /\ Failing)
PlanAnswered == ((PlanArrives \/ PlanRefused) /\ Freely) \/ (PlanFails /\ Failing)
ApplyAnswered == ((Applied \/ ApplyRefused \/ NotSent) /\ Freely) \/ (ApplyFails /\ Failing)
VMAnswered == (VMOpened /\ Freely) \/ (VMNotOpened /\ Failing)
JobAnswered ==
  \/ (PreparationRead \/ JobRead \/ OutcomeRead \/ Pulse) /\ Freely
  \/ (PreparationUnread \/ OutcomeUnread) /\ Failing

\* Every write ends.
Saving ==
  \E i \in DOMAIN saves :
    \/ Written(i) /\ Freely
    \/ NotWritten(i) /\ IF writer = "current" THEN Failing ELSE Freely
    \/ WrittenUnsafely(i) /\ Failing

Elsewhere ==
  \/ (StartWindow \/ StartWindowWithout) /\ Freely
  \/ (OtherSaves \/ Quit \/ Die) /\ Failing
  \/ \E j \in DOMAIN accepted :
       \/ JobEnds(j, "succeeded") /\ Freely
       \/ JobEnds(j, "failed") /\ Failing
  \/ \E c \in strays : StrayArrives(c) /\ Freely

WorkspaceNext ==
  \/ Pressed \/ CheckAnswered \/ LoadAnswered \/ PlanAnswered \/ ApplyAnswered
  \/ VMAnswered \/ JobAnswered \/ Saving \/ Elsewhere
WorkspaceSpec == WorkspaceInit /\ [][WorkspaceNext]_workspaceVars
-----------------------------------------------------------------------------
(* Properties. *)

\* However a submission is repeated, lost or resumed, a plan that was reviewed
\* becomes at most one job (workspace.go:807: "A deliberate retry cannot become
\* a second job").
OneJobPerReview ==
  \A i, j \in DOMAIN accepted : i # j => accepted[i].plan.id # accepted[j].plan.id

\* A setup that was sent and never answered is known to the next window: the
\* saved setup is not one being edited, so nothing is sent again unasked
\* (guardSetupApply writes before it sends, and late saves are discarded).
SubmissionsAreRemembered == unconfirmed => file # Nil /\ file.state # "editing"

\* A job that the workspace started on its own was covered by the approval it
\* belongs to, in its kind, its target and everything it asked for
\* (workspace_import_chain.go:16).  The copy that goes after an approved creation
\* is that of the form open when its job was accepted, which may be another one
\* (README, section 6).
AutomaticStepsWereApproved ==
  \A j \in DOMAIN accepted : accepted[j].by = "chain" =>
    LET p == accepted[j].plan
        r == accepted[j].root
        a == accepted[r].approval IN
    /\ r < j /\ accepted[r].by = "user" /\ a # Nil /\ p.asks \subseteq a.asks
    /\ CASE p.op = "create" -> IsA(r, "prepare") /\ Succeeded(r) /\ p.source = r
         [] p.op = "start" -> /\ a.start /\ IsA(p.source, "create") /\ Succeeded(p.source)
                              /\ p.source = r \/ accepted[p.source].plan.source = r
         [] p.op = "discard" -> a.cleanup /\ (IsA(r, "prepare") => p.source = r)
         [] OTHER -> FALSE

\* A window that is busy waits for something that will answer: it always takes
\* keys again.  (Keys are refused while Busy is set; every kind of answer, and
\* every way to leave before the answer, clears it in a place of its own.)
BusyHasACause ==
  m # Nil /\ m.busy => \/ m.asked # Nil \/ m.load # Nil \/ m.apply # Nil
                       \/ m.checking \/ m.opening # "no"

\* A prepared copy is removed without a question only after its VM was created
\* (docs/adr/0058-remove-prepared-copies.md:30: "After creation, and after
\* start when chosen, the chain requests removal").
CopiesServeFirst ==
  \A j \in DOMAIN accepted : accepted[j].by = "chain" /\ IsA(j, "discard") =>
    \E k \in DOMAIN accepted : /\ IsA(k, "create") /\ Succeeded(k)
                              /\ accepted[k].plan.source = accepted[j].plan.source
=============================================================================
