--------------------------- MODULE WorkspaceProofs ---------------------------
(***************************************************************************)
(* What the terminal workspace keeps however keys and answers interleave:  *)
(* a review becomes one job at most, a sent setup is remembered, a step    *)
(* taken without a question was approved, and a busy window waits.         *)
(***************************************************************************)
EXTENDS Workspace, SequenceTheorems, TLAPS

Save == [doc : Document, call : Call \cup {Nil}]
AcceptedJob == [plan : Review, key : Nat, by : {"user", "chain"}, approval : Offer \cup {Nil},
                root : Nat, state : {"running", "succeeded", "failed"}]

WorkspaceTypeOK ==
  /\ m \in Windows \cup {Nil} /\ saves \in Seq(Save) /\ file \in Document \cup {Nil}
  /\ writer \in {"current", "stale", "failed"}
  /\ accepted \in Seq(AcceptedJob) /\ strays \subseteq Call
  /\ ids \in [review : Nat, key : Nat] /\ unconfirmed \in BOOLEAN

\* A job that a document or a page names exists.
Names(d) == d # Nil => d.job <= Len(accepted)
JobsExist ==
  /\ Names(file) /\ \A i \in DOMAIN saves : Names(saves[i].doc)
  /\ m # Nil => Names(m.saved) /\ Names(m.resuming) /\ m.detail <= Len(accepted)

\* A cause of BusyHasACause that no key takes away silently.
Explained(n) ==
  n.busy => \/ n.asked # Nil \/ n.load # Nil \/ n.apply # Nil \/ n.opening # "no"
            \/ n.checking /\ n.resuming # Nil /\ n.modal = ""

ChainGoesOn(n) ==
  n.chain # Nil =>
    /\ m.chain # Nil /\ n.chain.root = m.chain.root /\ n.chain.approved = m.chain.approved
    /\ n.chain.start = m.chain.start /\ n.chain.cleanup = m.chain.cleanup
    /\ n.chain.prep = m.chain.prep /\ n.chain.create = m.chain.create
    /\ n.chain.source = m.chain.source
    /\ (n.chain.vm # m.chain.vm => n.chain.vm = m.chain.create /\ m.chain.start)
    /\ (n.chain.discarding => m.chain.discarding \/ m.chain.cleanup)

Tame(n) ==
  /\ n \in Windows /\ n.key = m.key /\ n.apply = m.apply
  /\ (n.plan = m.plan /\ n.offer = m.offer) \/ (n.plan = Nil /\ n.offer = Nil)
  /\ ChainGoesOn(n) /\ Explained(n)
  /\ Names(n.saved) /\ Names(n.resuming) /\ n.detail <= Len(accepted)

Settled(n) == Handled(n) \/ (m' = n /\ UNCHANGED disk_)

\* Nothing is sent, and what is known of the saved setup stays.
Quiet(n) ==
  /\ Tame(n) /\ n.saved = m.saved /\ n.fenced = m.fenced
  /\ (n.form = Nil) \/ (m.form # Nil) \/ (m.saved # Nil /\ m.saved.state = "editing")
QuietStep == m # Nil /\ \E n \in Windows : Quiet(n) /\ Settled(n) /\ Quietly

\* Nothing is sent, and the user has decided about the saved setup.
Fresh(n) == Tame(n) /\ ~n.fenced
FreshStep ==
  /\ m # Nil /\ \E n \in Windows : Fresh(n) /\ Settled(n)
  /\ unconfirmed' = FALSE /\ UNCHANGED <<accepted, strays, ids>>

Reasonable ==
  /\ WorkspaceTypeOK /\ JobsExist /\ (m # Nil => Explained(m))

-----------------------------------------------------------------------------
(* The steps of pages, forms and job pages send nothing. *)

LEMMA Constants ==
  /\ TRUE \in Flags /\ FALSE \in Flags
  /\ "no" \in Openings /\ "show" \in Openings /\ "start" \in Openings
  /\ "none" \in Outcomes /\ "loading" \in Outcomes /\ "read" \in Outcomes /\ "failed" \in Outcomes
  /\ "" \in Modals /\ "import" \in Modals /\ "creation" \in Modals
BY DEF Flags, Openings, Outcomes, Modals

\* What a helper leaves alone.
Same(x, n) ==
  /\ x.key = n.key /\ x.apply = n.apply /\ x.plan = n.plan /\ x.offer = n.offer
  /\ x.saved = n.saved /\ x.fenced = n.fenced /\ x.chain = n.chain
  /\ x.resuming = n.resuming /\ x.modal = n.modal /\ x.checking = n.checking

LEMMA NoOutcomeIs ==
  ASSUME NEW n \in Windows, NEW x, x = NoOutcome(n)
  PROVE  /\ x \in Windows /\ Same(x, n) /\ x.form = n.form /\ x.detail = n.detail
         /\ x.asked = n.asked /\ x.load = n.load /\ x.opening = "no"
         /\ x.picking = n.picking /\ x.kept = n.kept
         /\ Explained(n) => Explained(x)
<1>1. PICK b : b = IF n.opening # "no" /\ n.apply = Nil THEN FALSE ELSE n.busy
  OBVIOUS
<1>2. b \in Flags BY <1>1 DEF Windows, Flags
<1>3. x = [n EXCEPT !.outcome = "none", !.opening = "no", !.busy = b]
  BY <1>1 DEF NoOutcome
<1>4. x \in Windows
  <2>1. PICK e, o : e = "none" /\ o = "no" OBVIOUS
  <2>2. e \in Outcomes /\ o \in Openings BY <2>1, Constants
  <2>3. [n EXCEPT !.outcome = e, !.opening = o, !.busy = b] \in Windows
    BY <1>2, <2>2, ZenonT(40) DEF Windows
  <2> QED BY <1>3, <2>1, <2>3
<1>5. /\ Same(x, n) /\ x.form = n.form /\ x.detail = n.detail /\ x.asked = n.asked
      /\ x.load = n.load /\ x.opening = "no" /\ x.busy = b
      /\ x.picking = n.picking /\ x.kept = n.kept
  BY <1>2, <1>3, Constants DEF Windows, Same
<1>6. Explained(n) => Explained(x)
  BY <1>1, <1>5 DEF Explained, Same
<1> QED BY <1>4, <1>5, <1>6

LEMMA PagedIs ==
  ASSUME NEW n \in Windows, NEW x, x = Paged(n)
  PROVE  /\ x \in Windows /\ Same(x, n) /\ x.form = n.form /\ x.detail = 0
         /\ Explained(x)
<1>1. PICK o : o = NoOutcome(n)
  OBVIOUS
<1>2. PICK b : b = IF n.apply = Nil THEN FALSE ELSE n.busy
  OBVIOUS
<1>3. o \in Windows /\ Same(o, n) /\ o.form = n.form
  BY <1>1, NoOutcomeIs
<1>4. b \in Flags BY <1>2, <1>3 DEF Windows, Flags
<1>5. x = [o EXCEPT !.detail = 0, !.asked = Nil, !.busy = b]
  BY <1>1, <1>2 DEF Paged
<1>6. x \in Windows
  <2>1. \A q \in Question \cup {Nil}, d \in Nat :
          [o EXCEPT !.detail = d, !.asked = q, !.busy = b] \in Windows
    BY <1>3, <1>4, ZenonT(40) DEF Windows
  <2>2. Nil \in Question \cup {Nil} /\ 0 \in Nat OBVIOUS
  <2> QED BY <1>5, <2>1, <2>2, Zenon
<1>7. Same(x, o) /\ x.form = o.form /\ x.detail = 0 /\ x.busy = b
  BY <1>3, <1>4, <1>5 DEF Windows, Same
<1>8. Explained(x)
  BY <1>2, <1>3, <1>7 DEF Explained, Same
<1> QED BY <1>3, <1>6, <1>7, <1>8 DEF Same

LEMMA LoadingIs ==
  ASSUME NEW n \in Windows, NEW id \in Nat, NEW x, x = Loading(n, id)
  PROVE  /\ x \in Windows /\ Same(x, n) /\ x.form = n.form /\ x.detail = n.detail
         /\ Explained(x)
<1>1. x \in Windows
  BY Constants, ZenonT(40) DEF Windows, Loading
<1>2. Same(x, n) /\ x.form = n.form /\ x.detail = n.detail /\ x.load = id
  BY Constants DEF Windows, Loading, Same
<1>3. id # Nil BY NilIsNothing
<1> QED BY <1>1, <1>2, <1>3 DEF Explained

LEMMA AskingIs ==
  ASSUME NEW n \in Windows, NEW op \in Operations, NEW settings \in Settings \cup {Nil},
         NEW source \in Nat \cup {Nil}, NEW x, x = Asking(n, op, settings, source)
  PROVE  /\ x \in Windows /\ Same(x, n) /\ x.form = n.form /\ x.detail = n.detail
         /\ Explained(x)
<1>1. PICK q : q = [op |-> op, settings |-> settings, source |-> source]
  OBVIOUS
<1>2. q \in Question /\ q # Nil BY <1>1, NilIsNothing DEF Question
<1>3. x = [n EXCEPT !.asked = q, !.busy = TRUE] BY <1>1 DEF Asking
<1>4. x \in Windows
  BY <1>2, <1>3, Constants, ZenonT(40) DEF Windows
<1>5. Same(x, n) /\ x.form = n.form /\ x.detail = n.detail /\ x.asked = q
  BY <1>2, <1>3, Constants DEF Windows, Same
<1> QED BY <1>2, <1>4, <1>5 DEF Explained

LEMMA MIsTame ==
  ASSUME Reasonable, m # Nil
  PROVE  m \in Windows /\ Names(m.saved) /\ Names(m.resuming) /\ m.detail <= Len(accepted)
         /\ Explained(m) /\ 0 <= Len(accepted) /\ Len(accepted) \in Nat
BY DEF Reasonable, WorkspaceTypeOK, JobsExist

\* A window after a step that sends nothing and keeps the approval or ends it.
Near(x) ==
  /\ x.key = m.key /\ x.apply = m.apply
  /\ (x.plan = m.plan /\ x.offer = m.offer) \/ (x.plan = Nil /\ x.offer = Nil)
  /\ x.saved = m.saved /\ x.fenced = m.fenced
  /\ (x.chain = m.chain) \/ (x.chain = Nil) \/ ChainGoesOn(x)
  /\ (x.resuming = m.resuming) \/ Names(x.resuming)
  /\ x.detail <= Len(accepted)
  /\ (x.form = Nil) \/ (m.form # Nil) \/ (m.saved # Nil /\ m.saved.state = "editing")

LEMMA SameIsQuiet ==
  ASSUME Reasonable, m # Nil, NEW x \in Windows, Near(x), Explained(x)
  PROVE  Quiet(x)
<1>1. ChainGoesOn(x) BY DEF ChainGoesOn, Near
<1>2. Names(x.saved) /\ Names(x.resuming) BY MIsTame DEF Near
<1> QED BY <1>1, <1>2 DEF Quiet, Tame, Near

LEMMA QuietlySettled ==
  ASSUME m # Nil, NEW x, Quiet(x), Settled(x), Quietly
  PROVE  QuietStep
BY DEF QuietStep, Quiet, Tame

LEMMA LeaveIsQuiet ==
  ASSUME Reasonable, Leave PROVE QuietStep
<1>1. m # Nil /\ m.form = Nil /\ Quietly BY DEF Leave, OnPage, Shown
<1>2. m \in Windows BY <1>1, MIsTame
<1>3. CASE m.detail # 0 /\ Handled([NoOutcome(m) EXCEPT !.detail = 0])
  <2>1. PICK o : o = NoOutcome(m) OBVIOUS
  <2>2. PICK x : x = [o EXCEPT !.detail = 0] OBVIOUS
  <2>3. o \in Windows /\ Same(o, m) /\ o.form = m.form /\ Explained(o)
    BY <1>1, <1>2, <2>1, NoOutcomeIs, MIsTame
  <2>4. x \in Windows
    BY <2>2, <2>3 DEF Windows
  <2>5. Same(x, o) /\ x.form = o.form /\ x.detail = 0 /\ Explained(x)
    BY <2>2, <2>3 DEF Windows, Same, Explained
  <2>6. Quiet(x)
    BY <1>1, <2>3, <2>4, <2>5, SameIsQuiet, MIsTame DEF Same, Near
  <2> QED BY <1>1, <1>3, <2>1, <2>2, <2>6, QuietlySettled DEF Settled
<1>4. CASE Handled(Paged(m))
  <2>1. PICK x : x = Paged(m) OBVIOUS
  <2>2. Quiet(x)
    BY <1>1, <1>2, <2>1, PagedIs, SameIsQuiet, MIsTame DEF Same, Near
  <2> QED BY <1>1, <1>4, <2>1, <2>2, QuietlySettled DEF Settled
<1> QED BY <1>3, <1>4 DEF Leave

LEMMA OpenJobIsQuiet ==
  ASSUME Reasonable, NEW j, OpenJob(j) PROVE QuietStep
<1>1. /\ m # Nil /\ m.form = Nil /\ Quietly
      /\ j \in Nat /\ j <= Len(accepted)
  <2>1. m # Nil /\ m.form = Nil /\ Quietly /\ j \in DOMAIN accepted
    BY DEF OpenJob, OnPage, Shown
  <2>2. accepted \in Seq(AcceptedJob) BY DEF Reasonable, WorkspaceTypeOK
  <2> QED BY <2>1, <2>2
<1>2. m \in Windows BY <1>1, MIsTame
<1>3. PICK o \in Windows : Same(o, m) /\ o.form = m.form /\ Explained(o)
                           /\ Handled([o EXCEPT !.detail = j])
  <2>1. CASE Handled([NoOutcome(m) EXCEPT !.detail = j])
    <3>1. PICK o : o = NoOutcome(m) OBVIOUS
    <3> QED BY <1>1, <1>2, <2>1, <3>1, NoOutcomeIs, MIsTame
  <2>2. CASE Handled([Paged(m) EXCEPT !.detail = j])
    <3>1. PICK o : o = Paged(m) OBVIOUS
    <3> QED BY <1>1, <1>2, <2>2, <3>1, PagedIs
  <2> QED BY <2>1, <2>2 DEF OpenJob
<1>4. PICK x : x = [o EXCEPT !.detail = j] OBVIOUS
<1>5. x \in Windows BY <1>1, <1>4 DEF Windows
<1>6. Same(x, o) /\ x.form = o.form /\ x.detail = j /\ Explained(x)
  BY <1>1, <1>3, <1>4, ZenonT(40) DEF Windows, Same, Explained
<1>7. Quiet(x)
  BY <1>1, <1>3, <1>5, <1>6, SameIsQuiet DEF Same, Near
<1> QED BY <1>1, <1>3, <1>4, <1>7, QuietlySettled DEF Settled

LEMMA BackIsQuiet ==
  ASSUME Reasonable, Back
  PROVE  QuietStep
<1>1. /\ m # Nil /\ Quietly /\ m.modal # ""
  BY DEF Back, Answering
<1>2. m \in Windows
  BY <1>1, MIsTame
<1>3. PICK x : x = [m EXCEPT !.modal = ""]
  OBVIOUS
<1>4. Settled(x)
  BY <1>1, <1>3 DEF Settled, Back, Answering
<1>5. x \in Windows
  BY <1>2, <1>3, Constants DEF Windows
<1>6. /\ x.modal = "" /\ x.form = m.form /\ x.plan = m.plan /\ x.key = m.key
      /\ x.offer = m.offer /\ x.asked = m.asked /\ x.load = m.load
      /\ x.checking = m.checking /\ x.opening = m.opening /\ x.apply = m.apply
      /\ x.busy = m.busy /\ x.chain = m.chain /\ x.detail = m.detail /\ x.saved = m.saved
      /\ x.fenced = m.fenced /\ x.resuming = m.resuming
  BY <1>2, <1>3, Constants DEF Windows
<1>7. Explained(x)
  BY <1>1, <1>6, MIsTame DEF Explained
<1>8. Quiet(x)
  BY <1>1, <1>5, <1>6, <1>7, SameIsQuiet, MIsTame DEF Near
<1> QED BY <1>1, <1>4, <1>8, QuietlySettled

LEMMA NotCheckedIsQuiet ==
  ASSUME Reasonable, NotChecked
  PROVE  QuietStep
<1>1. /\ m # Nil /\ Quietly
  BY DEF NotChecked
<1>2. m \in Windows
  BY <1>1, MIsTame
<1>3. PICK x : x = [m EXCEPT !.checking = FALSE, !.busy = FALSE, !.resuming = Nil, !.modal = "creation"]
  OBVIOUS
<1>4. Settled(x)
  BY <1>1, <1>3 DEF Settled, NotChecked
<1>5. x \in Windows
  BY <1>2, <1>3, Constants DEF Windows
<1>6. /\ x.checking = FALSE /\ x.busy = FALSE /\ x.resuming = Nil /\ x.modal = "creation"
      /\ x.form = m.form /\ x.plan = m.plan /\ x.key = m.key /\ x.offer = m.offer
      /\ x.asked = m.asked /\ x.load = m.load /\ x.opening = m.opening
      /\ x.apply = m.apply /\ x.chain = m.chain /\ x.detail = m.detail
      /\ x.saved = m.saved /\ x.fenced = m.fenced
  BY <1>2, <1>3, Constants DEF Windows
<1>7. Explained(x)
  BY <1>1, <1>6, MIsTame DEF Explained
<1>8. Quiet(x)
  BY <1>1, <1>5, <1>6, <1>7, SameIsQuiet, MIsTame DEF Near, Names
<1> QED BY <1>1, <1>4, <1>8, QuietlySettled

LEMMA GiveUpIsQuiet ==
  ASSUME Reasonable, GiveUp
  PROVE  QuietStep
<1>1. /\ m # Nil /\ Quietly
  BY DEF GiveUp, Shown
<1>2. m \in Windows
  BY <1>1, MIsTame
<1>3. PICK l : l = IF m.picking \/ IsCreation(m.form) THEN Nil ELSE m.load
  OBVIOUS
<1>4. l \in Nat \cup {Nil}
  BY <1>1, <1>2, <1>3 DEF Windows
<1>5. PICK f : f = FALSE
  OBVIOUS
<1>6. f \in Flags
  BY <1>1, <1>2, <1>5, Constants
<1>7. PICK x : x = [m EXCEPT !.asked = Nil, !.busy = f, !.picking = f, !.load = l]
  OBVIOUS
<1>8. Settled(x)
  BY <1>1, <1>3, <1>5, <1>7 DEF Settled, GiveUp, Shown
<1>9. x \in Windows
  BY <1>2, <1>4, <1>6, <1>7, Constants, ZenonT(40) DEF Windows
<1>10. /\ x.asked = Nil /\ x.busy = f /\ x.load = l /\ x.form = m.form /\ x.plan = m.plan
       /\ x.key = m.key /\ x.offer = m.offer /\ x.checking = m.checking
       /\ x.opening = m.opening /\ x.apply = m.apply /\ x.chain = m.chain
       /\ x.detail = m.detail /\ x.saved = m.saved /\ x.fenced = m.fenced
       /\ x.modal = m.modal /\ x.resuming = m.resuming
  BY <1>2, <1>4, <1>6, <1>7, Constants DEF Windows
<1>11. Explained(x)
  BY <1>1, <1>3, <1>5, <1>10, MIsTame DEF Explained
<1>12. Quiet(x)
  BY <1>1, <1>3, <1>5, <1>9, <1>10, <1>11, SameIsQuiet, MIsTame DEF Near
<1> QED BY <1>1, <1>8, <1>12, QuietlySettled

LEMMA LoadFailsIsQuiet ==
  ASSUME Reasonable, LoadFails
  PROVE  QuietStep
<1>1. /\ m # Nil /\ Quietly
  BY DEF LoadFails
<1>2. m \in Windows
  BY <1>1, MIsTame
<1>3. PICK x : x = [m EXCEPT !.load = Nil, !.busy = FALSE, !.autoReview = 0, !.autoPreview = FALSE]
  OBVIOUS
<1>4. Settled(x)
  BY <1>1, <1>3 DEF Settled, LoadFails
<1>5. x \in Windows
  BY <1>2, <1>3, Constants, ZenonT(40) DEF Windows
<1>6. /\ x.load = Nil /\ x.busy = FALSE /\ x.form = m.form /\ x.plan = m.plan
      /\ x.key = m.key /\ x.offer = m.offer /\ x.asked = m.asked
      /\ x.checking = m.checking /\ x.opening = m.opening /\ x.apply = m.apply
      /\ x.chain = m.chain /\ x.detail = m.detail /\ x.saved = m.saved
      /\ x.fenced = m.fenced /\ x.modal = m.modal /\ x.resuming = m.resuming
  BY <1>2, <1>3, Constants DEF Windows
<1>7. Explained(x)
  BY <1>1, <1>6, MIsTame DEF Explained
<1>8. Quiet(x)
  BY <1>1, <1>5, <1>6, <1>7, SameIsQuiet, MIsTame DEF Near
<1> QED BY <1>1, <1>4, <1>8, QuietlySettled

LEMMA LoadDiffersIsQuiet ==
  ASSUME Reasonable, LoadDiffers
  PROVE  QuietStep
<1>1. /\ m # Nil /\ Quietly
  BY DEF LoadDiffers
<1>2. m \in Windows
  BY <1>1, MIsTame
<1>3. PICK x : x = [m EXCEPT !.load = Nil, !.busy = FALSE]
  OBVIOUS
<1>4. Settled(x)
  BY <1>1, <1>3 DEF Settled, LoadDiffers
<1>5. x \in Windows
  BY <1>2, <1>3, Constants, ZenonT(40) DEF Windows
<1>6. /\ x.load = Nil /\ x.busy = FALSE /\ x.form = m.form /\ x.plan = m.plan
      /\ x.key = m.key /\ x.offer = m.offer /\ x.asked = m.asked
      /\ x.checking = m.checking /\ x.opening = m.opening /\ x.apply = m.apply
      /\ x.chain = m.chain /\ x.detail = m.detail /\ x.saved = m.saved
      /\ x.fenced = m.fenced /\ x.modal = m.modal /\ x.resuming = m.resuming
  BY <1>2, <1>3, Constants DEF Windows
<1>7. Explained(x)
  BY <1>1, <1>6, MIsTame DEF Explained
<1>8. Quiet(x)
  BY <1>1, <1>5, <1>6, <1>7, SameIsQuiet, MIsTame DEF Near
<1> QED BY <1>1, <1>4, <1>8, QuietlySettled

LEMMA EscReviewIsQuiet ==
  ASSUME Reasonable, EscReview
  PROVE  QuietStep
<1>1. /\ m # Nil /\ Quietly
  BY DEF EscReview
<1>2. m \in Windows
  BY <1>1, MIsTame
<1>3. PICK x : x = [m EXCEPT !.plan = Nil, !.offer = Nil]
  OBVIOUS
<1>4. Settled(x)
  BY <1>1, <1>3 DEF Settled, EscReview
<1>5. x \in Windows
  BY <1>2, <1>3, Constants, ZenonT(40) DEF Windows
<1>6. /\ x.plan = Nil /\ x.offer = Nil /\ x.form = m.form /\ x.key = m.key
      /\ x.asked = m.asked /\ x.load = m.load /\ x.checking = m.checking
      /\ x.opening = m.opening /\ x.apply = m.apply /\ x.busy = m.busy
      /\ x.chain = m.chain /\ x.detail = m.detail /\ x.saved = m.saved
      /\ x.fenced = m.fenced /\ x.modal = m.modal /\ x.resuming = m.resuming
  BY <1>2, <1>3, Constants DEF Windows
<1>7. Explained(x)
  BY <1>1, <1>6, MIsTame DEF Explained
<1>8. Quiet(x)
  BY <1>1, <1>5, <1>6, <1>7, SameIsQuiet, MIsTame DEF Near
<1> QED BY <1>1, <1>4, <1>8, QuietlySettled

LEMMA PreparationUnreadIsQuiet ==
  ASSUME Reasonable, PreparationUnread
  PROVE  QuietStep
<1>1. /\ m # Nil /\ Quietly
  BY DEF PreparationUnread
<1>2. m \in Windows
  BY <1>1, MIsTame
<1>3. PICK x : x = [m EXCEPT !.waiting = 0]
  OBVIOUS
<1>4. Settled(x)
  BY <1>1, <1>3 DEF Settled, PreparationUnread
<1>5. x \in Windows
  BY <1>2, <1>3, Constants DEF Windows
<1>6. /\ x.form = m.form /\ x.plan = m.plan /\ x.key = m.key /\ x.offer = m.offer
      /\ x.asked = m.asked /\ x.load = m.load /\ x.checking = m.checking
      /\ x.opening = m.opening /\ x.apply = m.apply /\ x.busy = m.busy
      /\ x.chain = m.chain /\ x.detail = m.detail /\ x.saved = m.saved
      /\ x.fenced = m.fenced /\ x.modal = m.modal /\ x.resuming = m.resuming
  BY <1>2, <1>3, Constants DEF Windows
<1>7. Explained(x)
  BY <1>1, <1>6, MIsTame DEF Explained
<1>8. Quiet(x)
  BY <1>1, <1>5, <1>6, <1>7, SameIsQuiet, MIsTame DEF Near
<1> QED BY <1>1, <1>4, <1>8, QuietlySettled

LEMMA RefreshOutcomeIsQuiet ==
  ASSUME Reasonable, RefreshOutcome
  PROVE  QuietStep
<1>1. /\ m # Nil /\ Quietly
  BY DEF RefreshOutcome, OnPage, Shown
<1>2. m \in Windows
  BY <1>1, MIsTame
<1>3. PICK x : x = [m EXCEPT !.outcome = "loading"]
  OBVIOUS
<1>4. Settled(x)
  BY <1>1, <1>3 DEF Settled, RefreshOutcome, OnPage, Shown
<1>5. x \in Windows
  BY <1>2, <1>3, Constants DEF Windows
<1>6. /\ x.form = m.form /\ x.plan = m.plan /\ x.key = m.key /\ x.offer = m.offer
      /\ x.asked = m.asked /\ x.load = m.load /\ x.checking = m.checking
      /\ x.opening = m.opening /\ x.apply = m.apply /\ x.busy = m.busy
      /\ x.chain = m.chain /\ x.detail = m.detail /\ x.saved = m.saved
      /\ x.fenced = m.fenced /\ x.modal = m.modal /\ x.resuming = m.resuming
  BY <1>2, <1>3, Constants DEF Windows
<1>7. Explained(x)
  BY <1>1, <1>6, MIsTame DEF Explained
<1>8. Quiet(x)
  BY <1>1, <1>5, <1>6, <1>7, SameIsQuiet, MIsTame DEF Near
<1> QED BY <1>1, <1>4, <1>8, QuietlySettled

LEMMA OpenVMIsQuiet ==
  ASSUME Reasonable, NEW how \in {"show", "start"}, OpenVM(how)
  PROVE  QuietStep
<1>1. /\ m # Nil /\ Quietly /\ how \in Openings /\ how # "no"
  BY DEF OpenVM, OnPage, Shown, Openings
<1>2. m \in Windows
  BY <1>1, MIsTame
<1>3. PICK x : x = [m EXCEPT !.opening = how, !.busy = TRUE]
  OBVIOUS
<1>4. Settled(x)
  BY <1>1, <1>3 DEF Settled, OpenVM, OnPage, Shown, Openings
<1>5. x \in Windows
  BY <1>2, <1>3, Constants, ZenonT(40) DEF Windows
<1>6. /\ x.opening = how /\ x.busy = TRUE /\ x.form = m.form /\ x.plan = m.plan
      /\ x.key = m.key /\ x.offer = m.offer /\ x.asked = m.asked /\ x.load = m.load
      /\ x.checking = m.checking /\ x.apply = m.apply /\ x.chain = m.chain
      /\ x.detail = m.detail /\ x.saved = m.saved /\ x.fenced = m.fenced
      /\ x.modal = m.modal /\ x.resuming = m.resuming
  BY <1>2, <1>3, Constants DEF Windows
<1>7. Explained(x)
  BY <1>1, <1>6, MIsTame DEF Explained
<1>8. Quiet(x)
  BY <1>1, <1>5, <1>6, <1>7, SameIsQuiet, MIsTame DEF Near
<1> QED BY <1>1, <1>4, <1>8, QuietlySettled

LEMMA VMNotOpenedIsQuiet ==
  ASSUME Reasonable, VMNotOpened
  PROVE  QuietStep
<1>1. /\ m # Nil /\ Quietly
  BY DEF VMNotOpened
<1>2. m \in Windows
  BY <1>1, MIsTame
<1>3. PICK x : x = [m EXCEPT !.opening = "no", !.busy = FALSE]
  OBVIOUS
<1>4. Settled(x)
  BY <1>1, <1>3 DEF Settled, VMNotOpened
<1>5. x \in Windows
  BY <1>2, <1>3, Constants, ZenonT(40) DEF Windows
<1>6. /\ x.opening = "no" /\ x.busy = FALSE /\ x.form = m.form /\ x.plan = m.plan
      /\ x.key = m.key /\ x.offer = m.offer /\ x.asked = m.asked /\ x.load = m.load
      /\ x.checking = m.checking /\ x.apply = m.apply /\ x.chain = m.chain
      /\ x.detail = m.detail /\ x.saved = m.saved /\ x.fenced = m.fenced
      /\ x.modal = m.modal /\ x.resuming = m.resuming
  BY <1>2, <1>3, Constants DEF Windows
<1>7. Explained(x)
  BY <1>1, <1>6, MIsTame DEF Explained
<1>8. Quiet(x)
  BY <1>1, <1>5, <1>6, <1>7, SameIsQuiet, MIsTame DEF Near
<1> QED BY <1>1, <1>4, <1>8, QuietlySettled

LEMMA OutcomeUnreadIsQuiet ==
  ASSUME Reasonable, OutcomeUnread
  PROVE  QuietStep
<1>1. /\ m # Nil /\ Quietly
  BY DEF OutcomeUnread
<1>2. m \in Windows
  BY <1>1, MIsTame
<1>3. PICK c : c = IF m.chain # Nil /\ (m.chain.create = m.detail
                                            \/ (m.chain.startJob = m.detail /\ ~m.chain.discarding))
                   THEN Nil ELSE m.chain
  OBVIOUS
<1>4. c \in Chain \cup {Nil}
  BY <1>1, <1>2, <1>3 DEF Windows
<1>5. PICK x : x = [m EXCEPT !.outcome = "failed", !.chain = c]
  OBVIOUS
<1>6. Settled(x)
  BY <1>1, <1>3, <1>5 DEF Settled, OutcomeUnread
<1>7. x \in Windows
  BY <1>2, <1>4, <1>5, Constants, ZenonT(40) DEF Windows
<1>8. /\ x.chain = c /\ x.form = m.form /\ x.plan = m.plan /\ x.key = m.key
      /\ x.offer = m.offer /\ x.asked = m.asked /\ x.load = m.load
      /\ x.checking = m.checking /\ x.opening = m.opening /\ x.apply = m.apply
      /\ x.busy = m.busy /\ x.detail = m.detail /\ x.saved = m.saved
      /\ x.fenced = m.fenced /\ x.modal = m.modal /\ x.resuming = m.resuming
  BY <1>2, <1>4, <1>5, Constants DEF Windows
<1>9. Explained(x)
  BY <1>1, <1>3, <1>8, MIsTame DEF Explained
<1>10. Quiet(x)
  BY <1>1, <1>3, <1>7, <1>8, <1>9, SameIsQuiet, MIsTame DEF Near
<1> QED BY <1>1, <1>6, <1>10, QuietlySettled

LEMMA EditIsQuiet ==
  ASSUME Reasonable, NEW s \in Settings, Edit(s)
  PROVE  QuietStep
<1>1. /\ m # Nil /\ Quietly /\ m.form # Nil
  BY DEF Edit, Editable, OnForm, Shown
<1>2. m \in Windows
  BY <1>1, MIsTame
<1>3. PICK f : f = [m.form EXCEPT !.settings = s]
  OBVIOUS
<1>4. f \in Form
  BY <1>1, <1>2, <1>3 DEF Windows, Form
<1>5. PICK x : x = [m EXCEPT !.form = f]
  OBVIOUS
<1>6. Settled(x)
  BY <1>1, <1>3, <1>5 DEF Settled, Edit, Editable, OnForm, Shown
<1>7. x \in Windows
  BY <1>2, <1>4, <1>5, Constants DEF Windows
<1>8. /\ x.form = f /\ x.plan = m.plan /\ x.key = m.key /\ x.offer = m.offer
      /\ x.asked = m.asked /\ x.load = m.load /\ x.checking = m.checking
      /\ x.opening = m.opening /\ x.apply = m.apply /\ x.busy = m.busy
      /\ x.chain = m.chain /\ x.detail = m.detail /\ x.saved = m.saved
      /\ x.fenced = m.fenced /\ x.modal = m.modal /\ x.resuming = m.resuming
  BY <1>2, <1>4, <1>5, Constants DEF Windows
<1>9. Explained(x)
  BY <1>1, <1>3, <1>8, MIsTame DEF Explained
<1>10. Quiet(x)
  BY <1>1, <1>3, <1>7, <1>8, <1>9, SameIsQuiet, MIsTame DEF Near
<1> QED BY <1>1, <1>6, <1>10, QuietlySettled

LEMMA EndChainIsQuiet ==
  ASSUME Reasonable, m # Nil, Quietly, Handled([m EXCEPT !.chain = Nil])
  PROVE  QuietStep
<1>1. /\ m # Nil /\ Quietly
  OBVIOUS
<1>2. m \in Windows
  BY <1>1, MIsTame
<1>3. PICK x : x = [m EXCEPT !.chain = Nil]
  OBVIOUS
<1>4. Settled(x)
  BY <1>1, <1>3 DEF Settled
<1>5. x \in Windows
  BY <1>2, <1>3, Constants DEF Windows
<1>6. /\ x.chain = Nil /\ x.form = m.form /\ x.plan = m.plan /\ x.key = m.key
      /\ x.offer = m.offer /\ x.asked = m.asked /\ x.load = m.load
      /\ x.checking = m.checking /\ x.opening = m.opening /\ x.apply = m.apply
      /\ x.busy = m.busy /\ x.detail = m.detail /\ x.saved = m.saved
      /\ x.fenced = m.fenced /\ x.modal = m.modal /\ x.resuming = m.resuming
  BY <1>2, <1>3, Constants DEF Windows
<1>7. Explained(x)
  BY <1>1, <1>6, MIsTame DEF Explained
<1>8. Quiet(x)
  BY <1>1, <1>5, <1>6, <1>7, SameIsQuiet, MIsTame DEF Near
<1> QED BY <1>1, <1>4, <1>8, QuietlySettled

LEMMA ReadOutcomeIsQuiet ==
  ASSUME Reasonable, m # Nil, Quietly, Handled([m EXCEPT !.outcome = "loading"])
  PROVE  QuietStep
<1>1. /\ m # Nil /\ Quietly
  OBVIOUS
<1>2. m \in Windows
  BY <1>1, MIsTame
<1>3. PICK x : x = [m EXCEPT !.outcome = "loading"]
  OBVIOUS
<1>4. Settled(x)
  BY <1>1, <1>3 DEF Settled
<1>5. x \in Windows
  BY <1>2, <1>3, Constants DEF Windows
<1>6. /\ x.form = m.form /\ x.plan = m.plan /\ x.key = m.key /\ x.offer = m.offer
      /\ x.asked = m.asked /\ x.load = m.load /\ x.checking = m.checking
      /\ x.opening = m.opening /\ x.apply = m.apply /\ x.busy = m.busy
      /\ x.chain = m.chain /\ x.detail = m.detail /\ x.saved = m.saved
      /\ x.fenced = m.fenced /\ x.modal = m.modal /\ x.resuming = m.resuming
  BY <1>2, <1>3, Constants DEF Windows
<1>7. Explained(x)
  BY <1>1, <1>6, MIsTame DEF Explained
<1>8. Quiet(x)
  BY <1>1, <1>5, <1>6, <1>7, SameIsQuiet, MIsTame DEF Near
<1> QED BY <1>1, <1>4, <1>8, QuietlySettled

LEMMA JobReadIsQuiet ==
  ASSUME Reasonable, JobRead PROVE QuietStep
<1>1. m # Nil /\ Quietly /\ (Handled([m EXCEPT !.chain = Nil]) \/ Handled([m EXCEPT !.outcome = "loading"]))
  BY DEF JobRead
<1> QED BY <1>1, EndChainIsQuiet, ReadOutcomeIsQuiet

LEMMA UnplannedIsQuiet ==
  ASSUME Reasonable, m # Nil, Unplanned
  PROVE  QuietStep
<1>1. /\ m # Nil /\ Quietly
  BY DEF Unplanned
<1>2. m \in Windows
  BY <1>1, MIsTame
<1>3. PICK b : b = (m.apply # Nil /\ ~(m.chain # Nil /\ ~m.chain.discarding /\ IsCreation(m.form)))
  OBVIOUS
<1>4. b \in Flags
  BY <1>1, <1>2, <1>3 DEF Flags
<1>5. PICK c : c = IF \/ m.chain # Nil /\ m.chain.discarding
                      \/ m.chain # Nil /\ ~m.chain.discarding /\ IsCreation(m.form)
                   THEN Nil ELSE m.chain
  OBVIOUS
<1>6. c \in Chain \cup {Nil}
  BY <1>1, <1>2, <1>5 DEF Windows
<1>7. PICK x : x = [m EXCEPT !.asked = Nil, !.busy = b, !.chain = c]
  OBVIOUS
<1>8. Settled(x)
  BY <1>1, <1>3, <1>5, <1>7 DEF Settled, Unplanned
<1>9. x \in Windows
  BY <1>2, <1>4, <1>6, <1>7, Constants DEF Windows
<1>10. /\ x.asked = Nil /\ x.busy = b /\ x.chain = c /\ x.form = m.form /\ x.plan = m.plan
       /\ x.key = m.key /\ x.offer = m.offer /\ x.load = m.load /\ x.checking = m.checking
       /\ x.opening = m.opening /\ x.apply = m.apply /\ x.detail = m.detail
       /\ x.saved = m.saved /\ x.fenced = m.fenced /\ x.modal = m.modal
       /\ x.resuming = m.resuming
  BY <1>2, <1>4, <1>6, <1>7, Constants DEF Windows
<1>11. Explained(x)
  BY <1>1, <1>3, <1>5, <1>10, MIsTame DEF Explained
<1>12. Quiet(x)
  BY <1>1, <1>3, <1>5, <1>9, <1>10, <1>11, SameIsQuiet, MIsTame DEF Near
<1> QED BY <1>1, <1>8, <1>12, QuietlySettled

LEMMA EscResumedIsQuiet ==
  ASSUME Reasonable, EscForm, m.resuming # Nil /\ IsImport(m.form)
  PROVE  QuietStep
<1>1. /\ m # Nil /\ Quietly /\ ~m.busy
  BY DEF EscForm, Shown
<1>2. m \in Windows
  BY <1>1, MIsTame
<1>3. PICK x : x = [m EXCEPT !.form = Nil, !.picking = FALSE, !.resuming = Nil, !.modal = "import"]
  OBVIOUS
<1>4. Settled(x)
  BY <1>1, <1>3 DEF Settled, EscForm, Shown
<1>5. x \in Windows
  BY <1>2, <1>3, Constants DEF Windows
<1>6. /\ x.form = Nil /\ x.resuming = Nil /\ x.modal = "import" /\ x.plan = m.plan
      /\ x.key = m.key /\ x.offer = m.offer /\ x.asked = m.asked /\ x.load = m.load
      /\ x.checking = m.checking /\ x.opening = m.opening /\ x.apply = m.apply
      /\ x.busy = m.busy /\ x.chain = m.chain /\ x.detail = m.detail /\ x.saved = m.saved
      /\ x.fenced = m.fenced
  BY <1>2, <1>3, Constants DEF Windows
<1>7. Explained(x)
  BY <1>1, <1>6, MIsTame DEF Explained
<1>8. Quiet(x)
  BY <1>1, <1>5, <1>6, <1>7, SameIsQuiet, MIsTame DEF Near, Names
<1> QED BY <1>1, <1>4, <1>8, QuietlySettled

LEMMA EscOtherIsQuiet ==
  ASSUME Reasonable, EscForm, ~(m.resuming # Nil /\ IsImport(m.form))
  PROVE  QuietStep
<1>1. /\ m # Nil /\ Quietly /\ ~m.busy
  BY DEF EscForm, Shown
<1>2. m \in Windows
  BY <1>1, MIsTame
<1>3. PICK a : a = IF IsImport(m.form) THEN Nil ELSE m.asked
  OBVIOUS
<1>4. a \in Question \cup {Nil}
  BY <1>1, <1>2, <1>3 DEF Windows
<1>5. PICK x : x = [m EXCEPT !.form = Nil, !.picking = FALSE, !.asked = a]
  OBVIOUS
<1>6. Settled(x)
  BY <1>1, <1>3, <1>5 DEF Settled, EscForm, Shown
<1>7. x \in Windows
  BY <1>2, <1>4, <1>5, Constants DEF Windows
<1>8. /\ x.form = Nil /\ x.asked = a /\ x.plan = m.plan /\ x.key = m.key
      /\ x.offer = m.offer /\ x.load = m.load /\ x.checking = m.checking
      /\ x.opening = m.opening /\ x.apply = m.apply /\ x.busy = m.busy
      /\ x.chain = m.chain /\ x.detail = m.detail /\ x.saved = m.saved
      /\ x.fenced = m.fenced /\ x.modal = m.modal /\ x.resuming = m.resuming
  BY <1>2, <1>4, <1>5, Constants DEF Windows
<1>9. Explained(x)
  BY <1>1, <1>3, <1>8, MIsTame DEF Explained
<1>10. Quiet(x)
  BY <1>1, <1>3, <1>7, <1>8, <1>9, SameIsQuiet, MIsTame DEF Near
<1> QED BY <1>1, <1>6, <1>10, QuietlySettled

LEMMA EscFormIsQuiet ==
  ASSUME Reasonable, EscForm PROVE QuietStep
BY EscResumedIsQuiet, EscOtherIsQuiet

LEMMA PulseIsQuiet ==
  ASSUME Reasonable, Pulse PROVE QuietStep
<1>1. m # Nil /\ Handled(m) /\ Quietly BY DEF Pulse
<1>2. Quiet(m) BY <1>1, SameIsQuiet, MIsTame DEF Near
<1> QED BY <1>1, <1>2, QuietlySettled DEF Settled

LEMMA LoadingIsQuiet ==
  ASSUME Reasonable, m # Nil, Quietly, NEW n \in Windows, Near(n), NEW id \in Nat,
         Settled(Loading(n, id))
  PROVE  QuietStep
<1>1. PICK x : x = Loading(n, id) OBVIOUS
<1>2. x \in Windows /\ Same(x, n) /\ x.form = n.form /\ x.detail = n.detail /\ Explained(x)
  BY <1>1, LoadingIs
<1>3. ChainGoesOn(n) => ChainGoesOn(x)
  BY <1>2 DEF Same, ChainGoesOn
<1>4. Near(x)
  BY <1>2, <1>3 DEF Near, Same
<1> QED BY <1>1, <1>2, <1>4, SameIsQuiet, QuietlySettled

LEMMA AskingIsQuiet ==
  ASSUME Reasonable, m # Nil, Quietly, NEW n \in Windows, Near(n), NEW op \in Operations,
         NEW settings \in Settings \cup {Nil}, NEW source \in Nat \cup {Nil},
         Settled(Asking(n, op, settings, source))
  PROVE  QuietStep
<1>1. PICK x : x = Asking(n, op, settings, source) OBVIOUS
<1>2. x \in Windows /\ Same(x, n) /\ x.form = n.form /\ x.detail = n.detail /\ Explained(x)
  BY <1>1, AskingIs
<1>3. ChainGoesOn(n) => ChainGoesOn(x)
  BY <1>2 DEF Same, ChainGoesOn
<1>4. Near(x)
  BY <1>2, <1>3 DEF Near, Same
<1> QED BY <1>1, <1>2, <1>4, SameIsQuiet, QuietlySettled

LEMMA MIsNear ==
  ASSUME Reasonable, m # Nil PROVE Near(m)
BY MIsTame DEF Near

LEMMA ChooseSourceIsQuiet ==
  ASSUME Reasonable, NEW j, ChooseSource(j) PROVE QuietStep
<1>1. m # Nil /\ Quietly /\ Settled(Loading(m, j)) /\ j \in DOMAIN accepted
  BY DEF ChooseSource, Shown, Settled, Prepared, IsA
<1>2. j \in Nat
  BY <1>1 DEF Reasonable, WorkspaceTypeOK
<1> QED BY <1>1, <1>2, MIsNear, MIsTame, LoadingIsQuiet

LEMMA HardwareIsAJob ==
  ASSUME NEW f \in Form PROVE HardwareOf(f) \in Nat
BY NilIsNothing DEF HardwareOf, Orphan, Form

LEMMA ReadHardwareIsQuiet ==
  ASSUME Reasonable, ReadHardware PROVE QuietStep
<1>1. m # Nil /\ m.form # Nil /\ Quietly /\ Settled(Loading(m, HardwareOf(m.form)))
  BY DEF ReadHardware, Editable, OnForm, Shown, Settled
<1>2. m \in Windows /\ HardwareOf(m.form) \in Nat
  BY <1>1, MIsTame, HardwareIsAJob DEF Windows
<1> QED BY <1>1, <1>2, MIsNear, LoadingIsQuiet

LEMMA PreviewIsQuiet ==
  ASSUME Reasonable, Preview PROVE QuietStep
<1>1. m # Nil /\ m.form # Nil /\ Quietly
  BY DEF Preview, Editable, OnForm, Shown
<1>2. m \in Windows BY <1>1, MIsTame
<1>3. CASE Handled(Previewing(m))
  <2>1. m.form.settings \in Settings \cup {Nil} /\ m.form.source \in Nat \cup {Nil}
    BY <1>1, <1>2 DEF Windows, Form
  <2>2. PICK op : op = IF IsImport(m.form) THEN "prepare" ELSE "create" OBVIOUS
  <2>3. op \in Operations BY <2>2 DEF Operations
  <2>4. Settled(Asking(m, op, m.form.settings, m.form.source))
    BY <1>3, <2>2 DEF Settled, Previewing
  <2> QED BY <1>1, <1>2, <2>1, <2>3, <2>4, MIsNear, AskingIsQuiet
<1>4. CASE Handled(Loading([m EXCEPT !.autoPreview = TRUE], 0))
  <2>1. PICK n : n = [m EXCEPT !.autoPreview = TRUE] OBVIOUS
  <2>2. n \in Windows BY <1>2, <2>1, Constants DEF Windows
  <2>3. /\ n.key = m.key /\ n.apply = m.apply /\ n.plan = m.plan /\ n.offer = m.offer
        /\ n.saved = m.saved /\ n.fenced = m.fenced /\ n.chain = m.chain /\ n.form = m.form
        /\ n.resuming = m.resuming /\ n.detail = m.detail
    BY <1>2, <2>1, Constants DEF Windows
  <2>4. Near(n) BY <1>1, <2>3, MIsTame DEF Near
  <2> QED BY <1>1, <1>4, <2>1, <2>2, <2>4, LoadingIsQuiet DEF Settled
<1> QED BY <1>3, <1>4 DEF Preview

LEMMA PreviewOtherIsQuiet ==
  ASSUME Reasonable, NEW op \in {"start", "discard"}, NEW v \in Nat, PreviewOther(op, v)
  PROVE  QuietStep
<1>1. m # Nil /\ Quietly /\ Settled(Asking(m, op, Nil, v))
  BY DEF PreviewOther, Shown, Settled
<1>2. op \in Operations BY DEF Operations
<1> QED BY <1>1, <1>2, MIsNear, MIsTame, AskingIsQuiet

LEMMA UnresumedIsQuiet ==
  ASSUME Reasonable, m # Nil, Quietly, m.resuming = Nil, Handled([m EXCEPT !.checking = FALSE])
  PROVE  QuietStep
<1>1. /\ m # Nil /\ Quietly /\ m.resuming = Nil
  OBVIOUS
<1>2. m \in Windows
  BY <1>1, MIsTame
<1>3. PICK f : f = FALSE
  OBVIOUS
<1>4. f \in Flags
  BY <1>1, <1>2, <1>3, Constants
<1>5. PICK x : x = [m EXCEPT !.checking = f]
  OBVIOUS
<1>6. Settled(x)
  BY <1>1, <1>3, <1>5 DEF Settled
<1>7. x \in Windows
  BY <1>2, <1>4, <1>5 DEF Windows
<1>8. /\ x.checking = f /\ x.form = m.form /\ x.plan = m.plan /\ x.key = m.key
      /\ x.offer = m.offer /\ x.asked = m.asked /\ x.load = m.load
      /\ x.opening = m.opening /\ x.apply = m.apply /\ x.busy = m.busy
      /\ x.chain = m.chain /\ x.detail = m.detail /\ x.saved = m.saved
      /\ x.fenced = m.fenced /\ x.modal = m.modal /\ x.resuming = m.resuming
  BY <1>2, <1>4, <1>5, Constants DEF Windows
<1>9. Explained(x)
  BY <1>1, <1>3, <1>8, MIsTame DEF Explained
<1>10. Quiet(x)
  BY <1>1, <1>3, <1>7, <1>8, <1>9, SameIsQuiet, MIsTame DEF Near
<1> QED BY <1>1, <1>6, <1>10, QuietlySettled

LEMMA CheckedOtherIsQuiet ==
  ASSUME Reasonable, m # Nil, Quietly, NEW d \in Document, d = m.resuming, Handled([m EXCEPT !.checking = FALSE, !.busy = FALSE, !.resuming = Nil, !.detail = d.job, !.outcome = "none"])
  PROVE  QuietStep
<1>1. /\ m # Nil /\ Quietly /\ d.job \in Nat /\ d.job <= Len(accepted)
  BY MIsTame, NilIsNothing DEF Document, Names
<1>2. m \in Windows
  BY <1>1, MIsTame
<1>3. PICK f : f = FALSE
  OBVIOUS
<1>4. f \in Flags
  BY <1>1, <1>2, <1>3, Constants
<1>5. PICK o : o = "none"
  OBVIOUS
<1>6. o \in Outcomes
  BY <1>1, <1>2, <1>5, Constants
<1>7. PICK j : j = d.job
  OBVIOUS
<1>8. j \in Nat
  BY <1>1, <1>2, <1>7
<1>9. PICK x : x = [m EXCEPT !.checking = f, !.busy = f, !.resuming = Nil, !.detail = j, !.outcome = o]
  OBVIOUS
<1>10. Settled(x)
  BY <1>1, <1>3, <1>5, <1>7, <1>9 DEF Settled
<1>11. x \in Windows
  BY <1>2, <1>4, <1>6, <1>8, <1>9, Constants DEF Windows
<1>12. /\ x.checking = f /\ x.busy = f /\ x.resuming = Nil /\ x.detail = j
       /\ x.form = m.form /\ x.plan = m.plan /\ x.key = m.key /\ x.offer = m.offer
       /\ x.asked = m.asked /\ x.load = m.load /\ x.opening = m.opening
       /\ x.apply = m.apply /\ x.chain = m.chain /\ x.saved = m.saved
       /\ x.fenced = m.fenced /\ x.modal = m.modal
  BY <1>2, <1>4, <1>6, <1>8, <1>9, Constants DEF Windows
<1>13. Explained(x)
  BY <1>1, <1>3, <1>5, <1>7, <1>12, MIsTame DEF Explained
<1>14. Quiet(x)
  BY <1>1, <1>3, <1>5, <1>7, <1>11, <1>12, <1>13, SameIsQuiet, MIsTame DEF Near, Names
<1> QED BY <1>1, <1>10, <1>14, QuietlySettled

LEMMA CheckedIsQuiet ==
  ASSUME Reasonable, Checked PROVE QuietStep
<1>1. m # Nil /\ Quietly BY DEF Checked
<1>2. m \in Windows BY <1>1, MIsTame
<1>3. CASE m.resuming = Nil
  <2>1. Handled([m EXCEPT !.checking = FALSE]) BY <1>3 DEF Checked
  <2> QED BY <1>1, <1>3, <2>1, UnresumedIsQuiet
<1>4. CASE m.resuming # Nil
  <2>1. PICK d : d = m.resuming OBVIOUS
  <2>2. d \in Document BY <1>2, <1>4, <2>1 DEF Windows
  <2>3. PICK n : n = [m EXCEPT !.checking = FALSE, !.busy = FALSE] OBVIOUS
  <2>4. CASE Handled(Loading(n, d.job))
    <3>1. n \in Windows BY <1>2, <2>3, Constants, ZenonT(40) DEF Windows
    <3>2. /\ n.key = m.key /\ n.apply = m.apply /\ n.plan = m.plan /\ n.offer = m.offer
          /\ n.saved = m.saved /\ n.fenced = m.fenced /\ n.chain = m.chain /\ n.form = m.form
          /\ n.resuming = m.resuming /\ n.detail = m.detail
      BY <1>2, <2>3, Constants DEF Windows
    <3>3. Near(n) BY <1>1, <3>2, MIsTame DEF Near
    <3>4. d.job \in Nat BY <2>2 DEF Document
    <3> QED BY <1>1, <2>4, <3>1, <3>3, <3>4, LoadingIsQuiet DEF Settled
  <2>5. CASE Handled([m EXCEPT !.checking = FALSE, !.busy = FALSE, !.resuming = Nil,
                               !.detail = d.job, !.outcome = "none"])
    BY <1>1, <2>1, <2>2, <2>5, CheckedOtherIsQuiet
  <2>6. \/ Handled(Loading(n, d.job))
        \/ Handled([n EXCEPT !.resuming = Nil, !.detail = d.job, !.outcome = "none"])
    BY <1>4, <2>1, <2>3 DEF Checked
  <2>7. [n EXCEPT !.resuming = Nil, !.detail = d.job, !.outcome = "none"]
          = [m EXCEPT !.checking = FALSE, !.busy = FALSE, !.resuming = Nil,
                      !.detail = d.job, !.outcome = "none"]
    BY <2>3, Zenon
  <2> QED BY <2>4, <2>5, <2>6, <2>7
<1> QED BY <1>3, <1>4

LEMMA ResumeImportIsQuiet ==
  ASSUME Reasonable, m # Nil, Quietly, m.saved # Nil, m.modal # "", Settled([m EXCEPT !.modal = "", !.resuming = m.saved, !.checking = TRUE, !.busy = TRUE])
  PROVE  QuietStep
<1>1. /\ m # Nil /\ Quietly /\ m.saved # Nil
  OBVIOUS
<1>2. m \in Windows
  BY <1>1, MIsTame
<1>3. PICK x : x = [m EXCEPT !.modal = "", !.resuming = m.saved, !.checking = TRUE, !.busy = TRUE]
  OBVIOUS
<1>4. Settled(x)
  BY <1>1, <1>3 DEF Settled
<1>5. x \in Windows
  BY <1>2, <1>3, Constants, ZenonT(40) DEF Windows
<1>6. /\ x.modal = "" /\ x.resuming = m.saved /\ x.checking = TRUE /\ x.busy = TRUE
      /\ x.form = m.form /\ x.plan = m.plan /\ x.key = m.key /\ x.offer = m.offer
      /\ x.asked = m.asked /\ x.load = m.load /\ x.opening = m.opening
      /\ x.apply = m.apply /\ x.chain = m.chain /\ x.detail = m.detail
      /\ x.saved = m.saved /\ x.fenced = m.fenced
  BY <1>2, <1>3, Constants DEF Windows
<1>7. Explained(x)
  BY <1>1, <1>6, MIsTame DEF Explained
<1>8. Quiet(x)
  BY <1>1, <1>5, <1>6, <1>7, SameIsQuiet, MIsTame DEF Near
<1> QED BY <1>1, <1>4, <1>8, QuietlySettled

LEMMA ResumeFormIsQuiet ==
  ASSUME Reasonable, m # Nil, Quietly, m.saved # Nil, m.modal # "", m.saved.state = "editing", NEW r \in {Nil, m.saved}, Settled([m EXCEPT !.modal = "", !.form = m.saved.form, !.resuming = r])
  PROVE  QuietStep
<1>1. /\ m # Nil /\ Quietly /\ m.modal # "" /\ m.saved # Nil /\ m.saved.state = "editing"
  OBVIOUS
<1>2. m \in Windows
  BY <1>1, MIsTame
<1>3. PICK f : f = m.saved.form
  OBVIOUS
<1>4. f \in Form
  BY <1>1, <1>2, <1>3 DEF Windows, Document
<1>5. PICK x : x = [m EXCEPT !.modal = "", !.form = f, !.resuming = r]
  OBVIOUS
<1>6. Settled(x)
  BY <1>1, <1>3, <1>5 DEF Settled
<1>7. x \in Windows
  BY <1>2, <1>4, <1>5, Constants, ZenonT(40) DEF Windows
<1>8. /\ x.modal = "" /\ x.form = f /\ x.resuming = r /\ x.plan = m.plan /\ x.key = m.key
      /\ x.offer = m.offer /\ x.asked = m.asked /\ x.load = m.load
      /\ x.checking = m.checking /\ x.opening = m.opening /\ x.apply = m.apply
      /\ x.busy = m.busy /\ x.chain = m.chain /\ x.detail = m.detail /\ x.saved = m.saved
      /\ x.fenced = m.fenced
  BY <1>2, <1>4, <1>5, Constants DEF Windows
<1>9. Explained(x)
  BY <1>1, <1>3, <1>8, MIsTame DEF Explained
<1>10. Quiet(x)
  BY <1>1, <1>3, <1>7, <1>8, <1>9, SameIsQuiet, MIsTame DEF Near, Names
<1> QED BY <1>1, <1>6, <1>10, QuietlySettled

LEMMA ResumeJobIsQuiet ==
  ASSUME Reasonable, m # Nil, Quietly, m.saved # Nil, m.modal # "", NEW j \in {m.detail, m.saved.job}, Settled([m EXCEPT !.modal = "", !.detail = j, !.outcome = "none"])
  PROVE  QuietStep
<1>1. /\ m # Nil /\ Quietly /\ m.modal # "" /\ m.saved # Nil
  OBVIOUS
<1>2. m \in Windows
  BY <1>1, MIsTame
<1>3. PICK k : k = j
  OBVIOUS
<1>4. k \in Nat
  BY <1>1, <1>2, <1>3, MIsTame DEF Windows, Document
<1>5. PICK x : x = [m EXCEPT !.modal = "", !.detail = k, !.outcome = "none"]
  OBVIOUS
<1>6. Settled(x)
  BY <1>1, <1>3, <1>5 DEF Settled
<1>7. x \in Windows
  BY <1>2, <1>4, <1>5, Constants, ZenonT(40) DEF Windows
<1>8. /\ x.modal = "" /\ x.detail = k /\ x.form = m.form /\ x.plan = m.plan
      /\ x.key = m.key /\ x.offer = m.offer /\ x.asked = m.asked /\ x.load = m.load
      /\ x.checking = m.checking /\ x.opening = m.opening /\ x.apply = m.apply
      /\ x.busy = m.busy /\ x.chain = m.chain /\ x.saved = m.saved /\ x.fenced = m.fenced
      /\ x.resuming = m.resuming
  BY <1>2, <1>4, <1>5, Constants DEF Windows
<1>9. Explained(x)
  BY <1>1, <1>3, <1>8, MIsTame DEF Explained
<1>10. Quiet(x)
  BY <1>1, <1>3, <1>7, <1>8, <1>9, SameIsQuiet, MIsTame DEF Near, Names
<1> QED BY <1>1, <1>6, <1>10, QuietlySettled

LEMMA ResumeSetupIsQuiet ==
  ASSUME Reasonable, ResumeSetup PROVE QuietStep
<1>1. m # Nil /\ Quietly /\ m.saved # Nil BY DEF ResumeSetup
<1>2. m \in Windows BY <1>1, MIsTame
<1>3. PICK d : d = m.saved OBVIOUS
<1>4. PICK n : n = [m EXCEPT !.modal = ""] OBVIOUS
<1>5. d \in Document BY <1>1, <1>2, <1>3 DEF Windows
<1>6. CASE Answering([n EXCEPT !.resuming = d, !.checking = TRUE, !.busy = TRUE])
  <2>1. m.modal # "" /\ Settled([n EXCEPT !.resuming = d, !.checking = TRUE, !.busy = TRUE])
    BY <1>6 DEF Answering, Settled
  <2>2. [n EXCEPT !.resuming = d, !.checking = TRUE, !.busy = TRUE]
          = [m EXCEPT !.modal = "", !.resuming = d, !.checking = TRUE, !.busy = TRUE]
    BY <1>4, Zenon
  <2> QED BY <1>1, <1>3, <2>1, <2>2, ResumeImportIsQuiet
<1>7. ASSUME d.state = "editing", NEW r \in {Nil, d}, Answering([n EXCEPT !.form = d.form, !.resuming = r])
      PROVE  QuietStep
  <2>1. m.modal # "" /\ Settled([n EXCEPT !.form = d.form, !.resuming = r])
    BY <1>7 DEF Answering, Settled
  <2>2. [n EXCEPT !.form = d.form, !.resuming = r]
          = [m EXCEPT !.modal = "", !.form = d.form, !.resuming = r]
    BY <1>4, Zenon
  <2> QED BY <1>1, <1>3, <1>7, <2>1, <2>2, ResumeFormIsQuiet
<1>8. CASE Answering(Loading([n EXCEPT !.resuming = d], HardwareOf(d.form)))
  <2>1. PICK y : y = [n EXCEPT !.resuming = d] OBVIOUS
  <2>2. n \in Windows BY <1>2, <1>4, Constants DEF Windows
  <2>3. y \in Windows BY <1>5, <2>1, <2>2 DEF Windows
  <2>4. /\ n.key = m.key /\ n.apply = m.apply /\ n.plan = m.plan /\ n.offer = m.offer
        /\ n.saved = m.saved /\ n.fenced = m.fenced /\ n.chain = m.chain /\ n.form = m.form
        /\ n.detail = m.detail
    BY <1>2, <1>4, Constants DEF Windows
  <2>5. /\ y.key = n.key /\ y.apply = n.apply /\ y.plan = n.plan /\ y.offer = n.offer
        /\ y.saved = n.saved /\ y.fenced = n.fenced /\ y.chain = n.chain /\ y.form = n.form
        /\ y.resuming = d /\ y.detail = n.detail
    BY <1>5, <2>1, <2>2 DEF Windows
  <2>6. Near(y) BY <1>1, <1>3, <2>4, <2>5, MIsTame DEF Near
  <2>7. HardwareOf(d.form) \in Nat BY <1>5, HardwareIsAJob DEF Document
  <2> QED BY <1>1, <1>8, <2>1, <2>3, <2>6, <2>7, LoadingIsQuiet DEF Settled, Answering
<1>9. ASSUME NEW j \in {m.detail, d.job}, Answering([n EXCEPT !.detail = j, !.outcome = "none"])
      PROVE  QuietStep
  <2>1. m.modal # "" /\ Settled([n EXCEPT !.detail = j, !.outcome = "none"])
    BY <1>9 DEF Answering, Settled
  <2>2. [n EXCEPT !.detail = j, !.outcome = "none"]
          = [m EXCEPT !.modal = "", !.detail = j, !.outcome = "none"]
    BY <1>4, Zenon
  <2> QED BY <1>1, <1>3, <1>9, <2>1, <2>2, ResumeJobIsQuiet
<1>10. n.detail = m.detail BY <1>2, <1>4, Constants DEF Windows
<1>11. PICK j : j = IF d.job = 0 THEN m.detail ELSE d.job OBVIOUS
<1>12. \/ Answering([n EXCEPT !.resuming = d, !.checking = TRUE, !.busy = TRUE])
       \/ d.state = "editing" /\ \E r \in {Nil, d} : Answering([n EXCEPT !.form = d.form, !.resuming = r])
       \/ Answering(Loading([n EXCEPT !.resuming = d], HardwareOf(d.form)))
       \/ Answering([n EXCEPT !.detail = j, !.outcome = "none"])
  BY <1>3, <1>4, <1>10, <1>11 DEF ResumeSetup
<1> QED BY <1>6, <1>7, <1>8, <1>9, <1>11, <1>12

LEMMA PlanFailsIsQuiet ==
  ASSUME Reasonable, PlanFails \/ PlanRefused PROVE QuietStep
BY UnplannedIsQuiet DEF PlanFails, PlanRefused

LEMMA PreparationReadIsQuiet ==
  ASSUME Reasonable, PreparationRead PROVE QuietStep
<1>1. m # Nil /\ Quietly BY DEF PreparationRead
<1>2. m \in Windows BY <1>1, MIsTame
<1>3. PICK j : j = m.waiting OBVIOUS
<1>4. j \in Nat BY <1>2, <1>3 DEF Windows
<1>5. PICK n : n = [m EXCEPT !.waiting = 0] OBVIOUS
<1>6. n \in Windows BY <1>2, <1>5 DEF Windows
<1>7. /\ n.key = m.key /\ n.apply = m.apply /\ n.plan = m.plan /\ n.offer = m.offer
      /\ n.saved = m.saved /\ n.fenced = m.fenced /\ n.chain = m.chain /\ n.form = m.form
      /\ n.resuming = m.resuming /\ n.detail = m.detail
  BY <1>2, <1>5 DEF Windows
<1>8. CASE Handled([Loading(n, j) EXCEPT !.autoReview = j])
  <2>1. PICK l : l = Loading(n, j) OBVIOUS
  <2>2. l \in Windows /\ Same(l, n) /\ l.form = n.form /\ l.detail = n.detail /\ Explained(l)
    BY <1>4, <1>6, <2>1, LoadingIs
  <2>3. PICK x : x = [l EXCEPT !.autoReview = j] OBVIOUS
  <2>4. x \in Windows BY <1>4, <2>2, <2>3 DEF Windows
  <2>5. Same(x, l) /\ x.form = l.form /\ x.detail = l.detail /\ Explained(x)
    BY <1>4, <2>2, <2>3 DEF Windows, Same, Explained
  <2>6. Near(x) BY <1>1, <1>7, <2>2, <2>5, MIsTame DEF Near, Same
  <2> QED BY <1>1, <1>8, <2>1, <2>3, <2>4, <2>5, <2>6, SameIsQuiet, QuietlySettled DEF Settled
<1>9. CASE Handled([n EXCEPT !.chain = Nil])
  <2>1. PICK x : x = [n EXCEPT !.chain = Nil] OBVIOUS
  <2>2. x \in Windows BY <1>6, <2>1 DEF Windows
  <2>3. /\ x.key = n.key /\ x.apply = n.apply /\ x.plan = n.plan /\ x.offer = n.offer
        /\ x.saved = n.saved /\ x.fenced = n.fenced /\ x.chain = Nil /\ x.form = n.form
        /\ x.resuming = n.resuming /\ x.detail = n.detail
    BY <1>6, <2>1 DEF Windows
  <2>4. /\ x.busy = m.busy /\ x.asked = m.asked /\ x.load = m.load /\ x.opening = m.opening
        /\ x.checking = m.checking /\ x.modal = m.modal
    BY <1>2, <1>5, <1>6, <2>1 DEF Windows
  <2>5. Explained(x) BY <1>1, <1>7, <2>3, <2>4, MIsTame DEF Explained
  <2>6. Near(x) BY <1>1, <1>7, <2>3, MIsTame DEF Near
  <2> QED BY <1>1, <1>9, <2>1, <2>2, <2>5, <2>6, SameIsQuiet, QuietlySettled DEF Settled
<1> QED BY <1>3, <1>5, <1>8, <1>9 DEF PreparationRead

LEMMA VMOfIs ==
  ASSUME Reasonable, m # Nil, m.detail # 0 PROVE VMOf(m.detail) \in Nat \cup {Nil}
<1>1. m \in Windows /\ m.detail <= Len(accepted) BY MIsTame
<1>2. m.detail \in DOMAIN accepted /\ accepted \in Seq(AcceptedJob)
  BY <1>1 DEF Windows, Reasonable, WorkspaceTypeOK
<1>3. accepted[m.detail] \in AcceptedJob BY <1>2
<1>4. accepted[m.detail].plan.source \in Nat \cup {Nil}
  BY <1>3 DEF AcceptedJob, Review
<1> QED BY <1>1, <1>4 DEF VMOf, Windows

LEMMA VMOpenedIsQuiet ==
  ASSUME Reasonable, VMOpened PROVE QuietStep
<1>1. m # Nil /\ Quietly BY DEF VMOpened
<1>2. m \in Windows BY <1>1, MIsTame
<1>3. PICK f, o : f = FALSE /\ o = "no" OBVIOUS
<1>4. f \in Flags /\ o \in Openings BY <1>3, Constants
<1>5. PICK n : n = [m EXCEPT !.opening = o, !.busy = f] OBVIOUS
<1>6. n \in Windows BY <1>2, <1>4, <1>5 DEF Windows
<1>7. /\ n.key = m.key /\ n.apply = m.apply /\ n.plan = m.plan /\ n.offer = m.offer
      /\ n.saved = m.saved /\ n.fenced = m.fenced /\ n.chain = m.chain /\ n.form = m.form
      /\ n.resuming = m.resuming /\ n.detail = m.detail /\ n.busy = f
  BY <1>2, <1>4, <1>5 DEF Windows
<1>8. Explained(n) BY <1>3, <1>7 DEF Explained
<1>9. CASE Handled(n)
  <2>1. Near(n) BY <1>1, <1>7, MIsTame DEF Near
  <2> QED BY <1>1, <1>6, <1>8, <1>9, <2>1, SameIsQuiet, QuietlySettled DEF Settled
<1>10. PICK p : p = Paged(n) OBVIOUS
<1>11. p \in Windows /\ Same(p, n) /\ p.form = n.form /\ p.detail = 0 /\ Explained(p)
  BY <1>6, <1>10, PagedIs
<1>12. Near(p) BY <1>1, <1>7, <1>11, MIsTame DEF Near, Same
<1>13. CASE Handled(p)
  BY <1>1, <1>11, <1>12, <1>13, SameIsQuiet, QuietlySettled DEF Settled
<1>14. CASE m.detail # 0 /\ Handled(Asking(p, "start", Nil, VMOf(m.detail)))
  <2>1. "start" \in Operations BY DEF Operations
  <2>2. PICK v : v = VMOf(m.detail) OBVIOUS
  <2>3. v \in Nat \cup {Nil} BY <1>1, <1>14, <2>2, VMOfIs
  <2>4. Settled(Asking(p, "start", Nil, v)) BY <1>14, <2>2 DEF Settled
  <2>5. Nil \in Settings \cup {Nil} OBVIOUS
  <2> QED BY <1>1, <1>11, <1>12, <2>1, <2>3, <2>4, <2>5, AskingIsQuiet
<1>15. \/ Handled(n) \/ Handled(p)
       \/ m.detail # 0 /\ Handled(Asking(p, "start", Nil, VMOf(m.detail)))
  <2>1. n = [m EXCEPT !.opening = "no", !.busy = FALSE] BY <1>3, <1>5
  <2>2. \/ Handled(n) \/ Handled(Paged(n))
        \/ m.detail # 0 /\ Handled(Asking(Paged(n), "start", Nil, VMOf(m.detail)))
    BY <2>1 DEF VMOpened
  <2> QED BY <1>10, <2>2
<1> QED BY <1>9, <1>13, <1>14, <1>15

LEMMA OutcomeReadIsQuiet ==
  ASSUME Reasonable, OutcomeRead PROVE QuietStep
<1>1. m # Nil /\ Quietly BY DEF OutcomeRead
<1>2. m \in Windows BY <1>1, MIsTame
<1>3. PICK r : r = "read" OBVIOUS
<1>4. r \in Outcomes BY <1>3, Constants
<1>5. PICK n : n = [m EXCEPT !.outcome = r] OBVIOUS
<1>6. n \in Windows BY <1>2, <1>4, <1>5 DEF Windows
<1>7. /\ n.key = m.key /\ n.apply = m.apply /\ n.plan = m.plan /\ n.offer = m.offer
      /\ n.saved = m.saved /\ n.fenced = m.fenced /\ n.chain = m.chain /\ n.form = m.form
      /\ n.resuming = m.resuming /\ n.detail = m.detail /\ n.busy = m.busy
      /\ n.asked = m.asked /\ n.load = m.load /\ n.opening = m.opening
      /\ n.checking = m.checking /\ n.modal = m.modal
  BY <1>2, <1>4, <1>5 DEF Windows
<1>8. Explained(n) BY <1>1, <1>7, MIsTame DEF Explained
<1>9. CASE Handled(n)
  <2>1. Near(n) BY <1>1, <1>7, MIsTame DEF Near
  <2> QED BY <1>1, <1>6, <1>8, <1>9, <2>1, SameIsQuiet, QuietlySettled DEF Settled
<1>10. CASE Handled([n EXCEPT !.chain = Nil])
  <2>1. PICK x : x = [n EXCEPT !.chain = Nil] OBVIOUS
  <2>2. x \in Windows BY <1>6, <2>1 DEF Windows
  <2>3. /\ x.key = n.key /\ x.apply = n.apply /\ x.plan = n.plan /\ x.offer = n.offer
        /\ x.saved = n.saved /\ x.fenced = n.fenced /\ x.chain = Nil /\ x.form = n.form
        /\ x.resuming = n.resuming /\ x.detail = n.detail /\ x.busy = n.busy
        /\ x.asked = n.asked /\ x.load = n.load /\ x.opening = n.opening
        /\ x.checking = n.checking /\ x.modal = n.modal
    BY <1>6, <2>1 DEF Windows
  <2>4. Explained(x) BY <1>8, <2>3 DEF Explained
  <2>5. Near(x) BY <1>1, <1>7, <2>3, MIsTame DEF Near
  <2> QED BY <1>1, <1>10, <2>1, <2>2, <2>4, <2>5, SameIsQuiet, QuietlySettled DEF Settled
<1>11. PICK c : c = m.chain OBVIOUS
<1>12. c # Nil => c \in Chain BY <1>2, <1>11 DEF Windows
<1>13. CASE /\ c # Nil /\ c.cleanup
            /\ Handled(Asking([n EXCEPT !.chain.discarding = TRUE], "discard", Nil, c.source))
  <2>1. PICK d : d = [c EXCEPT !.discarding = TRUE] OBVIOUS
  <2>2. d \in Chain BY <1>12, <1>13, <2>1 DEF Chain
  <2>3. /\ d.root = c.root /\ d.approved = c.approved /\ d.start = c.start
        /\ d.cleanup = c.cleanup /\ d.prep = c.prep /\ d.create = c.create
        /\ d.source = c.source /\ d.vm = c.vm
    BY <1>12, <1>13, <2>1 DEF Chain
  <2>4. PICK x : x = [n EXCEPT !.chain = d] OBVIOUS
  <2>5. x = [n EXCEPT !.chain.discarding = TRUE] BY <1>7, <1>11, <2>1, <2>4
  <2>6. x \in Windows BY <1>6, <2>2, <2>4 DEF Windows
  <2>7. /\ x.key = n.key /\ x.apply = n.apply /\ x.plan = n.plan /\ x.offer = n.offer
        /\ x.saved = n.saved /\ x.fenced = n.fenced /\ x.chain = d /\ x.form = n.form
        /\ x.resuming = n.resuming /\ x.detail = n.detail
    BY <1>6, <2>2, <2>4 DEF Windows
  <2>8. ChainGoesOn(x) BY <1>11, <1>13, <2>3, <2>7 DEF ChainGoesOn
  <2>9. Near(x) BY <1>1, <1>7, <2>7, <2>8, MIsTame DEF Near
  <2>10. "discard" \in Operations /\ c.source \in Nat \cup {Nil} /\ Nil \in Settings \cup {Nil}
    BY <1>12, <1>13 DEF Operations, Chain
  <2>11. Settled(Asking(x, "discard", Nil, c.source)) BY <1>13, <2>5 DEF Settled
  <2> QED BY <1>1, <2>6, <2>9, <2>10, <2>11, AskingIsQuiet
<1>14. CASE /\ c # Nil /\ c.create = m.detail /\ c.start
            /\ Handled([n EXCEPT !.chain.vm = n.detail, !.opening = "start", !.busy = TRUE])
  <2>1. PICK d : d = [c EXCEPT !.vm = m.detail] OBVIOUS
  <2>2. d \in Chain BY <1>2, <1>12, <1>14, <2>1 DEF Chain, Windows
  <2>3. /\ d.root = c.root /\ d.approved = c.approved /\ d.start = c.start
        /\ d.cleanup = c.cleanup /\ d.prep = c.prep /\ d.create = c.create
        /\ d.source = c.source /\ d.vm = c.create /\ d.discarding = c.discarding
    BY <1>12, <1>14, <2>1 DEF Chain
  <2>4. PICK s, t : s = "start" /\ t = TRUE OBVIOUS
  <2>5. s \in Openings /\ t \in Flags BY <2>4, Constants
  <2>6. PICK x : x = [n EXCEPT !.chain = d, !.opening = s, !.busy = t] OBVIOUS
  <2>7. x = [n EXCEPT !.chain.vm = n.detail, !.opening = "start", !.busy = TRUE]
    BY <1>7, <1>11, <2>1, <2>4, <2>6
  <2>8. x \in Windows BY <1>6, <2>2, <2>5, <2>6, ZenonT(40) DEF Windows
  <2>9. /\ x.key = n.key /\ x.apply = n.apply /\ x.plan = n.plan /\ x.offer = n.offer
        /\ x.saved = n.saved /\ x.fenced = n.fenced /\ x.chain = d /\ x.form = n.form
        /\ x.resuming = n.resuming /\ x.detail = n.detail /\ x.opening = s
    BY <1>6, <2>2, <2>5, <2>6 DEF Windows
  <2>10. ChainGoesOn(x) BY <1>11, <1>14, <2>3, <2>9 DEF ChainGoesOn
  <2>11. Explained(x) BY <2>4, <2>9 DEF Explained
  <2>12. Near(x) BY <1>1, <1>7, <2>9, <2>10, MIsTame DEF Near
  <2> QED BY <1>1, <1>14, <2>7, <2>8, <2>11, <2>12, SameIsQuiet, QuietlySettled DEF Settled
<1>15. n = [m EXCEPT !.outcome = "read"] BY <1>3, <1>5
<1>16. Handled(Continuing(n)) BY <1>15 DEF OutcomeRead
<1>17. n.chain = c /\ n.detail = m.detail BY <1>7, <1>11
<1>18. Discarding(n) = IF c.source = 0 THEN [n EXCEPT !.chain = Nil]
                       ELSE Asking([n EXCEPT !.chain.discarding = TRUE], "discard", Nil, c.source)
  BY <1>17, Zenon DEF Discarding
<1>19. \/ Continuing(n) = n \/ Continuing(n) = [n EXCEPT !.chain = Nil]
       \/ c # Nil /\ c.cleanup /\ Continuing(n) = Discarding(n)
       \/ /\ c # Nil /\ c.create = m.detail /\ c.start
          /\ Continuing(n) = [n EXCEPT !.chain.vm = n.detail, !.opening = "start", !.busy = TRUE]
  BY <1>17 DEF Continuing
<1> QED BY <1>9, <1>10, <1>13, <1>14, <1>16, <1>18, <1>19

\* A window after such a step.
Anew(x) ==
  /\ x.key = m.key /\ x.apply = m.apply
  /\ (x.plan = m.plan /\ x.offer = m.offer) \/ (x.plan = Nil /\ x.offer = Nil)
  /\ x.saved \in {m.saved, Nil} /\ ~x.fenced
  /\ (x.chain = m.chain) \/ (x.chain = Nil) \/ ChainGoesOn(x)
  /\ x.resuming \in {m.resuming, Nil} /\ x.detail = m.detail

LEMMA AnewIsFresh ==
  ASSUME Reasonable, m # Nil, NEW x \in Windows, Anew(x), Explained(x)
  PROVE  Fresh(x)
<1>1. ChainGoesOn(x) BY DEF ChainGoesOn, Anew
<1>2. Names(x.saved) /\ Names(x.resuming) BY MIsTame DEF Anew, Names
<1> QED BY <1>1, <1>2, MIsTame DEF Fresh, Tame, Anew

LEMMA FreshlySettled ==
  ASSUME m # Nil, NEW x, Fresh(x), Settled(x), unconfirmed' = FALSE, UNCHANGED <<accepted, strays, ids>>
  PROVE  FreshStep
BY DEF FreshStep, Fresh, Tame

LEMMA OpenPageIs ==
  ASSUME NEW n \in Windows, NEW kind, NEW x, x = OpenPage(n, kind)
  PROVE  /\ x \in Windows /\ x.key = n.key /\ x.apply = n.apply /\ x.plan = n.plan
         /\ x.offer = n.offer /\ x.saved = n.saved /\ ~x.fenced /\ x.chain = n.chain
         /\ x.resuming = n.resuming /\ x.detail = n.detail
         /\ Explained(n) => Explained(x)
<1>1. PICK f, t : f = FALSE /\ t = TRUE OBVIOUS
<1>2. f \in Flags /\ t \in Flags BY <1>1, Constants
<1>3. CASE x = [n EXCEPT !.fenced = f, !.picking = t]
  <2>1. x \in Windows
    <3>1. [n EXCEPT !.fenced = f, !.picking = t] \in Windows BY <1>2, ZenonT(40) DEF Windows
    <3> QED BY <1>3, <3>1, Zenon
  <2>2. /\ x.key = n.key /\ x.apply = n.apply /\ x.plan = n.plan
        /\ x.offer = n.offer /\ x.saved = n.saved /\ x.fenced = f /\ x.chain = n.chain
        /\ x.resuming = n.resuming /\ x.detail = n.detail /\ x.busy = n.busy
        /\ x.asked = n.asked /\ x.load = n.load /\ x.opening = n.opening
        /\ x.checking = n.checking /\ x.modal = n.modal
    BY <1>2, <1>3 DEF Windows
  <2> QED BY <1>1, <2>1, <2>2 DEF Explained
<1>4. CASE x = [n EXCEPT !.fenced = f, !.form = ImportOf(Nil)]
  <2>1. PICK i : i = ImportOf(Nil) OBVIOUS
  <2>2. i \in Form BY <2>1 DEF ImportOf, Form
  <2>3. x = [n EXCEPT !.fenced = f, !.form = i] BY <1>4, <2>1
  <2>4. x \in Windows
    <3>1. PICK y : y = [n EXCEPT !.form = i] OBVIOUS
    <3>2. y \in Windows BY <2>2, <3>1 DEF Windows
    <3>3. [y EXCEPT !.fenced = f] \in Windows BY <1>2, <3>2 DEF Windows
    <3>4. x = [y EXCEPT !.fenced = f] BY <2>3, <3>1, Zenon
    <3> QED BY <3>3, <3>4, Zenon
  <2>5. /\ x.key = n.key /\ x.apply = n.apply /\ x.plan = n.plan
        /\ x.offer = n.offer /\ x.saved = n.saved /\ x.fenced = f /\ x.chain = n.chain
        /\ x.resuming = n.resuming /\ x.detail = n.detail /\ x.busy = n.busy
        /\ x.asked = n.asked /\ x.load = n.load /\ x.opening = n.opening
        /\ x.checking = n.checking /\ x.modal = n.modal
    BY <1>2, <2>2, <2>3 DEF Windows
  <2> QED BY <1>1, <2>4, <2>5 DEF Explained
<1> QED BY <1>1, <1>3, <1>4 DEF OpenPage

LEMMA NewVMIsFresh ==
  ASSUME Reasonable, NewVM PROVE FreshStep
<1>1. /\ m # Nil /\ unconfirmed' = FALSE /\ UNCHANGED <<accepted, strays, ids>>
      /\ Settled(OpenPage(m, "import"))
  BY DEF NewVM, OnPage, Shown, Settled
<1>2. PICK x : x = OpenPage(m, "import") OBVIOUS
<1>3. x \in Windows /\ Anew(x) /\ Explained(x)
  BY <1>1, <1>2, MIsTame, OpenPageIs DEF Anew
<1> QED BY <1>1, <1>2, <1>3, AnewIsFresh, FreshlySettled

LEMMA StartNewIsFresh ==
  ASSUME Reasonable, StartNew PROVE FreshStep
<1>1. PICK n : n = [m EXCEPT !.modal = "", !.resuming = Nil, !.saved = Nil,
                             !.form = Nil, !.kept = Nil] OBVIOUS
<1>2. PICK x : x = OpenPage(n, m.modal) OBVIOUS
<1>3. /\ m # Nil /\ unconfirmed' = FALSE /\ UNCHANGED <<accepted, strays, ids>>
      /\ Settled(x) /\ m.modal # ""
  BY <1>1, <1>2 DEF StartNew, Answering, Settled
<1>4. m \in Windows BY <1>3, MIsTame
<1>5. n \in Windows BY <1>1, <1>4, Constants, ZenonT(40) DEF Windows
<1>6. /\ n.key = m.key /\ n.apply = m.apply /\ n.plan = m.plan
      /\ n.offer = m.offer /\ n.saved = Nil /\ n.chain = m.chain
      /\ n.resuming = Nil /\ n.detail = m.detail /\ n.busy = m.busy
      /\ n.asked = m.asked /\ n.load = m.load /\ n.opening = m.opening
  BY <1>1, <1>4, Constants DEF Windows
<1>7. Explained(n) BY <1>3, <1>6, MIsTame DEF Explained
<1>8. x \in Windows /\ Anew(x) /\ Explained(x)
  BY <1>2, <1>5, <1>6, <1>7, OpenPageIs DEF Anew
<1> QED BY <1>3, <1>8, AnewIsFresh, FreshlySettled

LEMMA OpenSetupIsTame ==
  ASSUME Reasonable, NEW kind \in {"import", "creation"}, OpenSetup(kind)
  PROVE  QuietStep \/ FreshStep
<1>1. m # Nil /\ UNCHANGED <<accepted, strays, ids>> BY DEF OpenSetup, OnPage, Shown
<1>2. ~m.busy /\ m.modal = "" BY DEF OpenSetup, OnPage, Shown, Ready
<1>3. m \in Windows BY <1>1, MIsTame
<1>4. PICK n : n = NoOutcome(m) OBVIOUS
<1>5. n \in Windows /\ Same(n, m) /\ n.form = m.form /\ n.detail = m.detail /\ Explained(n)
  BY <1>1, <1>3, <1>4, NoOutcomeIs, MIsTame
<1>6. CASE Handled([n EXCEPT !.modal = kind]) /\ UNCHANGED unconfirmed
  <2>1. PICK k : k = kind OBVIOUS
  <2>2. k \in Modals BY <2>1, Constants
  <2>3. PICK x : x = [n EXCEPT !.modal = k] OBVIOUS
  <2>4. x \in Windows BY <1>5, <2>2, <2>3 DEF Windows
  <2>5. /\ x.key = n.key /\ x.apply = n.apply /\ x.plan = n.plan /\ x.offer = n.offer
        /\ x.saved = n.saved /\ x.fenced = n.fenced /\ x.chain = n.chain /\ x.form = n.form
        /\ x.resuming = n.resuming /\ x.detail = n.detail /\ x.busy = n.busy
    BY <1>5, <2>2, <2>3 DEF Windows
  <2>6. ~n.busy BY <1>2, <1>3, <1>4 DEF NoOutcome, Windows
  <2>7. Explained(x) BY <2>5, <2>6 DEF Explained
  <2>8. Near(x) BY <1>1, <1>5, <2>5, MIsTame DEF Near, Same
  <2>9. Settled(x) BY <1>6, <2>1, <2>3 DEF Settled
  <2> QED BY <1>1, <1>6, <2>4, <2>7, <2>8, <2>9, SameIsQuiet, QuietlySettled DEF Quietly
<1>7. CASE Handled(OpenPage([n EXCEPT !.saved = Nil], kind)) /\ unconfirmed' = FALSE
  <2>1. PICK y : y = [n EXCEPT !.saved = Nil] OBVIOUS
  <2>2. y \in Windows BY <1>5, <2>1 DEF Windows
  <2>3. /\ y.key = n.key /\ y.apply = n.apply /\ y.plan = n.plan /\ y.offer = n.offer
        /\ y.saved = Nil /\ y.fenced = n.fenced /\ y.chain = n.chain /\ y.form = n.form
        /\ y.resuming = n.resuming /\ y.detail = n.detail /\ y.busy = n.busy
        /\ y.asked = n.asked /\ y.load = n.load /\ y.opening = n.opening
        /\ y.checking = n.checking /\ y.modal = n.modal
    BY <1>5, <2>1 DEF Windows
  <2>4. Explained(y) BY <1>5, <2>3 DEF Explained
  <2>5. PICK x : x = OpenPage(y, kind) OBVIOUS
  <2>6. x \in Windows /\ Anew(x) /\ Explained(x)
    BY <1>5, <2>2, <2>3, <2>4, <2>5, OpenPageIs DEF Anew, Same
  <2>7. Settled(x) BY <1>7, <2>1, <2>5 DEF Settled
  <2> QED BY <1>1, <1>7, <2>6, <2>7, AnewIsFresh, FreshlySettled
<1> QED BY <1>4, <1>6, <1>7 DEF OpenSetup

LEMMA FilledIs ==
  ASSUME Reasonable, m # Nil, m.load # Nil, NEW s \in Settings \cup {Nil}, NEW x, x = Filled(m, s)
  PROVE  /\ x \in Windows /\ x.form # Nil /\ x.resuming \in {m.resuming, Nil}
         /\ x.key = m.key /\ x.apply = m.apply /\ x.plan = m.plan /\ x.offer = m.offer
         /\ x.saved = m.saved /\ x.chain = m.chain /\ x.detail = m.detail
<1>1. m \in Windows BY MIsTame
<1>2. ASSUME NEW f \in Form, NEW r \in {m.resuming, Nil}, NEW k \in {m.kept, Nil},
             x = [m EXCEPT !.form = f, !.resuming = r, !.kept = k]
      PROVE  /\ x \in Windows /\ x.form # Nil /\ x.resuming \in {m.resuming, Nil}
             /\ x.key = m.key /\ x.apply = m.apply /\ x.plan = m.plan /\ x.offer = m.offer
             /\ x.saved = m.saved /\ x.chain = m.chain /\ x.detail = m.detail
  <2>1. r \in Document \cup {Nil} /\ k \in Form \cup {Nil}
    BY <1>1 DEF Windows
  <2>2. x \in Windows
    <3>1. PICK y : y = [m EXCEPT !.form = f] OBVIOUS
    <3>2. y \in Windows BY <1>1, <3>1 DEF Windows
    <3>3. PICK z : z = [y EXCEPT !.resuming = r] OBVIOUS
    <3>4. z \in Windows BY <2>1, <3>2, <3>3 DEF Windows
    <3>5. [z EXCEPT !.kept = k] \in Windows BY <2>1, <3>4 DEF Windows
    <3>6. x = [z EXCEPT !.kept = k] BY <1>2, <3>1, <3>3, Zenon
    <3> QED BY <3>5, <3>6, Zenon
  <2>3. /\ x.form = f /\ x.resuming = r
        /\ x.key = m.key /\ x.apply = m.apply /\ x.plan = m.plan /\ x.offer = m.offer
        /\ x.saved = m.saved /\ x.chain = m.chain /\ x.detail = m.detail
    BY <1>1, <1>2 DEF Windows
  <2> QED BY <2>2, <2>3, NilIsNothing
<1>3. m.load \in Nat BY <1>1 DEF Windows
<1>4. PICK d : d = m.resuming OBVIOUS
<1>5. d # Nil => d.form \in Form BY <1>1, <1>4 DEF Windows, Document
<1>6. PICK a : a = [source |-> m.load, settings |-> s] OBVIOUS
<1>7. PICK b : b = [source |-> Nil, settings |-> s] OBVIOUS
<1>8. PICK e : e = [source |-> m.load, settings |-> d.form.settings] OBVIOUS
<1>9. a \in Form /\ b \in Form BY <1>3, <1>6, <1>7 DEF Form
<1>10. d # Nil => e \in Form BY <1>3, <1>5, <1>8 DEF Form
<1>11. \/ d # Nil /\ x = [m EXCEPT !.form = e, !.resuming = Nil]
       \/ d # Nil /\ x = [m EXCEPT !.form = d.form, !.resuming = Nil]
       \/ m.kept # Nil /\ x = [m EXCEPT !.form = m.kept, !.kept = Nil]
       \/ m.form # Nil /\ x = m
       \/ x = [m EXCEPT !.form = b] \/ x = [m EXCEPT !.form = a]
  BY <1>4, <1>6, <1>7, <1>8 DEF Filled
<1>12. ASSUME NEW f \in Form PROVE
         /\ [m EXCEPT !.form = f] = [m EXCEPT !.form = f, !.resuming = m.resuming, !.kept = m.kept]
         /\ [m EXCEPT !.form = f, !.resuming = Nil] = [m EXCEPT !.form = f, !.resuming = Nil, !.kept = m.kept]
         /\ [m EXCEPT !.form = f, !.kept = Nil] = [m EXCEPT !.form = f, !.resuming = m.resuming, !.kept = Nil]
  BY <1>1 DEF Windows
<1>13. CASE d # Nil /\ x = [m EXCEPT !.form = e, !.resuming = Nil]
  <2>1. x = [m EXCEPT !.form = e, !.resuming = Nil, !.kept = m.kept] BY <1>10, <1>12, <1>13
  <2> QED BY <1>2, <1>10, <1>13, <2>1
<1>14. CASE d # Nil /\ x = [m EXCEPT !.form = d.form, !.resuming = Nil]
  <2>1. x = [m EXCEPT !.form = d.form, !.resuming = Nil, !.kept = m.kept] BY <1>5, <1>12, <1>14
  <2> QED BY <1>2, <1>5, <1>14, <2>1
<1>15. CASE m.kept # Nil /\ x = [m EXCEPT !.form = m.kept, !.kept = Nil]
  <2>1. m.kept \in Form BY <1>1, <1>15 DEF Windows
  <2>2. x = [m EXCEPT !.form = m.kept, !.resuming = m.resuming, !.kept = Nil] BY <1>12, <1>15, <2>1
  <2> QED BY <1>2, <2>1, <2>2
<1>16. CASE x = [m EXCEPT !.form = b]
  <2>1. x = [m EXCEPT !.form = b, !.resuming = m.resuming, !.kept = m.kept] BY <1>9, <1>12, <1>16
  <2> QED BY <1>2, <1>9, <2>1
<1>17. CASE x = [m EXCEPT !.form = a]
  <2>1. x = [m EXCEPT !.form = a, !.resuming = m.resuming, !.kept = m.kept] BY <1>9, <1>12, <1>17
  <2> QED BY <1>2, <1>9, <2>1
<1>18. CASE m.form # Nil /\ x = m
  BY <1>1, <1>18
<1> QED BY <1>11, <1>13, <1>14, <1>15, <1>16, <1>17, <1>18

LEMMA PreviewingIs ==
  ASSUME NEW n \in Windows, n.form # Nil, NEW x, x = Previewing(n)
  PROVE  x \in Windows /\ Same(x, n) /\ x.form = n.form /\ x.detail = n.detail /\ Explained(x)
<1>1. n.form.settings \in Settings \cup {Nil} /\ n.form.source \in Nat \cup {Nil}
  BY DEF Windows, Form
<1>2. PICK op : op = IF IsImport(n.form) THEN "prepare" ELSE "create" OBVIOUS
<1>3. op \in Operations BY <1>2 DEF Operations
<1>4. x = Asking(n, op, n.form.settings, n.form.source) BY <1>2 DEF Previewing
<1> QED BY <1>1, <1>3, <1>4, AskingIs

LEMMA LoadedIsFresh ==
  ASSUME Reasonable, Loaded PROVE FreshStep
<1>1. m # Nil /\ m.load # Nil /\ unconfirmed' = FALSE /\ UNCHANGED <<accepted, strays, ids>>
  BY DEF Loaded
<1>2. m \in Windows BY <1>1, MIsTame
<1>3. PICK s \in Settings \cup {Nil} :
       LET n == [Filled(m, s) EXCEPT !.load = Nil, !.busy = FALSE, !.picking = FALSE,
                                     !.fenced = FALSE, !.autoReview = 0]
           early == [n EXCEPT !.autoPreview = FALSE, !.autoReview = m.autoReview] IN
       \/ Handled(Previewing(early)) \/ Handled(early)
       \/ Handled(Previewing(n))
       \/ n.chain # Nil /\ Handled(Previewing([n EXCEPT !.chain.sent = n.form.settings]))
       \/ Handled([n EXCEPT !.chain = Nil])
       \/ Handled(n)
  BY DEF Loaded
<1>4. PICK g : g = Filled(m, s) OBVIOUS
<1>5. PICK f : f = FALSE OBVIOUS
<1>6. f \in Flags BY <1>5, Constants
<1>7. PICK n : n = [g EXCEPT !.load = Nil, !.busy = f, !.picking = f, !.fenced = f, !.autoReview = 0]
  OBVIOUS
<1>8. PICK e : e = [n EXCEPT !.autoPreview = f, !.autoReview = m.autoReview] OBVIOUS
<1>9. /\ g \in Windows /\ g.form # Nil /\ g.resuming \in {m.resuming, Nil}
      /\ g.key = m.key /\ g.apply = m.apply /\ g.plan = m.plan /\ g.offer = m.offer
      /\ g.saved = m.saved /\ g.chain = m.chain /\ g.detail = m.detail
  BY <1>1, <1>4, FilledIs
<1>10. n \in Windows BY <1>6, <1>7, <1>9, ZenonT(40) DEF Windows
<1>11. /\ n.form = g.form /\ n.resuming = g.resuming /\ n.busy = f /\ n.fenced = f
       /\ n.key = g.key /\ n.apply = g.apply /\ n.plan = g.plan /\ n.offer = g.offer
       /\ n.saved = g.saved /\ n.chain = g.chain /\ n.detail = g.detail
  BY <1>6, <1>7, <1>9 DEF Windows
<1>12. Anew(n) /\ Explained(n) /\ n.form # Nil /\ n.chain = m.chain
  BY <1>5, <1>9, <1>11 DEF Anew, Explained
<1>13. m.autoReview \in Nat BY <1>2 DEF Windows
<1>14. e \in Windows BY <1>6, <1>8, <1>10, <1>13, ZenonT(40) DEF Windows
<1>15. /\ e.form = n.form /\ e.resuming = n.resuming /\ e.busy = n.busy /\ e.fenced = n.fenced
       /\ e.key = n.key /\ e.apply = n.apply /\ e.plan = n.plan /\ e.offer = n.offer
       /\ e.saved = n.saved /\ e.chain = n.chain /\ e.detail = n.detail
  BY <1>6, <1>8, <1>10, <1>13 DEF Windows
<1>16. Anew(e) /\ Explained(e) /\ e.form # Nil
  BY <1>5, <1>11, <1>12, <1>15 DEF Anew, Explained
<1>17. ASSUME NEW x \in Windows, Anew(x), x.form # Nil, Handled(Previewing(x))
       PROVE  FreshStep
  <2>1. PICK y : y = Previewing(x) OBVIOUS
  <2>2. y \in Windows /\ Same(y, x) /\ y.form = x.form /\ y.detail = x.detail /\ Explained(y)
    BY <1>17, <2>1, PreviewingIs
  <2>3. ChainGoesOn(x) => ChainGoesOn(y) BY <2>2 DEF Same, ChainGoesOn
  <2>4. Anew(y) BY <1>17, <2>2, <2>3 DEF Anew, Same
  <2> QED BY <1>1, <1>17, <2>1, <2>2, <2>4, AnewIsFresh, FreshlySettled DEF Settled
<1>18. ASSUME NEW x \in Windows, Anew(x), Explained(x), Handled(x)
       PROVE  FreshStep
  BY <1>1, <1>18, AnewIsFresh, FreshlySettled DEF Settled
<1>19. CASE Handled([n EXCEPT !.chain = Nil])
  <2>1. PICK x : x = [n EXCEPT !.chain = Nil] OBVIOUS
  <2>2. x \in Windows BY <1>10, <2>1 DEF Windows
  <2>3. /\ x.resuming = n.resuming /\ x.busy = n.busy /\ x.fenced = n.fenced
        /\ x.key = n.key /\ x.apply = n.apply /\ x.plan = n.plan /\ x.offer = n.offer
        /\ x.saved = n.saved /\ x.chain = Nil /\ x.detail = n.detail
    BY <1>10, <2>1 DEF Windows
  <2>4. Anew(x) /\ Explained(x) BY <1>5, <1>11, <1>12, <2>3 DEF Anew, Explained
  <2> QED BY <1>18, <1>19, <2>1, <2>2, <2>4
<1>20. CASE n.chain # Nil /\ Handled(Previewing([n EXCEPT !.chain.sent = n.form.settings]))
  <2>1. PICK c : c = n.chain OBVIOUS
  <2>2. c \in Chain BY <1>10, <1>20, <2>1 DEF Windows
  <2>3. PICK t : t = n.form.settings OBVIOUS
  <2>4. t \in Settings \cup {Nil} BY <1>10, <1>12, <2>3 DEF Windows, Form
  <2>5. PICK d : d = [c EXCEPT !.sent = t] OBVIOUS
  <2>6. d \in Chain BY <2>2, <2>4, <2>5 DEF Chain
  <2>7. /\ d.root = c.root /\ d.approved = c.approved /\ d.start = c.start
        /\ d.cleanup = c.cleanup /\ d.prep = c.prep /\ d.create = c.create
        /\ d.source = c.source /\ d.vm = c.vm /\ d.discarding = c.discarding
    BY <2>2, <2>4, <2>5 DEF Chain
  <2>8. PICK x : x = [n EXCEPT !.chain = d] OBVIOUS
  <2>9. x = [n EXCEPT !.chain.sent = n.form.settings] BY <2>1, <2>3, <2>5, <2>8
  <2>10. x \in Windows BY <1>10, <2>6, <2>8 DEF Windows
  <2>11. /\ x.resuming = n.resuming /\ x.fenced = n.fenced /\ x.form = n.form
        /\ x.key = n.key /\ x.apply = n.apply /\ x.plan = n.plan /\ x.offer = n.offer
        /\ x.saved = n.saved /\ x.chain = d /\ x.detail = n.detail
    BY <1>10, <2>6, <2>8 DEF Windows
  <2>12. ChainGoesOn(x) BY <1>12, <1>20, <2>1, <2>7, <2>11 DEF ChainGoesOn
  <2>13. Anew(x) /\ x.form # Nil BY <1>12, <2>11, <2>12 DEF Anew
  <2> QED BY <1>17, <1>20, <2>9, <2>10, <2>13
<1>21. \/ Handled(Previewing(e)) \/ Handled(e) \/ Handled(Previewing(n))
       \/ n.chain # Nil /\ Handled(Previewing([n EXCEPT !.chain.sent = n.form.settings]))
       \/ Handled([n EXCEPT !.chain = Nil]) \/ Handled(n)
  <2>1. /\ n = [Filled(m, s) EXCEPT !.load = Nil, !.busy = FALSE, !.picking = FALSE,
                                    !.fenced = FALSE, !.autoReview = 0]
        /\ e = [n EXCEPT !.autoPreview = FALSE, !.autoReview = m.autoReview]
    BY <1>4, <1>5, <1>7, <1>8
  <2> QED BY <1>3, <2>1
<1> QED BY <1>10, <1>12, <1>14, <1>16, <1>17, <1>18, <1>19, <1>20, <1>21

-----------------------------------------------------------------------------
(* What a step does to the window and to the writes on their way.          *)

\* All but the saved setup.
Like(x, n) ==
  /\ x.form = n.form /\ x.plan = n.plan /\ x.key = n.key /\ x.offer = n.offer
  /\ x.asked = n.asked /\ x.load = n.load /\ x.checking = n.checking
  /\ x.opening = n.opening /\ x.apply = n.apply /\ x.busy = n.busy /\ x.chain = n.chain
  /\ x.detail = n.detail /\ x.fenced = n.fenced /\ x.modal = n.modal
  /\ x.resuming = n.resuming

\* A setup being edited becomes the saved one.
Chosen(n, d) ==
  /\ d \in Document /\ d.state = "editing" /\ d.job = 0
  /\ m'.saved = d /\ n.form # Nil /\ ~n.fenced
  /\ saves' = Append(Lasting, [doc |-> d, call |-> Nil])

\* t is s without some of its elements.
Thinned(t, s) ==
  /\ t \in Seq(Save)
  /\ \E at \in [DOMAIN t -> DOMAIN s] :
       /\ \A i \in DOMAIN t : t[i] = s[at[i]]
       /\ \A i, k \in DOMAIN t : i < k => at[i] < at[k]

LEMMA WithoutIsThinned ==
  ASSUME saves \in Seq(Save), NEW i \in DOMAIN saves
  PROVE  Thinned(Without(i), saves)
<1>1. PICK n : n = Len(saves) OBVIOUS
<1>2. n \in Nat /\ DOMAIN saves = 1 .. n /\ i \in 1 .. n BY <1>1
<1>3. PICK w : w = Without(i) OBVIOUS
<1>4. w = [k \in 1 .. n - 1 |-> IF k < i THEN saves[k] ELSE saves[k + 1]]
  BY <1>1, <1>3 DEF Without
<1>5. \A k \in 1 .. n - 1 : (IF k < i THEN saves[k] ELSE saves[k + 1]) \in Save
  BY <1>1, <1>2
<1>6. n - 1 \in Nat BY <1>2
<1>7. w \in Seq(Save) /\ DOMAIN w = 1 .. n - 1
  BY <1>4, <1>5, <1>6, IsASeq
<1>8. PICK at : at = [k \in 1 .. n - 1 |-> IF k < i THEN k ELSE k + 1] OBVIOUS
<1>9. at \in [DOMAIN w -> DOMAIN saves] BY <1>2, <1>7, <1>8
<1>10. \A k \in DOMAIN w : w[k] = saves[at[k]] BY <1>2, <1>4, <1>7, <1>8
<1>11. \A k, l \in DOMAIN w : k < l => at[k] < at[l] BY <1>2, <1>7, <1>8
<1> QED BY <1>3, <1>7, <1>9, <1>10, <1>11 DEF Thinned

LEMMA AllIsThinned ==
  ASSUME NEW s \in Seq(Save) PROVE Thinned(s, s)
<1>1. PICK at : at = [i \in DOMAIN s |-> i] OBVIOUS
<1> QED BY <1>1 DEF Thinned

LEMMA LastingIsThinned ==
  ASSUME saves \in Seq(Save) PROVE Thinned(Lasting, saves)
<1>1. CASE Choices = {} BY <1>1, AllIsThinned DEF Lasting
<1>2. CASE Choices # {}
  <2>1. PICK i : i = CHOOSE k \in Choices : TRUE OBVIOUS
  <2>2. i \in Choices BY <1>2, <2>1
  <2>3. i \in DOMAIN saves BY <2>2 DEF Choices
  <2> QED BY <1>2, <2>1, <2>3, WithoutIsThinned DEF Lasting
<1> QED BY <1>1, <1>2

LEMMA OvertakingIsThinned ==
  ASSUME saves \in Seq(Save), NEW i \in DOMAIN saves
  PROVE  /\ Thinned(Overtaking(i), saves)
         /\ \A k \in DOMAIN Overtaking(i) : k + i \in DOMAIN saves /\ Overtaking(i)[k] = saves[k + i]
<1>1. PICK n : n = Len(saves) OBVIOUS
<1>2. n \in Nat /\ DOMAIN saves = 1 .. n /\ i \in 1 .. n BY <1>1
<1>3. PICK t : t = Overtaking(i) OBVIOUS
<1>4. /\ t \in Seq(Save) /\ DOMAIN t = 1 .. n - i
      /\ \A k \in DOMAIN t : k + i \in DOMAIN saves /\ t[k] = saves[k + i]
  BY <1>1, <1>2, <1>3 DEF Overtaking
<1>5. PICK at : at = [k \in 1 .. n - i |-> k + i] OBVIOUS
<1>6. at \in [DOMAIN t -> DOMAIN saves] BY <1>2, <1>4, <1>5
<1>7. \A k \in DOMAIN t : t[k] = saves[at[k]] BY <1>2, <1>4, <1>5
<1>8. \A k, l \in DOMAIN t : k < l => at[k] < at[l] BY <1>2, <1>4, <1>5
<1> QED BY <1>3, <1>4, <1>6, <1>7, <1>8 DEF Thinned

LEMMA SettledIs ==
  ASSUME saves \in Seq(Save), NEW n \in Windows, Settled(n)
  PROVE  /\ m' \in Windows /\ m' # Nil /\ Like(m', n) /\ UNCHANGED <<file, writer>>
         /\ \/ m' = n /\ saves' = saves
            \/ \E d \in Document : Chosen(n, d)
<1>1. n # Nil BY NilIsNothing
<1>2. Like(n, n) BY DEF Like
<1>3. CASE m' = n /\ saves' = saves /\ UNCHANGED <<file, writer>>
  BY <1>1, <1>2, <1>3
<1>4. CASE ~(m' = n /\ saves' = saves) /\ UNCHANGED <<file, writer>> /\ Becomes(n)
  <2>1. PICK f : f = n.form OBVIOUS
  <2>2. PICK d : d = IF f = Nil THEN n.saved ELSE Draft(f) OBVIOUS
  <2>3. /\ ~n.fenced /\ d # n.saved /\ m' = [n EXCEPT !.saved = d]
        /\ saves' = Append(Lasting, [doc |-> d, call |-> Nil])
    BY <1>4, <2>1, <2>2 DEF Becomes
  <2>4. f # Nil /\ f \in Form /\ d = Draft(f) BY <2>1, <2>2, <2>3 DEF Windows
  <2>5. d \in Document /\ d.state = "editing" /\ d.job = 0
    BY <2>4 DEF Draft, Document
  <2>6. m' \in Windows BY <2>3, <2>5, ZenonT(40) DEF Windows
  <2>7. Like(m', n) /\ m'.saved = d BY <2>3, <2>5 DEF Windows, Like
  <2>8. Chosen(n, d) BY <2>1, <2>3, <2>4, <2>5, <2>7 DEF Chosen
  <2> QED BY <1>4, <2>5, <2>6, <2>7, <2>8, NilIsNothing
<1> QED BY <1>3, <1>4 DEF Settled, Handled, disk_, Becomes

-----------------------------------------------------------------------------
(* A plan is sent. *)

CallFor(n, by) ==
  [plan |-> n.plan, key |-> KeyOfReview(n), by |-> by, approval |-> n.offer,
   root |-> IF by = "chain" THEN n.chain.root ELSE 0]
Abandoned(n) == IF n.apply # Nil /\ n.apply.stage = "sent" THEN {n.apply.call} ELSE {}

Sent(n, c) ==
  /\ c \in Call /\ m' \in Windows /\ m' # Nil
  /\ m'.key = c.key /\ m'.plan = n.plan /\ m'.offer = n.offer /\ m'.chain = n.chain
  /\ m'.resuming = n.resuming /\ m'.detail = n.detail /\ m'.form = n.form
  /\ m'.apply # Nil /\ m'.apply.call = c
  /\ \/ /\ n.form = Nil /\ m'.apply.stage = "sent" /\ saves' = saves
        /\ m'.saved = n.saved /\ m'.fenced = n.fenced
     \/ /\ m'.apply.stage = "guard" /\ m'.fenced
        /\ \E d \in Document : /\ m'.saved = d /\ d.state = "submitting" /\ d.job = 0
                               /\ saves' = Append(saves, [doc |-> d, call |-> c])
  /\ strays' = strays \cup Abandoned(n)
  /\ ids'.review = (IF n.plan.id > ids.review THEN n.plan.id ELSE ids.review)
  /\ ids'.key = (IF c.key > ids.key THEN c.key ELSE ids.key)
  /\ ids' \in [review : Nat, key : Nat] /\ UNCHANGED <<file, writer>>

LEMMA SendingIs ==
  ASSUME NEW n \in Windows, n.plan # Nil, NEW by \in {"user", "chain"},
         by = "chain" => n.chain # Nil, ids \in [review : Nat, key : Nat], Sending(n, by)
  PROVE  Sent(n, CallFor(n, by))
<1>1. PICK k : k = KeyOfReview(n) OBVIOUS
<1>2. k \in Nat BY <1>1 DEF KeyOfReview, Windows
<1>3. PICK c : c = CallFor(n, by) OBVIOUS
<1>4. PICK r : r = IF by = "chain" THEN n.chain.root ELSE 0 OBVIOUS
<1>5. r \in Nat BY <1>4 DEF Windows, Chain
<1>6. n.plan \in Review /\ n.offer \in Offer \cup {Nil} BY DEF Windows
<1>7. c = [plan |-> n.plan, key |-> k, by |-> by, approval |-> n.offer, root |-> r]
  BY <1>1, <1>3, <1>4 DEF CallFor
<1>8. c \in Call /\ c.key = k /\ c.plan = n.plan BY <1>2, <1>5, <1>6, <1>7 DEF Call
<1>9. PICK t : t = TRUE OBVIOUS
<1>10. t \in Flags BY <1>9, Constants
<1>11. PICK y : y = [n EXCEPT !.busy = t, !.key = k] OBVIOUS
<1>12. y \in Windows BY <1>2, <1>10, <1>11, ZenonT(40) DEF Windows
<1>13. y.key = k /\ Same(y, [n EXCEPT !.key = k]) /\ y.form = n.form /\ y.detail = n.detail
  BY <1>2, <1>10, <1>11 DEF Windows, Same
<1>14. PICK o : o = NoOutcome(y) OBVIOUS
<1>15. o \in Windows /\ Same(o, y) /\ o.form = y.form /\ o.detail = y.detail
  BY <1>12, <1>14, NoOutcomeIs
<1>16. /\ o.key = k /\ o.plan = n.plan /\ o.offer = n.offer /\ o.chain = n.chain
       /\ o.resuming = n.resuming /\ o.detail = n.detail /\ o.form = n.form
       /\ o.saved = n.saved /\ o.fenced = n.fenced
  <2>1. /\ y.plan = n.plan /\ y.offer = n.offer /\ y.chain = n.chain
        /\ y.resuming = n.resuming /\ y.saved = n.saved /\ y.fenced = n.fenced
    BY <1>2, <1>10, <1>11 DEF Windows
  <2> QED BY <1>13, <1>15, <2>1 DEF Same
<1>17. PICK d : d = [Draft(n.form) EXCEPT !.state = "submitting"] OBVIOUS
<1>18. /\ strays' = strays \cup Abandoned(n)
       /\ ids' = [review |-> IF n.plan.id > ids.review THEN n.plan.id ELSE ids.review,
                  key |-> IF k > ids.key THEN k ELSE ids.key]
       /\ UNCHANGED <<file, writer>>
       /\ IF n.form = Nil
          THEN m' = [o EXCEPT !.apply = [call |-> c, stage |-> "sent", job |-> 0]] /\ saves' = saves
          ELSE /\ m' = [o EXCEPT !.apply = [call |-> c, stage |-> "guard", job |-> 0],
                                 !.saved = d, !.fenced = TRUE]
               /\ saves' = Append(saves, [doc |-> d, call |-> c])
  <2>1. n.apply # Nil /\ n.apply.stage = "sent" =>
          strays \cup {n.apply.call} = strays \cup Abandoned(n)
    BY DEF Abandoned
  <2>2. ~(n.apply # Nil /\ n.apply.stage = "sent") => strays = strays \cup Abandoned(n)
    BY DEF Abandoned
  <2> QED BY <1>1, <1>4, <1>7, <1>9, <1>11, <1>14, <1>17, <2>1, <2>2 DEF Sending
<1>19. /\ ids'.review = (IF n.plan.id > ids.review THEN n.plan.id ELSE ids.review)
       /\ ids'.key = (IF k > ids.key THEN k ELSE ids.key)
       /\ ids' \in [review : Nat, key : Nat]
  BY <1>2, <1>6, <1>18 DEF Review
<1>20. CASE n.form = Nil
  <2>1. PICK a : a = [call |-> c, stage |-> "sent", job |-> 0] OBVIOUS
  <2>2. a \in Submission /\ a # Nil /\ a.call = c /\ a.stage = "sent"
    BY <1>8, <2>1, NilIsNothing DEF Submission
  <2>3. PICK x : x = [o EXCEPT !.apply = a] OBVIOUS
  <2>4. x \in Windows BY <1>15, <2>2, <2>3 DEF Windows
  <2>5. /\ x.apply = a /\ x.key = o.key /\ x.plan = o.plan /\ x.offer = o.offer
        /\ x.chain = o.chain /\ x.resuming = o.resuming /\ x.detail = o.detail
        /\ x.form = o.form /\ x.saved = o.saved /\ x.fenced = o.fenced
    BY <1>15, <2>2, <2>3 DEF Windows
  <2>6. m' = x /\ saves' = saves BY <1>18, <1>20, <2>1, <2>3
  <2> QED BY <1>3, <1>8, <1>16, <1>18, <1>19, <1>20, <2>2, <2>4, <2>5, <2>6, NilIsNothing DEF Sent
<1>21. CASE n.form # Nil
  <2>1. PICK a : a = [call |-> c, stage |-> "guard", job |-> 0] OBVIOUS
  <2>2. a \in Submission /\ a # Nil /\ a.call = c /\ a.stage = "guard"
    BY <1>8, <2>1, NilIsNothing DEF Submission
  <2>3. n.form \in Form BY <1>21 DEF Windows
  <2>4. d \in Document /\ d.state = "submitting" /\ d.job = 0
    BY <1>17, <2>3 DEF Draft, Document
  <2>5. PICK y1 : y1 = [o EXCEPT !.apply = a] OBVIOUS
  <2>6. PICK y2 : y2 = [y1 EXCEPT !.saved = d] OBVIOUS
  <2>7. PICK x : x = [y2 EXCEPT !.fenced = t] OBVIOUS
  <2>8. y1 \in Windows BY <1>15, <2>2, <2>5 DEF Windows
  <2>9. y2 \in Windows BY <2>4, <2>6, <2>8 DEF Windows
  <2>10. x \in Windows BY <1>10, <2>7, <2>9 DEF Windows
  <2>11. /\ y1.apply = a /\ y1.key = o.key /\ y1.plan = o.plan /\ y1.offer = o.offer
         /\ y1.chain = o.chain /\ y1.resuming = o.resuming /\ y1.detail = o.detail
         /\ y1.form = o.form
    BY <1>15, <2>2, <2>5 DEF Windows
  <2>12. /\ y2.apply = y1.apply /\ y2.key = y1.key /\ y2.plan = y1.plan /\ y2.offer = y1.offer
         /\ y2.chain = y1.chain /\ y2.resuming = y1.resuming /\ y2.detail = y1.detail
         /\ y2.form = y1.form /\ y2.saved = d
    BY <2>4, <2>6, <2>8 DEF Windows
  <2>13. /\ x.apply = y2.apply /\ x.key = y2.key /\ x.plan = y2.plan /\ x.offer = y2.offer
         /\ x.chain = y2.chain /\ x.resuming = y2.resuming /\ x.detail = y2.detail
         /\ x.form = y2.form /\ x.saved = y2.saved /\ x.fenced = t
    BY <1>10, <2>7, <2>9 DEF Windows
  <2>14. m' = x /\ saves' = Append(saves, [doc |-> d, call |-> c])
    BY <1>9, <1>18, <1>21, <2>1, <2>5, <2>6, <2>7, Zenon
  <2>15. m'.apply.stage = "guard" /\ m'.fenced
    BY <1>9, <2>2, <2>11, <2>12, <2>13, <2>14
  <2> QED BY SMTT(30), <1>3, <1>8, <1>16, <1>18, <1>19, <2>2, <2>4, <2>10, <2>11, <2>12, <2>13, <2>14, <2>15,
             NilIsNothing DEF Sent
<1> QED BY <1>20, <1>21

-----------------------------------------------------------------------------
(* A plan arrives. *)

Planned(n, p) ==
  /\ p \in Review /\ p.id = ids.review + 1 /\ p.op = m.asked.op /\ p.source = m.asked.source
  /\ n \in Windows /\ n.plan = p /\ n.key = 0 /\ n.offer = OfferFor(m, p) /\ ~n.busy
  /\ n.apply = m.apply /\ n.chain = m.chain /\ n.saved = m.saved /\ n.fenced = m.fenced
  /\ n.form = m.form /\ n.detail = m.detail /\ n.resuming = m.resuming

Looked(x, n, p) ==
  /\ x \in Windows /\ x.plan = p /\ x.key = 0 /\ x.offer = n.offer /\ ~x.busy
  /\ x.apply = n.apply /\ x.saved = n.saved /\ x.fenced = n.fenced /\ x.form = n.form
  /\ x.detail = n.detail /\ x.resuming = n.resuming
  /\ (x.chain # Nil => x.chain = n.chain /\ ~Expected(n))
  /\ Settled(x) /\ ids'.review = p.id /\ ids'.key = ids.key /\ strays' = strays
  /\ ids' \in [review : Nat, key : Nat]

LEMMA OfferForIs ==
  ASSUME NEW n \in Windows, NEW p \in Review
  PROVE  OfferFor(n, p) \in Offer \cup {Nil}
<1>1. PICK s : s = n.form.settings OBVIOUS
<1>2. n.form # Nil /\ s # Nil => s \in Settings BY <1>1 DEF Windows, Form
<1>3. PICK asks : asks = p.asks \cup (IF p.op = "prepare" THEN Asks("create") ELSE {})
                               \cup (IF s \in Cleaning THEN Asks("discard") ELSE {})
  OBVIOUS
<1>4. p.asks \subseteq Effects BY DEF Review
<1>5. Asks("create") \subseteq Effects /\ Asks("discard") \subseteq Effects
  BY DEF Asks, Effects
<1>6. asks \subseteq Effects BY <1>3, <1>4, <1>5
<1>7. PICK o : o = [settings |-> s, start |-> s \in Starting, cleanup |-> s \in Cleaning, asks |-> asks]
  OBVIOUS
<1>8. s \in Settings => o \in Offer
  <2>1. PICK a, b : a = (s \in Starting) /\ b = (s \in Cleaning) OBVIOUS
  <2>2. a \in BOOLEAN /\ b \in BOOLEAN BY <2>1
  <2>3. o = [settings |-> s, start |-> a, cleanup |-> b, asks |-> asks] BY <1>7, <2>1, Zenon
  <2> QED BY <1>6, <2>2, <2>3 DEF Offer
<1>9. (OfferFor(n, p) = o /\ n.form # Nil /\ s # Nil) \/ OfferFor(n, p) = Nil
  BY <1>1, <1>3, <1>7 DEF OfferFor
<1> QED BY <1>2, <1>8, <1>9

LEMMA Arriving ==
  ASSUME NEW i \in [review : Nat, key : Nat], NEW n \in Nat, NEW k, k = [i EXCEPT !.review = n]
  PROVE  k.review = n /\ k.key = i.key /\ k \in [review : Nat, key : Nat]
OBVIOUS

LEMMA AnotherReview ==
  ASSUME NEW i \in [review : Nat, key : Nat] PROVE i.review + 1 \in Nat
OBVIOUS

LEMMA PlanArrivesIs ==
  ASSUME Reasonable, PlanArrives
  PROVE  /\ m # Nil /\ m.asked # Nil /\ Plannable(m.asked) /\ UNCHANGED <<accepted, unconfirmed>>
         /\ \E p \in Review, n \in Windows :
              /\ Planned(n, p)
              /\ \/ Expected(n) /\ AsApproved(n.chain, p) /\ Sent(n, CallFor(n, "chain"))
                 \/ \E x \in Windows : Looked(x, n, p)
<1>1. m # Nil /\ m.asked # Nil /\ Plannable(m.asked) /\ UNCHANGED <<accepted, unconfirmed>>
  BY DEF PlanArrives
<1>2. m \in Windows /\ ids \in [review : Nat, key : Nat]
  BY <1>1, MIsTame DEF Reasonable, WorkspaceTypeOK
<1>3. PICK r : r = m.asked OBVIOUS
<1>4. r \in Question BY <1>1, <1>2, <1>3 DEF Windows
<1>5. PICK more \in {{}} \cup (IF m.asked.op = "create" THEN {{"something new"}} ELSE {}) :
       LET p == [id |-> ids.review + 1, op |-> r.op, settings |-> r.settings,
                 source |-> r.source, asks |-> Asks(r.op) \cup more]
           n == [m EXCEPT !.asked = Nil, !.busy = FALSE, !.plan = p, !.key = 0,
                          !.offer = OfferFor(m, p)] IN
       \/ Expected(n) /\ AsApproved(n.chain, p) /\ Sending(n, "chain")
       \/ /\ Expected(n) /\ ~AsApproved(n.chain, p)
          /\ Handled([n EXCEPT !.chain = Nil]) /\ ids' = [ids EXCEPT !.review = p.id] /\ strays' = strays
       \/ /\ ~Expected(n)
          /\ Handled(n) /\ ids' = [ids EXCEPT !.review = p.id] /\ strays' = strays
  BY <1>3, ZenonT(40) DEF PlanArrives
<1>6. PICK p : p = [id |-> ids.review + 1, op |-> r.op, settings |-> r.settings,
                    source |-> r.source, asks |-> Asks(r.op) \cup more]
  OBVIOUS
<1>7. PICK f : f = FALSE OBVIOUS
<1>8. f \in Flags BY <1>7, Constants
<1>9. PICK o : o = OfferFor(m, p) OBVIOUS
<1>10. PICK n : n = [m EXCEPT !.asked = Nil, !.busy = f, !.plan = p, !.key = 0, !.offer = o]
  OBVIOUS
<1>11. /\ p \in Review /\ p.id = ids.review + 1 /\ p.op = r.op /\ p.source = r.source
       /\ p.id \in Nat
  <2>1. PICK e : e = Asks(r.op) \cup more OBVIOUS
  <2>2. e \subseteq Effects BY <2>1 DEF Asks, Effects
  <2>3. ids.review + 1 \in Nat BY <1>2, AnotherReview
  <2>4. PICK k \in Nat : k = ids.review + 1 BY <2>3, Zenon
  <2>5. p = [id |-> k, op |-> r.op, settings |-> r.settings, source |-> r.source, asks |-> e]
    BY <1>6, <2>1, <2>4, Zenon
  <2>6. /\ r.op \in Operations /\ r.settings \in Settings \cup {Nil}
        /\ r.source \in Nat \cup {Nil}
    BY <1>4 DEF Question
  <2>7. p \in Review BY <2>2, <2>4, <2>5, <2>6 DEF Review
  <2> QED BY <2>4, <2>5, <2>7
<1>12. o \in Offer \cup {Nil} BY <1>2, <1>9, <1>11, OfferForIs
<1>13. n \in Windows
  <2>1. PICK y : y = [m EXCEPT !.asked = Nil, !.busy = f] OBVIOUS
  <2>2. y \in Windows BY <1>2, <1>8, <2>1, ZenonT(40) DEF Windows
  <2>3. PICK z : z = [y EXCEPT !.plan = p, !.key = 0] OBVIOUS
  <2>4. z \in Windows BY <1>11, <2>2, <2>3, ZenonT(40) DEF Windows
  <2>5. PICK w : w = [z EXCEPT !.offer = o] OBVIOUS
  <2>6. w \in Windows BY <1>12, <2>4, <2>5 DEF Windows
  <2>7. n = w BY <1>10, <2>1, <2>3, <2>5, Zenon
  <2> QED BY <2>6, <2>7, Zenon
<1>14. /\ n.plan = p /\ n.key = 0 /\ n.offer = o /\ n.busy = f
       /\ n.apply = m.apply /\ n.chain = m.chain /\ n.saved = m.saved /\ n.fenced = m.fenced
       /\ n.form = m.form /\ n.detail = m.detail /\ n.resuming = m.resuming
  BY <1>2, <1>10 DEF Windows
<1>15. Planned(n, p) BY <1>3, <1>7, <1>9, <1>11, <1>13, <1>14 DEF Planned
<1>16. \/ Expected(n) /\ AsApproved(n.chain, p) /\ Sending(n, "chain")
       \/ /\ Handled([n EXCEPT !.chain = Nil]) /\ ids' = [ids EXCEPT !.review = p.id] /\ strays' = strays
       \/ /\ ~Expected(n)
          /\ Handled(n) /\ ids' = [ids EXCEPT !.review = p.id] /\ strays' = strays
  <2>1. n = [m EXCEPT !.asked = Nil, !.busy = FALSE, !.plan = p, !.key = 0, !.offer = OfferFor(m, p)]
    BY <1>7, <1>9, <1>10
  <2> QED BY <1>5, <1>6, <2>1
<1>17. CASE Expected(n) /\ AsApproved(n.chain, p) /\ Sending(n, "chain")
  <2>1. n.plan # Nil /\ n.chain # Nil BY <1>11, <1>14, <1>17, NilIsNothing DEF Expected
  <2>2. Sent(n, CallFor(n, "chain")) BY <1>2, <1>13, <1>17, <2>1, SendingIs
  <2> QED BY <1>1, <1>11, <1>13, <1>15, <1>17, <2>2
<1>18. CASE Handled([n EXCEPT !.chain = Nil]) /\ ids' = [ids EXCEPT !.review = p.id] /\ strays' = strays
  <2>1. PICK x : x = [n EXCEPT !.chain = Nil] OBVIOUS
  <2>2. x \in Windows BY <1>13, <2>1 DEF Windows
  <2>3. /\ x.plan = n.plan /\ x.key = n.key /\ x.offer = n.offer /\ x.busy = n.busy
        /\ x.apply = n.apply /\ x.chain = Nil /\ x.saved = n.saved /\ x.fenced = n.fenced
        /\ x.form = n.form /\ x.detail = n.detail /\ x.resuming = n.resuming
    BY <1>13, <2>1 DEF Windows
  <2>4. ids'.review = p.id /\ ids'.key = ids.key /\ ids' \in [review : Nat, key : Nat]
    BY <1>2, <1>11, <1>18, Arriving
  <2>5. Settled(x) BY <1>18, <2>1 DEF Settled
  <2>6. Looked(x, n, p) BY <1>7, <1>14, <1>18, <2>2, <2>3, <2>4, <2>5 DEF Looked
  <2> QED BY <1>1, <1>11, <1>13, <1>15, <2>2, <2>6
<1>19. CASE ~Expected(n) /\ Handled(n) /\ ids' = [ids EXCEPT !.review = p.id] /\ strays' = strays
  <2>1. ids'.review = p.id /\ ids'.key = ids.key /\ ids' \in [review : Nat, key : Nat]
    BY <1>2, <1>11, <1>19, Arriving
  <2>2. Settled(n) BY <1>19 DEF Settled
  <2>3. Looked(n, n, p) BY <1>7, <1>13, <1>14, <1>19, <2>1, <2>2 DEF Looked
  <2> QED BY <1>1, <1>11, <1>13, <1>15, <2>3
<1> QED BY <1>16, <1>17, <1>18, <1>19

LEMMA ConfirmIs ==
  ASSUME Reasonable, Confirm
  PROVE  /\ m # Nil /\ m.plan # Nil /\ m.apply = Nil /\ UNCHANGED <<accepted, unconfirmed>>
         /\ Sent(m, CallFor(m, "user"))
<1>1. /\ m # Nil /\ m.plan # Nil /\ m.apply = Nil /\ UNCHANGED <<accepted, unconfirmed>>
      /\ Sending(m, "user")
  BY DEF Confirm, Ready
<1>2. m \in Windows /\ ids \in [review : Nat, key : Nat]
  BY <1>1, MIsTame DEF Reasonable, WorkspaceTypeOK
<1> QED BY <1>1, <1>2, SendingIs

-----------------------------------------------------------------------------
(* An answer to a submission. *)

\* What is known of a window that lost its submission, the answer being an error.
Unanswered(x) ==
  /\ x \in Windows /\ x.apply = Nil /\ x.plan = m.plan /\ x.key = m.key /\ x.offer = m.offer
  /\ x.chain = m.chain /\ x.saved = m.saved /\ x.fenced = m.fenced /\ x.form = m.form
  /\ x.detail = m.detail /\ x.resuming = m.resuming /\ Explained(x) /\ Settled(x)

LEMMA SubmissionFailsIs ==
  ASSUME Reasonable, NEW stage, SubmissionFails(stage)
  PROVE  /\ m # Nil /\ m.apply # Nil /\ m.apply.stage = stage /\ UNCHANGED <<ids, unconfirmed>>
         /\ \E x \in Windows : Unanswered(x)
<1>1. m # Nil /\ m.apply # Nil /\ m.apply.stage = stage /\ UNCHANGED <<ids, unconfirmed>>
  BY DEF SubmissionFails
<1>2. m \in Windows BY <1>1, MIsTame
<1>3. PICK b : b = (m.asked # Nil) OBVIOUS
<1>4. b \in Flags BY <1>3 DEF Flags
<1>5. PICK x : x = [m EXCEPT !.apply = Nil, !.busy = b] OBVIOUS
<1>6. x \in Windows BY <1>2, <1>4, <1>5 DEF Windows
<1>7. /\ x.apply = Nil /\ x.plan = m.plan /\ x.key = m.key /\ x.offer = m.offer
      /\ x.chain = m.chain /\ x.saved = m.saved /\ x.fenced = m.fenced /\ x.form = m.form
      /\ x.detail = m.detail /\ x.resuming = m.resuming /\ x.busy = b /\ x.asked = m.asked
  BY <1>2, <1>4, <1>5 DEF Windows
<1>8. Explained(x) BY <1>3, <1>7 DEF Explained
<1>9. Settled(x) BY <1>3, <1>5 DEF SubmissionFails, Settled
<1>10. Unanswered(x) BY <1>6, <1>7, <1>8, <1>9 DEF Unanswered
<1> QED BY <1>1, <1>6, <1>10

\* The coordinator's jobs after a call.
Grown(c) ==
  \/ Known(c) # {} /\ accepted' = accepted
  \/ Known(c) = {} /\ Plannable(c.plan) /\ accepted' = Append(accepted, Job(c))

LEMMA AcceptingIs ==
  ASSUME accepted \in Seq(AcceptedJob), NEW c \in Call, Accepting(c)
  PROVE  /\ Grown(c) /\ accepted' \in Seq(AcceptedJob) /\ Len(accepted) <= Len(accepted')
         /\ \A i \in DOMAIN accepted : i \in DOMAIN accepted' /\ accepted'[i] = accepted[i]
         /\ JobOf(c) \in DOMAIN accepted' /\ accepted'[JobOf(c)].key = c.key
         /\ JobOf(c) \in Nat /\ JobOf(c) # 0
<1>1. Grown(c) BY DEF Accepting, CanAccept, Grown
<1>2. PICK r : r = Job(c) OBVIOUS
<1>3. r \in AcceptedJob /\ r.key = c.key BY <1>2 DEF Job, Call, AcceptedJob
<1>4. PICK n : n = Len(accepted) OBVIOUS
<1>5. n \in Nat /\ DOMAIN accepted = 1 .. n BY <1>4
<1>6. PICK t : t = accepted' OBVIOUS
<1>7. \/ Known(c) # {} /\ t = accepted
      \/ t = Append(accepted, r)
  BY <1>1, <1>2, <1>6 DEF Grown
<1>8. /\ t \in Seq(AcceptedJob) /\ Len(accepted) <= Len(t)
      /\ \A i \in DOMAIN accepted : i \in DOMAIN t /\ t[i] = accepted[i]
  BY <1>3, <1>4, <1>5, <1>7
<1>9. \E j \in DOMAIN t : t[j].key = c.key
  <2>1. CASE Known(c) # {} /\ t = accepted BY <2>1 DEF Known
  <2>2. CASE t = Append(accepted, r)
    <3>1. n + 1 \in DOMAIN t /\ t[n + 1] = r BY <1>3, <1>4, <1>5, <2>2
    <3> QED BY <1>3, <3>1
  <2> QED BY <1>7, <2>1, <2>2
<1>10. PICK j : j = CHOOSE k \in DOMAIN t : t[k].key = c.key OBVIOUS
<1>11. j \in DOMAIN t /\ t[j].key = c.key BY <1>9, <1>10
<1>12. j \in Nat /\ j # 0 BY <1>8, <1>11
<1>13. j = JobOf(c) BY <1>6, <1>10 DEF JobOf
<1> QED BY <1>1, <1>6, <1>8, <1>11, <1>12, <1>13

LEMMA StartChainIs ==
  ASSUME NEW n \in Windows, NEW j \in Nat, NEW p \in Review
  PROVE  StartChain(n, j, p) \in Chain \cup {Nil}
<1>1. PICK c, o : c = n.chain /\ o = n.offer OBVIOUS
<1>2. c \in Chain \cup {Nil} /\ o \in Offer \cup {Nil} BY <1>1 DEF Windows
<1>3. CASE n.plan = p /\ o # Nil
  <2>1. o \in Offer BY <1>2, <1>3
  <2>2. PICK s : s = IF p.op = "prepare" THEN j ELSE IF n.form # Nil THEN n.form.source ELSE 0
    OBVIOUS
  <2>3. s \in Nat \cup {Nil} BY <2>2 DEF Windows, Form
  <2>4. PICK a, b : /\ a = IF p.op = "prepare" THEN j ELSE 0
                    /\ b = IF p.op = "prepare" THEN 0 ELSE j
    OBVIOUS
  <2>5. a \in Nat /\ b \in Nat BY <2>4
  <2>6. StartChain(n, j, p) =
          [root |-> j, settings |-> o.settings, sent |-> Nil, approved |-> o.asks,
           start |-> o.start, cleanup |-> o.cleanup, discarding |-> FALSE,
           prep |-> a, create |-> b, source |-> s, vm |-> 0, startJob |-> 0]
    BY <1>1, <1>3, <2>2, <2>4 DEF StartChain
  <2> QED BY <2>1, <2>3, <2>5, <2>6 DEF Chain, Offer
<1>4. CASE ~(n.plan = p /\ o # Nil)
  <2>1. \/ StartChain(n, j, p) \in {c, Nil}
        \/ c # Nil /\ StartChain(n, j, p) = [c EXCEPT !.create = j]
        \/ c # Nil /\ StartChain(n, j, p) = [c EXCEPT !.startJob = j]
    <3>1. CASE n.plan # p BY <1>1, <3>1 DEF StartChain
    <3>2. CASE n.plan = p
      <4>1. o = Nil BY <1>4, <3>2
      <4>2. StartChain(n, j, p) = CASE c # Nil /\ p.op = "create" /\ c.create = 0 -> [c EXCEPT !.create = j]
                                    [] c # Nil /\ p.op = "start" -> [c EXCEPT !.startJob = j]
                                    [] p.op = "discard" -> Nil
                                    [] OTHER -> c
        BY <1>1, <3>2, <4>1 DEF StartChain
      <4> QED BY <4>2
    <3> QED BY <3>1, <3>2
  <2>2. c # Nil => [c EXCEPT !.create = j] \in Chain /\ [c EXCEPT !.startJob = j] \in Chain
    BY <1>2 DEF Chain
  <2> QED BY <1>2, <2>1, <2>2
<1> QED BY <1>3, <1>4

\* What Applied makes of the window.
Answered(j, c) ==
  /\ m' \in Windows /\ m' # Nil /\ m'.apply = Nil /\ ~m'.busy /\ m'.plan = Nil /\ m'.offer = Nil
  /\ m'.form = Nil /\ m'.detail = j /\ m'.key = m.key /\ m'.fenced = m.fenced
  /\ m'.chain = StartChain(m, j, c.plan) /\ m'.resuming = m.resuming
  /\ \/ m'.saved = m.saved /\ saves' = saves
     \/ \E d \in Document : /\ m'.saved = d /\ d.state = "submitted" /\ d.job = j
                            /\ saves' = Append(saves, [doc |-> d, call |-> Nil])
  /\ unconfirmed' = FALSE /\ UNCHANGED <<file, writer, strays, ids>>

LEMMA AppliedIs ==
  ASSUME Reasonable, Applied
  PROVE  /\ m # Nil /\ m.apply # Nil /\ m.apply.stage = "sent" /\ m.apply.call \in Call
         /\ Accepting(m.apply.call) /\ Answered(JobOf(m.apply.call), m.apply.call)
<1>1. m # Nil /\ m.apply # Nil /\ m.apply.stage = "sent" /\ Accepting(m.apply.call)
  BY DEF Applied
<1>2. m \in Windows BY <1>1, MIsTame
<1>3. PICK c : c = m.apply.call OBVIOUS
<1>4. c \in Call BY <1>1, <1>2, <1>3 DEF Windows, Submission
<1>5. PICK j : j = JobOf(c) OBVIOUS
<1>6. j \in Nat BY <1>1, <1>3, <1>4, <1>5, AcceptingIs DEF Reasonable, WorkspaceTypeOK
<1>7. c.plan \in Review BY <1>4 DEF Call
<1>8. PICK h : h = StartChain(m, j, c.plan) OBVIOUS
<1>9. h \in Chain \cup {Nil} BY <1>2, <1>6, <1>7, <1>8, StartChainIs
<1>10. PICK w : w = IF IsImport(m.form) THEN j ELSE m.waiting OBVIOUS
<1>11. w \in Nat BY <1>2, <1>6, <1>10 DEF Windows
<1>12. PICK k : k = IF IsImport(m.form) /\ m.form.settings # Nil
                    THEN [source |-> j, settings |-> m.form.settings] ELSE m.kept
  OBVIOUS
<1>13. k \in Form \cup {Nil}
  <2>1. CASE IsImport(m.form) /\ m.form.settings # Nil
    <3>1. m.form.settings \in Settings BY <1>2, <2>1 DEF Windows, Form, IsImport
    <3> QED BY <1>6, <1>12, <2>1, <3>1 DEF Form
  <2>2. CASE ~(IsImport(m.form) /\ m.form.settings # Nil) BY <1>2, <1>12, <2>2 DEF Windows
  <2> QED BY <2>1, <2>2
<1>14. PICK f, o : f = FALSE /\ o = "none" OBVIOUS
<1>15. f \in Flags /\ o \in Outcomes BY <1>14, Constants
<1>16. PICK n : n = [m EXCEPT !.chain = h, !.apply = Nil, !.busy = f,
                              !.plan = Nil, !.offer = Nil, !.form = Nil, !.picking = f,
                              !.detail = j, !.outcome = o, !.waiting = w, !.kept = k]
  OBVIOUS
<1>17. PICK y1 : y1 = [m EXCEPT !.chain = h, !.apply = Nil, !.busy = f] OBVIOUS
<1>18. PICK y2 : y2 = [y1 EXCEPT !.plan = Nil, !.offer = Nil, !.form = Nil] OBVIOUS
<1>19. PICK y3 : y3 = [y2 EXCEPT !.picking = f, !.detail = j, !.outcome = o] OBVIOUS
<1>20. PICK y4 : y4 = [y3 EXCEPT !.waiting = w, !.kept = k] OBVIOUS
<1>21. n = y4 BY <1>16, <1>17, <1>18, <1>19, <1>20, Zenon
<1>22. y1 \in Windows BY <1>2, <1>9, <1>15, <1>17, ZenonT(40) DEF Windows
<1>23. y2 \in Windows BY <1>18, <1>22, ZenonT(40) DEF Windows
<1>24. y3 \in Windows BY <1>6, <1>15, <1>19, <1>23, ZenonT(40) DEF Windows
<1>25. y4 \in Windows BY <1>11, <1>13, <1>20, <1>24 DEF Windows
<1>26. /\ y4.chain = h /\ y4.apply = Nil /\ y4.busy = f /\ y4.plan = Nil /\ y4.offer = Nil
       /\ y4.form = Nil /\ y4.detail = j /\ y4.key = m.key /\ y4.fenced = m.fenced
       /\ y4.resuming = m.resuming /\ y4.saved = m.saved
  <2>1. /\ y1.chain = h /\ y1.apply = Nil /\ y1.busy = f
        /\ y1.key = m.key /\ y1.fenced = m.fenced /\ y1.resuming = m.resuming /\ y1.saved = m.saved
    BY <1>2, <1>9, <1>15, <1>17 DEF Windows
  <2>2. /\ y2.chain = y1.chain /\ y2.apply = y1.apply /\ y2.busy = y1.busy
        /\ y2.plan = Nil /\ y2.offer = Nil /\ y2.form = Nil
        /\ y2.key = y1.key /\ y2.fenced = y1.fenced /\ y2.resuming = y1.resuming /\ y2.saved = y1.saved
    BY <1>18, <1>22 DEF Windows
  <2>3. /\ y3.chain = y2.chain /\ y3.apply = y2.apply /\ y3.busy = y2.busy
        /\ y3.plan = y2.plan /\ y3.offer = y2.offer /\ y3.form = y2.form /\ y3.detail = j
        /\ y3.key = y2.key /\ y3.fenced = y2.fenced /\ y3.resuming = y2.resuming /\ y3.saved = y2.saved
    BY <1>6, <1>15, <1>19, <1>23 DEF Windows
  <2>4. /\ y4.chain = y3.chain /\ y4.apply = y3.apply /\ y4.busy = y3.busy
        /\ y4.plan = y3.plan /\ y4.offer = y3.offer /\ y4.form = y3.form /\ y4.detail = y3.detail
        /\ y4.key = y3.key /\ y4.fenced = y3.fenced /\ y4.resuming = y3.resuming /\ y4.saved = y3.saved
    BY <1>11, <1>13, <1>20, <1>24 DEF Windows
  <2> QED BY <2>1, <2>2, <2>3, <2>4
<1>27. /\ n \in Windows /\ n.chain = h /\ n.apply = Nil /\ ~n.busy
       /\ n.plan = Nil /\ n.offer = Nil /\ n.form = Nil /\ n.detail = j
       /\ n.key = m.key /\ n.fenced = m.fenced /\ n.resuming = m.resuming /\ n.saved = m.saved
  BY <1>14, <1>21, <1>25, <1>26
<1>28. PICK d : d = [m.saved EXCEPT !.state = "submitted", !.job = j] OBVIOUS
<1>29. m.saved # Nil => d \in Document /\ d.state = "submitted" /\ d.job = j
  BY <1>2, <1>6, <1>28 DEF Windows, Document
<1>30. /\ IF m.fenced /\ m.saved # Nil
          THEN m' = [n EXCEPT !.saved = d] /\ saves' = Append(saves, [doc |-> d, call |-> Nil])
          ELSE m' = n /\ saves' = saves
       /\ unconfirmed' = FALSE /\ UNCHANGED <<file, writer, strays, ids>>
  BY <1>3, <1>5, <1>8, <1>10, <1>12, <1>14, <1>16, <1>28 DEF Applied
<1>31. CASE m.fenced /\ m.saved # Nil
  <2>1. PICK x : x = [n EXCEPT !.saved = d] OBVIOUS
  <2>2. d \in Document BY <1>29, <1>31
  <2>3. x \in Windows BY <1>27, <2>1, <2>2 DEF Windows
  <2>4. /\ x.chain = n.chain /\ x.apply = n.apply /\ x.busy = n.busy /\ x.saved = d
        /\ x.plan = n.plan /\ x.offer = n.offer /\ x.form = n.form /\ x.detail = n.detail
        /\ x.key = n.key /\ x.fenced = n.fenced /\ x.resuming = n.resuming
    BY <1>27, <2>1, <2>2 DEF Windows
  <2>5. m' = x BY <1>30, <1>31, <2>1
  <2>6. /\ m' \in Windows /\ m' # Nil /\ m'.apply = Nil /\ ~m'.busy /\ m'.plan = Nil /\ m'.offer = Nil
        /\ m'.form = Nil /\ m'.detail = j /\ m'.key = m.key /\ m'.fenced = m.fenced
        /\ m'.chain = h /\ m'.resuming = m.resuming /\ m'.saved = d
    BY <1>27, <2>3, <2>4, <2>5, NilIsNothing
  <2>7. /\ d.state = "submitted" /\ d.job = j
        /\ saves' = Append(saves, [doc |-> d, call |-> Nil])
        /\ unconfirmed' = FALSE /\ UNCHANGED <<file, writer, strays, ids>>
    BY <1>29, <1>30, <1>31
  <2>8. Answered(j, c) BY <1>8, <2>2, <2>6, <2>7 DEF Answered
  <2> QED BY <1>1, <1>3, <1>4, <1>5, <2>8
<1>32. CASE ~(m.fenced /\ m.saved # Nil)
  <2>1. m' = n /\ saves' = saves /\ unconfirmed' = FALSE /\ UNCHANGED <<file, writer, strays, ids>>
    BY <1>30, <1>32
  <2>2. m' # Nil BY <1>27, <2>1, NilIsNothing
  <2>3. Answered(j, c) BY <1>8, <1>27, <2>1, <2>2 DEF Answered
  <2> QED BY <1>1, <1>3, <1>4, <1>5, <2>3
<1> QED BY <1>31, <1>32

-----------------------------------------------------------------------------
(* Writes of the saved setup. *)

\* The submission has got as far as the stage s.
Restaged(s, x) ==
  /\ m.apply # Nil /\ m.apply.stage = "guard"
  /\ x \in Windows /\ x # Nil /\ x.apply # Nil /\ x.apply.call = m.apply.call /\ x.apply.stage = s
  /\ x.plan = m.plan /\ x.key = m.key /\ x.offer = m.offer /\ x.chain = m.chain
  /\ x.saved = m.saved /\ x.fenced = m.fenced /\ x.form = m.form /\ x.detail = m.detail
  /\ x.resuming = m.resuming

Stopped(x, calls) == (x = m) \/ (m.apply.call \in calls /\ Restaged("failed", x))

LEMMA RestagedIs ==
  ASSUME m \in Windows, m # Nil, m.apply # Nil, m.apply.stage = "guard",
         NEW s \in {"sent", "failed"}, NEW x, x = [m EXCEPT !.apply.stage = s]
  PROVE  Restaged(s, x)
<1>1. PICK a : a = [m.apply EXCEPT !.stage = s] OBVIOUS
<1>2. m.apply \in Submission BY DEF Windows
<1>3. a \in Submission /\ a.call = m.apply.call /\ a.stage = s
  BY <1>1, <1>2 DEF Submission
<1>4. a # Nil BY <1>3, NilIsNothing
<1>5. x = [m EXCEPT !.apply = a] BY <1>1
<1>6. x \in Windows /\ x.apply = a
  <2>1. PICK y : y = [m EXCEPT !.apply = a] OBVIOUS
  <2>2. y \in Windows BY <1>3, <2>1 DEF Windows
  <2>3. y.apply = a BY <1>3, <2>1 DEF Windows
  <2> QED BY <1>5, <2>1, <2>2, <2>3
<1>7. /\ x.plan = m.plan /\ x.key = m.key /\ x.offer = m.offer /\ x.chain = m.chain
      /\ x.saved = m.saved /\ x.fenced = m.fenced /\ x.form = m.form /\ x.detail = m.detail
      /\ x.resuming = m.resuming
  <2>1. PICK y : y = [m EXCEPT !.apply = a] OBVIOUS
  <2>2. /\ y.plan = m.plan /\ y.key = m.key /\ y.offer = m.offer /\ y.chain = m.chain
        /\ y.saved = m.saved /\ y.fenced = m.fenced /\ y.form = m.form /\ y.detail = m.detail
        /\ y.resuming = m.resuming
    BY <1>3, <2>1 DEF Windows
  <2> QED BY <1>5, <2>1, <2>2
<1> QED BY <1>3, <1>4, <1>6, <1>7, NilIsNothing DEF Restaged

LEMMA UnsentIs ==
  ASSUME m \in Windows, m # Nil, NEW calls
  PROVE  Stopped(Unsent(m, calls), calls)
<1>1. CASE m.apply # Nil /\ m.apply.stage = "guard" /\ m.apply.call \in calls
  <2>1. PICK x : x = [m EXCEPT !.apply.stage = "failed"] OBVIOUS
  <2>2. Restaged("failed", x) BY <1>1, <2>1, RestagedIs
  <2>3. Unsent(m, calls) = x BY <1>1, <2>1 DEF Unsent
  <2> QED BY <1>1, <2>2, <2>3 DEF Stopped
<1>2. CASE ~(m.apply # Nil /\ m.apply.stage = "guard" /\ m.apply.call \in calls)
  BY <1>2 DEF Unsent, Stopped
<1> QED BY <1>1, <1>2

LEMMA WrittenIs ==
  ASSUME Reasonable, NEW i, Written(i)
  PROVE  /\ m # Nil /\ i \in DOMAIN saves /\ writer = "current" /\ UNCHANGED <<writer, accepted, ids>>
         /\ file' = saves[i].doc /\ saves' = Overtaking(i)
         /\ \/ /\ saves[i].call = Nil /\ UNCHANGED <<strays, unconfirmed>>
               /\ Stopped(m', CallsOf(SubSeq(saves, 1, i - 1)))
            \/ /\ saves[i].call # Nil /\ strays' = strays \cup {saves[i].call}
               /\ unconfirmed' = FALSE /\ Stopped(m', CallsOf(SubSeq(saves, 1, i - 1)))
               /\ ~(m'.apply # Nil /\ m'.apply.call = saves[i].call /\ m'.apply.stage = "guard")
            \/ /\ saves[i].call # Nil /\ m.apply # Nil /\ m.apply.call = saves[i].call
               /\ Restaged("sent", m') /\ strays' = strays /\ unconfirmed' = m.fenced
<1>1. /\ m # Nil /\ i \in DOMAIN saves /\ writer = "current" /\ UNCHANGED <<writer, accepted, ids>>
      /\ file' = saves[i].doc /\ saves' = Overtaking(i)
  BY DEF Written
<1>2. m \in Windows BY <1>1, MIsTame
<1>3. PICK calls : calls = CallsOf(SubSeq(saves, 1, i - 1)) OBVIOUS
<1>4. PICK n : n = Unsent(m, calls) OBVIOUS
<1>5. Stopped(n, calls) BY <1>1, <1>2, <1>4, UnsentIs
<1>6. PICK c : c = saves[i].call OBVIOUS
<1>7. IF c = Nil THEN m' = n /\ UNCHANGED <<strays, unconfirmed>> ELSE Send(n, c)
  BY <1>3, <1>4, <1>6 DEF Written
<1>8. CASE c # Nil /\ n.apply # Nil /\ n.apply.call = c /\ n.apply.stage = "guard"
  <2>1. n = m BY <1>5, <1>8 DEF Stopped, Restaged
  <2>2. /\ m' = [m EXCEPT !.apply.stage = "sent"] /\ strays' = strays
        /\ unconfirmed' = (TRUE /\ m.fenced)
    BY <1>7, <1>8, <2>1 DEF Send
  <2>3. Restaged("sent", m') BY <1>1, <1>2, <1>8, <2>1, <2>2, RestagedIs
  <2>4. m.fenced \in BOOLEAN BY <1>2 DEF Windows, Flags
  <2>5. unconfirmed' = m.fenced BY <2>2, <2>4
  <2> QED BY <1>1, <1>6, <1>8, <2>1, <2>2, <2>3, <2>5
<1>9. CASE c # Nil /\ ~(n.apply # Nil /\ n.apply.call = c /\ n.apply.stage = "guard")
  <2>1. m' = n /\ strays' = strays \cup {c} /\ unconfirmed' = FALSE
    BY <1>7, <1>9 DEF Send
  <2> QED BY <1>1, <1>3, <1>5, <1>6, <1>9, <2>1
<1>10. CASE c = Nil BY <1>1, <1>3, <1>5, <1>6, <1>7, <1>10
<1> QED BY <1>8, <1>9, <1>10

-----------------------------------------------------------------------------
(* Types, references to jobs, and causes of a busy window. *)

LEMMA KeptReasonable ==
  ASSUME Reasonable, NEW n \in Windows, Settled(n), Explained(n), Names(n.saved), Names(n.resuming),
         n.detail <= Len(accepted), accepted' \in Seq(AcceptedJob), Len(accepted) <= Len(accepted'),
         strays' \subseteq Call, ids' \in [review : Nat, key : Nat], unconfirmed' \in BOOLEAN
  PROVE  Reasonable'
<1>1. saves \in Seq(Save) /\ accepted \in Seq(AcceptedJob) BY DEF Reasonable, WorkspaceTypeOK
<1>2. /\ m' \in Windows /\ m' # Nil /\ Like(m', n) /\ UNCHANGED <<file, writer>>
      /\ \/ m' = n /\ saves' = saves
         \/ \E d \in Document : Chosen(n, d)
  BY <1>1, SettledIs
<1>3. PICK k, l : k = Len(accepted) /\ l = Len(accepted') OBVIOUS
<1>4. k \in Nat /\ l \in Nat /\ k <= l BY <1>1, <1>3
<1>5. \A d : d # Nil /\ d \in Document /\ Names(d) => d.job <= l
  BY <1>3, <1>4 DEF Names, Document
<1>6. n.detail \in Nat /\ m'.detail = n.detail /\ m'.resuming = n.resuming BY <1>2 DEF Windows, Like
<1>7. m'.detail <= l BY <1>3, <1>4, <1>6
<1>8. /\ n.saved \in Document \cup {Nil} /\ n.resuming \in Document \cup {Nil}
      /\ file \in Document \cup {Nil} /\ Names(file)
      /\ \A i \in DOMAIN saves : saves[i] \in Save /\ saves[i].doc \in Document /\ Names(saves[i].doc)
  <2>1. n.saved \in Document \cup {Nil} /\ n.resuming \in Document \cup {Nil} BY DEF Windows
  <2>2. file \in Document \cup {Nil} /\ Names(file) BY DEF Reasonable, WorkspaceTypeOK, JobsExist
  <2>3. \A i \in DOMAIN saves : saves[i] \in Save BY <1>1
  <2>4. \A i \in DOMAIN saves : saves[i].doc \in Document BY <2>3 DEF Save
  <2>5. \A i \in DOMAIN saves : Names(saves[i].doc) BY DEF Reasonable, JobsExist
  <2> QED BY <2>1, <2>2, <2>3, <2>4, <2>5
<1>9. Explained(m') BY <1>2 DEF Explained, Like
<1>10. saves' \in Seq(Save) /\ (m'.saved # Nil => m'.saved.job <= l)
       /\ \A i \in DOMAIN saves' : saves'[i].doc.job <= l
  <2>1. CASE m' = n /\ saves' = saves
    BY <1>1, <1>5, <1>8, <2>1, NilIsNothing
  <2>2. ASSUME NEW d \in Document, Chosen(n, d)
        PROVE  saves' \in Seq(Save) /\ (m'.saved # Nil => m'.saved.job <= l)
               /\ \A i \in DOMAIN saves' : saves'[i].doc.job <= l
    <3>1. PICK e : e = [doc |-> d, call |-> Nil] OBVIOUS
    <3>2. e \in Save /\ e.doc = d BY <3>1 DEF Save
    <3>3. d.job = 0 /\ m'.saved = d /\ saves' = Append(Lasting, e) BY <2>2, <3>1 DEF Chosen
    <3>4. PICK t : t = Lasting OBVIOUS
    <3>5. Thinned(t, saves) BY <1>1, <3>4, LastingIsThinned
    <3>6. t \in Seq(Save) /\ \A i \in DOMAIN t : t[i].doc.job <= l
      BY <1>5, <1>8, <3>5, NilIsNothing DEF Thinned
    <3>7. saves' \in Seq(Save) BY <3>2, <3>3, <3>4, <3>6
    <3>8. \A i \in DOMAIN saves' : saves'[i] = e \/ (i \in DOMAIN t /\ saves'[i] = t[i])
      BY <3>2, <3>3, <3>4, <3>6
    <3>9. e.doc.job <= l /\ m'.saved.job <= l BY <1>4, <3>2, <3>3
    <3> QED BY <3>6, <3>7, <3>8, <3>9
  <2> QED BY <1>2, <2>1, <2>2
<1>11. /\ file' \in Document \cup {Nil} /\ writer' \in {"current", "stale", "failed"}
       /\ (file' # Nil => file'.job <= l) /\ (m'.resuming # Nil => m'.resuming.job <= l)
  BY <1>2, <1>5, <1>6, <1>8 DEF Reasonable, WorkspaceTypeOK
<1>12. WorkspaceTypeOK' BY <1>2, <1>10, <1>11 DEF WorkspaceTypeOK
<1>13. JobsExist' BY <1>3, <1>7, <1>10, <1>11 DEF JobsExist, Names
<1>14. (m # Nil => Explained(m))' BY <1>9 DEF Explained
<1> QED BY <1>12, <1>13, <1>14 DEF Reasonable

LEMMA TameKeepsReasonable ==
  ASSUME Reasonable, QuietStep \/ FreshStep PROVE Reasonable'
<1>1. PICK n \in Windows : Tame(n) /\ Settled(n) BY DEF QuietStep, FreshStep, Quiet, Fresh
<1>2. UNCHANGED <<accepted, strays, ids>> /\ unconfirmed' \in BOOLEAN
  BY DEF QuietStep, FreshStep, Quietly, Reasonable, WorkspaceTypeOK
<1>3. /\ accepted' \in Seq(AcceptedJob) /\ Len(accepted) <= Len(accepted') /\ strays' \subseteq Call
      /\ ids' \in [review : Nat, key : Nat]
  BY <1>2 DEF Reasonable, WorkspaceTypeOK
<1> QED BY <1>1, <1>2, <1>3, KeptReasonable DEF Tame

LEMMA CallsAreCalls ==
  ASSUME Reasonable
  PROVE  /\ m # Nil /\ m.apply # Nil => m.apply.call \in Call
         /\ \A i \in DOMAIN saves : saves[i] \in Save /\ saves[i].doc \in Document
                                    /\ (saves[i].call # Nil => saves[i].call \in Call)
<1>1. m # Nil /\ m.apply # Nil => m.apply.call \in Call
  <2>1. m # Nil => m \in Windows BY MIsTame
  <2> QED BY <2>1 DEF Windows, Submission
<1>2. \A i \in DOMAIN saves : saves[i] \in Save BY DEF Reasonable, WorkspaceTypeOK
<1> QED BY <1>1, <1>2 DEF Save

LEMMA SentKeepsReasonable ==
  ASSUME Reasonable, m # Nil, NEW n \in Windows, NEW c, Sent(n, c), UNCHANGED <<accepted, unconfirmed>>,
         Names(n.saved), Names(n.resuming), n.detail <= Len(accepted), n.apply = m.apply
  PROVE  Reasonable'
<1>1. /\ saves \in Seq(Save) /\ accepted \in Seq(AcceptedJob) /\ strays \subseteq Call
      /\ unconfirmed \in BOOLEAN /\ file \in Document \cup {Nil} /\ Names(file)
      /\ writer \in {"current", "stale", "failed"}
  BY DEF Reasonable, WorkspaceTypeOK, JobsExist
<1>2. PICK l : l = Len(accepted) OBVIOUS
<1>3. l \in Nat /\ Len(accepted') = l BY <1>1, <1>2
<1>4. /\ c \in Call /\ m' \in Windows /\ m' # Nil /\ m'.apply # Nil
      /\ m'.resuming = n.resuming /\ m'.detail = n.detail
      /\ strays' = strays \cup Abandoned(n) /\ ids' \in [review : Nat, key : Nat]
      /\ UNCHANGED <<file, writer>>
  BY DEF Sent
<1>5. saves' \in Seq(Save) /\ (m'.saved # Nil => m'.saved.job <= l)
      /\ \A i \in DOMAIN saves' : saves'[i].doc # Nil => saves'[i].doc.job <= l
  <2>1. \A i \in DOMAIN saves : saves[i].doc # Nil => saves[i].doc.job <= l
    BY <1>2 DEF Reasonable, JobsExist, Names
  <2>2. CASE saves' = saves /\ m'.saved = n.saved BY <1>1, <1>2, <2>1, <2>2 DEF Names
  <2>3. ASSUME NEW d \in Document, m'.saved = d, d.job = 0, saves' = Append(saves, [doc |-> d, call |-> c])
        PROVE  saves' \in Seq(Save) /\ (m'.saved # Nil => m'.saved.job <= l)
               /\ \A i \in DOMAIN saves' : saves'[i].doc # Nil => saves'[i].doc.job <= l
    <3>1. PICK e : e = [doc |-> d, call |-> c] OBVIOUS
    <3>2. e \in Save /\ e.doc = d BY <1>4, <3>1 DEF Save
    <3>3. saves' \in Seq(Save) /\ \A i \in DOMAIN saves' : saves'[i] = e \/ (i \in DOMAIN saves /\ saves'[i] = saves[i])
      BY <1>1, <2>3, <3>1, <3>2
    <3>4. e.doc.job <= l BY <1>3, <2>3, <3>2
    <3>5. m'.saved.job <= l BY <1>3, <2>3
    <3> QED BY <2>1, <3>3, <3>4, <3>5
  <2> QED BY <2>2, <2>3 DEF Sent
<1>6. strays' \subseteq Call
  <2>1. Abandoned(n) \subseteq Call
    <3>1. n.apply # Nil => n.apply.call \in Call BY CallsAreCalls
    <3> QED BY <3>1 DEF Abandoned
  <2> QED BY <1>1, <1>4, <2>1
<1>7. Explained(m') BY <1>4 DEF Explained
<1>8. WorkspaceTypeOK' BY <1>1, <1>4, <1>5, <1>6 DEF WorkspaceTypeOK
<1>9. JobsExist'
  <2>1. /\ file' # Nil => file'.job <= l
        /\ m'.resuming # Nil => m'.resuming.job <= l
        /\ m'.detail <= l
    BY <1>1, <1>2, <1>4 DEF Names
  <2> QED BY <1>3, <1>5, <2>1 DEF JobsExist, Names
<1> QED BY <1>7, <1>8, <1>9 DEF Reasonable, Explained

LEMMA PlanArrivesKeepsReasonable ==
  ASSUME Reasonable, PlanArrives PROVE Reasonable'
<1>1. /\ m # Nil /\ UNCHANGED <<accepted, unconfirmed>>
      /\ \E p \in Review, n \in Windows :
              /\ Planned(n, p)
              /\ \/ Expected(n) /\ AsApproved(n.chain, p) /\ Sent(n, CallFor(n, "chain"))
                 \/ \E x \in Windows : Looked(x, n, p)
  BY PlanArrivesIs
<1>2. PICK p \in Review, n \in Windows :
              /\ Planned(n, p)
              /\ \/ Expected(n) /\ AsApproved(n.chain, p) /\ Sent(n, CallFor(n, "chain"))
                 \/ \E x \in Windows : Looked(x, n, p)
  BY <1>1
<1>3. Names(n.saved) /\ Names(n.resuming) /\ n.detail <= Len(accepted) /\ n.apply = m.apply
  BY <1>1, <1>2, MIsTame DEF Planned
<1>4. ASSUME NEW x \in Windows, Looked(x, n, p) PROVE Reasonable'
  <2>1. /\ Names(x.saved) /\ Names(x.resuming) /\ x.detail <= Len(accepted) /\ Settled(x)
        /\ Explained(x) /\ strays' = strays /\ ids' \in [review : Nat, key : Nat]
    BY <1>3, <1>4 DEF Looked, Explained
  <2>2. /\ accepted' \in Seq(AcceptedJob) /\ Len(accepted) <= Len(accepted')
        /\ strays' \subseteq Call /\ unconfirmed' \in BOOLEAN
    BY <1>1, <2>1 DEF Reasonable, WorkspaceTypeOK
  <2> QED BY <2>1, <2>2, KeptReasonable
<1> QED BY <1>1, <1>2, <1>3, <1>4, SentKeepsReasonable

LEMMA ConfirmKeepsReasonable ==
  ASSUME Reasonable, Confirm PROVE Reasonable'
BY ConfirmIs, MIsTame, SentKeepsReasonable

LEMMA SubmissionKeepsReasonable ==
  ASSUME Reasonable, NotSent \/ ApplyRefused \/ ApplyFails PROVE Reasonable'
<1>1. PICK stage : SubmissionFails(stage) BY DEF NotSent, ApplyRefused, ApplyFails
<1>2. m # Nil /\ m.apply # Nil /\ UNCHANGED <<ids, unconfirmed>> BY <1>1, SubmissionFailsIs
<1>3. PICK x \in Windows : Unanswered(x) BY <1>1, SubmissionFailsIs
<1>4. m.apply.call \in Call /\ accepted \in Seq(AcceptedJob) /\ strays \subseteq Call
  BY <1>2, CallsAreCalls DEF Reasonable, WorkspaceTypeOK
<1>5. accepted' \in Seq(AcceptedJob) /\ Len(accepted) <= Len(accepted') /\ strays' \subseteq Call
  <2>1. \/ UNCHANGED <<accepted, strays>>
        \/ Accepting(m.apply.call) /\ UNCHANGED strays
        \/ strays' = strays \cup {m.apply.call} /\ UNCHANGED accepted
    BY DEF NotSent, ApplyRefused, ApplyFails, environment
  <2> QED BY <1>4, <2>1, AcceptingIs
<1>6. Names(x.saved) /\ Names(x.resuming) /\ x.detail <= Len(accepted) /\ Explained(x) /\ Settled(x)
  BY <1>2, <1>3, MIsTame DEF Unanswered
<1>7. ids' \in [review : Nat, key : Nat] /\ unconfirmed' \in BOOLEAN
  BY <1>2 DEF Reasonable, WorkspaceTypeOK
<1> QED BY <1>5, <1>6, <1>7, KeptReasonable

LEMMA AppliedKeepsReasonable ==
  ASSUME Reasonable, Applied PROVE Reasonable'
<1>1. PICK c : c = m.apply.call OBVIOUS
<1>2. PICK j : j = JobOf(c) OBVIOUS
<1>3. m # Nil /\ c \in Call /\ Accepting(c) /\ Answered(j, c) BY <1>1, <1>2, AppliedIs
<1>4. /\ saves \in Seq(Save) /\ accepted \in Seq(AcceptedJob) /\ strays \subseteq Call
      /\ file \in Document \cup {Nil} /\ Names(file)
      /\ writer \in {"current", "stale", "failed"} /\ ids \in [review : Nat, key : Nat]
  BY DEF Reasonable, WorkspaceTypeOK, JobsExist
<1>5. PICK k, l : k = Len(accepted) /\ l = Len(accepted') OBVIOUS
<1>6. /\ accepted' \in Seq(AcceptedJob) /\ k \in Nat /\ l \in Nat /\ k <= l /\ j \in Nat /\ j <= l
  <2>1. accepted' \in Seq(AcceptedJob) /\ Len(accepted) <= Len(accepted') /\ j \in DOMAIN accepted' /\ j \in Nat
    BY <1>2, <1>3, <1>4, AcceptingIs
  <2> QED BY <1>4, <1>5, <2>1
<1>7. \A d : d # Nil /\ d \in Document /\ Names(d) => d.job <= l
  BY <1>5, <1>6 DEF Names, Document
<1>8. /\ m.saved \in Document \cup {Nil} /\ m.resuming \in Document \cup {Nil}
      /\ Names(m.saved) /\ Names(m.resuming)
  BY <1>3, MIsTame DEF Windows
<1>9. \A i \in DOMAIN saves : saves[i].doc # Nil => saves[i].doc.job <= l
  <2>1. \A i \in DOMAIN saves : saves[i].doc \in Document /\ Names(saves[i].doc)
    BY CallsAreCalls DEF Reasonable, JobsExist
  <2> QED BY <1>7, <2>1
<1>10. saves' \in Seq(Save) /\ (m'.saved # Nil => m'.saved.job <= l)
       /\ \A i \in DOMAIN saves' : saves'[i].doc # Nil => saves'[i].doc.job <= l
  <2>1. CASE m'.saved = m.saved /\ saves' = saves BY <1>4, <1>7, <1>8, <1>9, <2>1
  <2>2. ASSUME NEW d \in Document, m'.saved = d, d.job = j, saves' = Append(saves, [doc |-> d, call |-> Nil])
        PROVE  saves' \in Seq(Save) /\ (m'.saved # Nil => m'.saved.job <= l)
               /\ \A i \in DOMAIN saves' : saves'[i].doc # Nil => saves'[i].doc.job <= l
    <3>1. PICK e : e = [doc |-> d, call |-> Nil] OBVIOUS
    <3>2. e \in Save /\ e.doc = d BY <3>1 DEF Save
    <3>3. saves' \in Seq(Save) /\ \A i \in DOMAIN saves' : saves'[i] = e \/ (i \in DOMAIN saves /\ saves'[i] = saves[i])
      BY <1>4, <2>2, <3>1, <3>2
    <3>4. e.doc.job <= l /\ m'.saved.job <= l BY <1>6, <2>2, <3>2
    <3> QED BY <1>9, <3>3, <3>4
  <2> QED BY <1>3, <2>1, <2>2 DEF Answered
<1>11. /\ m' \in Windows /\ m' # Nil /\ ~m'.busy /\ m'.detail = j /\ m'.resuming = m.resuming
       /\ unconfirmed' = FALSE /\ UNCHANGED <<file, writer, strays, ids>>
  BY <1>3 DEF Answered
<1>12. WorkspaceTypeOK' BY <1>4, <1>6, <1>10, <1>11 DEF WorkspaceTypeOK
<1>13. JobsExist'
  <2>1. /\ file' # Nil => file'.job <= l
        /\ m'.resuming # Nil => m'.resuming.job <= l
        /\ m'.detail <= l
    BY <1>4, <1>6, <1>7, <1>8, <1>11
  <2> QED BY <1>5, <1>10, <2>1 DEF JobsExist, Names
<1> QED BY <1>11, <1>12, <1>13 DEF Reasonable, Explained

\* A step of the writes: the window goes on, and some of the saves have gone.
LEMMA SavingKeepsReasonable ==
  ASSUME Reasonable, m # Nil, NEW calls, Stopped(m', calls) \/ Restaged("sent", m'),
         Thinned(saves', saves), file' \in {file} \cup {saves[i].doc : i \in DOMAIN saves},
         writer' \in {writer, "failed"}, strays' \subseteq Call,
         unconfirmed' \in BOOLEAN, UNCHANGED <<accepted, ids>>
  PROVE  Reasonable'
<1>1. /\ saves \in Seq(Save) /\ accepted \in Seq(AcceptedJob) /\ file \in Document \cup {Nil}
      /\ writer \in {"current", "stale", "failed"} /\ ids \in [review : Nat, key : Nat]
      /\ Names(file) /\ \A i \in DOMAIN saves : saves[i].doc \in Document /\ Names(saves[i].doc)
  BY CallsAreCalls DEF Reasonable, WorkspaceTypeOK, JobsExist
<1>2. m \in Windows /\ Explained(m) /\ Names(m.saved) /\ Names(m.resuming) /\ m.detail <= Len(accepted)
  BY MIsTame
<1>3. /\ m' \in Windows /\ m' # Nil /\ Explained(m') /\ m'.saved = m.saved /\ m'.resuming = m.resuming
      /\ m'.detail = m.detail
  BY <1>2, NilIsNothing DEF Stopped, Restaged, Explained
<1>4. saves' \in Seq(Save) /\ \A i \in DOMAIN saves' : \E k \in DOMAIN saves : saves'[i] = saves[k]
  <2>1. PICK t : t = saves' OBVIOUS
  <2>2. Thinned(t, saves) BY <2>1
  <2>3. t \in Seq(Save) /\ \A i \in DOMAIN t : \E k \in DOMAIN saves : t[i] = saves[k]
    BY <2>2 DEF Thinned
  <2> QED BY <2>1, <2>3
<1>5. WorkspaceTypeOK' BY <1>1, <1>3, <1>4 DEF WorkspaceTypeOK
<1>6. JobsExist' BY <1>1, <1>2, <1>3, <1>4 DEF JobsExist, Names
<1> QED BY <1>3, <1>5, <1>6 DEF Reasonable, Explained

LEMMA WritesAre ==
  ASSUME Reasonable, NEW i, Written(i) \/ WrittenUnsafely(i) \/ NotWritten(i)
  PROVE  /\ m # Nil /\ i \in DOMAIN saves /\ Thinned(saves', saves)
         /\ (\E calls : Stopped(m', calls)) \/ Restaged("sent", m')
         /\ file' \in {file} \cup {saves[k].doc : k \in DOMAIN saves}
         /\ writer' \in {writer, "failed"} /\ UNCHANGED <<accepted, ids>>
         /\ strays' = strays \/ (saves[i].call # Nil /\ strays' = strays \cup {saves[i].call})
         /\ unconfirmed' \in BOOLEAN
<1>1. saves \in Seq(Save) /\ unconfirmed \in BOOLEAN BY DEF Reasonable, WorkspaceTypeOK
<1>2. CASE Written(i)
  <2>1. m # Nil /\ i \in DOMAIN saves BY <1>2, WrittenIs
  <2>2. Thinned(saves', saves) BY <1>1, <1>2, <2>1, WrittenIs, OvertakingIsThinned
  <2>3. strays' = strays \/ (saves[i].call # Nil /\ strays' = strays \cup {saves[i].call})
    BY <1>2, WrittenIs
  <2>4. unconfirmed' \in BOOLEAN
    <3>1. m.fenced \in BOOLEAN BY <2>1, MIsTame DEF Windows, Flags
    <3> QED BY <1>1, <1>2, <3>1, WrittenIs
  <2>5. (\E calls : Stopped(m', calls)) \/ Restaged("sent", m') BY <1>2, WrittenIs
  <2>6. /\ file' \in {file} \cup {saves[k].doc : k \in DOMAIN saves}
        /\ writer' \in {writer, "failed"} /\ UNCHANGED <<accepted, ids>>
    BY <1>2, <2>1, WrittenIs
  <2> QED BY <2>1, <2>2, <2>3, <2>4, <2>5, <2>6
<1>3. CASE WrittenUnsafely(i)
  <2>1. m # Nil /\ i \in DOMAIN saves /\ saves' = Overtaking(i) BY <1>3 DEF WrittenUnsafely
  <2>2. Thinned(saves', saves) BY <1>1, <2>1, OvertakingIsThinned
  <2>3. Stopped(m', CallsOf(SubSeq(saves, 1, i)))
    <3>1. m' = Unsent(m, CallsOf(SubSeq(saves, 1, i))) BY <1>3 DEF WrittenUnsafely
    <3> QED BY <2>1, <3>1, MIsTame, UnsentIs
  <2>4. /\ file' \in {file} \cup {saves[k].doc : k \in DOMAIN saves}
        /\ writer' \in {writer, "failed"} /\ UNCHANGED <<accepted, ids, strays, unconfirmed>>
    BY <1>3 DEF WrittenUnsafely, Quietly
  <2> QED BY <1>1, <2>1, <2>2, <2>3, <2>4
<1>4. CASE NotWritten(i)
  <2>1. m # Nil /\ i \in DOMAIN saves /\ saves' = Without(i) BY <1>4 DEF NotWritten
  <2>2. Thinned(saves', saves) BY <1>1, <2>1, WithoutIsThinned
  <2>3. Stopped(m', {saves[i].call} \ {Nil})
    <3>1. m' = Unsent(m, {saves[i].call} \ {Nil}) BY <1>4 DEF NotWritten
    <3> QED BY <2>1, <3>1, MIsTame, UnsentIs
  <2>4. /\ file' \in {file} \cup {saves[k].doc : k \in DOMAIN saves}
        /\ writer' \in {writer, "failed"} /\ UNCHANGED <<accepted, ids, strays, unconfirmed>>
    BY <1>4 DEF NotWritten, Quietly
  <2> QED BY <1>1, <2>1, <2>2, <2>3, <2>4
<1> QED BY <1>2, <1>3, <1>4

LEMMA WritesKeepReasonable ==
  ASSUME Reasonable, NEW i, Written(i) \/ WrittenUnsafely(i) \/ NotWritten(i)
  PROVE  Reasonable'
<1>1. strays' \subseteq Call
  <2>1. strays \subseteq Call BY DEF Reasonable, WorkspaceTypeOK
  <2> QED BY <2>1, WritesAre, CallsAreCalls
<1> QED BY <1>1, WritesAre, SavingKeepsReasonable

\* A window that has just been opened.
LEMMA WindowIs ==
  ASSUME NEW d \in Document \cup {Nil}, NEW x, x = Window(d)
  PROVE  /\ x \in Windows /\ x # Nil /\ ~x.busy /\ x.saved = d /\ x.resuming = Nil /\ x.detail = 0
         /\ x.plan = Nil /\ x.apply = Nil /\ x.chain = Nil /\ x.key = 0 /\ ~x.fenced /\ x.form = Nil
<1>1. PICK f, o, u, e : f = FALSE /\ o = "no" /\ u = "none" /\ e = "" OBVIOUS
<1>2. f \in Flags /\ o \in Openings /\ u \in Outcomes /\ e \in Modals BY <1>1, Constants
<1>3. x = [form |-> Nil, picking |-> f, kept |-> Nil,
           plan |-> Nil, key |-> 0, offer |-> Nil,
           asked |-> Nil, load |-> Nil, checking |-> f, opening |-> o, apply |-> Nil,
           busy |-> f, chain |-> Nil,
           detail |-> 0, outcome |-> u, waiting |-> 0,
           autoReview |-> 0, autoPreview |-> f,
           saved |-> d, fenced |-> f, modal |-> e, resuming |-> Nil]
  BY <1>1, Zenon DEF Window
<1>4. x \in Windows BY <1>2, <1>3 DEF Windows
<1>5. /\ x.busy = f /\ x.saved = d /\ x.resuming = Nil /\ x.detail = 0
      /\ x.plan = Nil /\ x.apply = Nil /\ x.chain = Nil /\ x.key = 0 /\ x.fenced = f /\ x.form = Nil
  BY <1>3
<1> QED BY <1>1, <1>4, <1>5, NilIsNothing

LEMMA GoneIs ==
  ASSUME Reasonable, Quit \/ Die
  PROVE  /\ m # Nil /\ m' = Nil /\ saves' = <<>> /\ UNCHANGED <<accepted, ids, unconfirmed, writer>>
         /\ strays' = strays \cup Abandoned(m) /\ strays' \subseteq Call
         /\ file' = file \/ (m.saved # Nil /\ writer = "current" /\ file' = m.saved)
<1>1. m # Nil /\ Gone /\ UNCHANGED writer BY DEF Quit, Die
<1>2. file' = file \/ (m.saved # Nil /\ writer = "current" /\ file' = m.saved) BY DEF Quit, Die
<1>3. m' = Nil /\ saves' = <<>> /\ UNCHANGED <<accepted, ids, unconfirmed>> BY <1>1 DEF Gone
<1>4. strays' = strays \cup Abandoned(m) BY <1>1 DEF Gone, Abandoned
<1>5. Abandoned(m) \subseteq Call BY <1>1, CallsAreCalls DEF Abandoned
<1>6. strays \subseteq Call BY DEF Reasonable, WorkspaceTypeOK
<1> QED BY <1>1, <1>2, <1>3, <1>4, <1>5, <1>6

LEMMA ElsewhereKeepsReasonable ==
  ASSUME Reasonable,
         \/ OtherSaves \/ Quit \/ Die \/ StartWindow \/ StartWindowWithout
         \/ \E j : JobEnds(j, "succeeded") \/ JobEnds(j, "failed")
         \/ \E c \in strays : StrayArrives(c)
  PROVE  Reasonable'
<1>1. /\ saves \in Seq(Save) /\ accepted \in Seq(AcceptedJob) /\ strays \subseteq Call
      /\ file \in Document \cup {Nil} /\ Names(file) /\ m \in Windows \cup {Nil}
      /\ writer \in {"current", "stale", "failed"} /\ ids \in [review : Nat, key : Nat]
      /\ unconfirmed \in BOOLEAN /\ (m # Nil => Explained(m))
      /\ \A i \in DOMAIN saves : Names(saves[i].doc)
      /\ m # Nil => Names(m.saved) /\ Names(m.resuming) /\ m.detail <= Len(accepted)
  BY DEF Reasonable, WorkspaceTypeOK, JobsExist
<1>2. CASE OtherSaves
  <2>1. PICK d : d = Draft(ImportOf(Nil)) OBVIOUS
  <2>2. d \in Document /\ d.job = 0 BY <2>1 DEF Draft, ImportOf, Document, Form
  <2>3. /\ file' = d /\ writer' \in {writer, "stale"} /\ unconfirmed' = FALSE
        /\ UNCHANGED <<m, saves, accepted, strays, ids>>
    BY <1>2, <2>1 DEF OtherSaves
  <2>4. 0 <= Len(accepted) BY <1>1
  <2>5. WorkspaceTypeOK' BY <1>1, <2>2, <2>3 DEF WorkspaceTypeOK
  <2>6. JobsExist' BY <1>1, <2>2, <2>3, <2>4 DEF JobsExist, Names
  <2> QED BY <1>1, <2>3, <2>5, <2>6 DEF Reasonable, Explained
<1>3. CASE Quit \/ Die
  <2>1. file' \in Document \cup {Nil} /\ Names(file')
    <3>1. m # Nil => m.saved \in Document \cup {Nil} BY <1>1 DEF Windows
    <3> QED BY <1>1, <1>3, <3>1, GoneIs
  <2>2. /\ m' = Nil /\ saves' = <<>> /\ UNCHANGED <<accepted, ids, unconfirmed, writer>>
        /\ strays' \subseteq Call
    BY <1>3, GoneIs
  <2>3. <<>> \in Seq(Save) OBVIOUS
  <2>4. WorkspaceTypeOK' BY <1>1, <2>1, <2>2, <2>3 DEF WorkspaceTypeOK
  <2>5. JobsExist' BY <2>1, <2>2 DEF JobsExist, Names
  <2> QED BY <2>2, <2>4, <2>5 DEF Reasonable
<1>4. CASE StartWindow \/ StartWindowWithout
  <2>1. /\ writer' \in {"current", "failed"} /\ UNCHANGED <<saves, file, accepted, strays, ids, unconfirmed>>
        /\ \E d \in {file, Nil} : m' = Window(d)
    BY <1>4 DEF StartWindow, StartWindowWithout, Quietly
  <2>2. PICK d \in {file, Nil} : m' = Window(d) BY <2>1
  <2>3. /\ m' \in Windows /\ m' # Nil /\ ~m'.busy /\ m'.saved = d /\ m'.resuming = Nil /\ m'.detail = 0
    BY <1>1, <2>2, WindowIs
  <2>4. 0 <= Len(accepted) BY <1>1
  <2>5. WorkspaceTypeOK' BY <1>1, <2>1, <2>3 DEF WorkspaceTypeOK
  <2>6. JobsExist' BY <1>1, <2>1, <2>3, <2>4 DEF JobsExist, Names
  <2> QED BY <2>3, <2>5, <2>6 DEF Reasonable, Explained
<1>5. ASSUME accepted' \in Seq(AcceptedJob), Len(accepted) <= Len(accepted'), strays' \subseteq Call,
             UNCHANGED <<m, saves, file, writer, ids, unconfirmed>>
      PROVE  Reasonable'
  <2>1. PICK k, l : k = Len(accepted) /\ l = Len(accepted') OBVIOUS
  <2>2. k \in Nat /\ l \in Nat /\ k <= l BY <1>1, <1>5, <2>1
  <2>3. \A d : d # Nil /\ d \in Document /\ Names(d) => d.job <= l
    BY <2>1, <2>2 DEF Names, Document
  <2>4. WorkspaceTypeOK' BY <1>1, <1>5 DEF WorkspaceTypeOK
  <2>5. \A i \in DOMAIN saves : saves[i].doc \in Document BY CallsAreCalls
  <2>6. m # Nil => /\ m.saved \in Document \cup {Nil} /\ m.resuming \in Document \cup {Nil}
                   /\ m.detail \in Nat
    BY <1>1 DEF Windows
  <2>7. /\ file # Nil => file.job <= l
        /\ \A i \in DOMAIN saves : saves[i].doc # Nil => saves[i].doc.job <= l
        /\ m # Nil => /\ m.saved # Nil => m.saved.job <= l
                      /\ m.resuming # Nil => m.resuming.job <= l
                      /\ m.detail <= l
    BY <1>1, <2>1, <2>2, <2>3, <2>5, <2>6
  <2>8. JobsExist' BY <1>5, <2>1, <2>7 DEF JobsExist, Names
  <2> QED BY <1>1, <1>5, <2>4, <2>8 DEF Reasonable, Explained
<1>6. ASSUME NEW j, NEW state \in {"succeeded", "failed"}, JobEnds(j, state) PROVE Reasonable'
  <2>1. j \in DOMAIN accepted /\ accepted[j] \in AcceptedJob BY <1>1, <1>6 DEF JobEnds
  <2>2. PICK e : e = [accepted[j] EXCEPT !.state = state] OBVIOUS
  <2>3. e \in AcceptedJob BY <2>1, <2>2 DEF AcceptedJob
  <2>4. accepted' = [accepted EXCEPT ![j] = e] BY <1>6, <2>2 DEF JobEnds
  <2>5. accepted' \in Seq(AcceptedJob) /\ Len(accepted') = Len(accepted)
    BY <1>1, <2>1, <2>3, <2>4
  <2>6. Len(accepted) <= Len(accepted') /\ strays' \subseteq Call BY <1>1, <1>6, <2>5 DEF JobEnds
  <2> QED BY <1>5, <1>6, <2>5, <2>6 DEF JobEnds
<1>7. ASSUME NEW c \in strays, StrayArrives(c) PROVE Reasonable'
  <2>1. c \in Call /\ Accepting(c) BY <1>1, <1>7 DEF StrayArrives
  <2>2. accepted' \in Seq(AcceptedJob) /\ Len(accepted) <= Len(accepted')
    BY <1>1, <2>1, AcceptingIs
  <2>3. strays' \subseteq Call BY <1>1, <1>7 DEF StrayArrives
  <2> QED BY <1>5, <1>7, <2>2, <2>3 DEF StrayArrives
<1> QED BY <1>2, <1>3, <1>4, <1>6, <1>7

-----------------------------------------------------------------------------
(* Every step is one of these. *)

Elsewheres ==
  \/ OtherSaves \/ Quit \/ Die \/ StartWindow \/ StartWindowWithout
  \/ \E j : JobEnds(j, "succeeded") \/ JobEnds(j, "failed")
  \/ \E c \in strays : StrayArrives(c)
Writes == \E i : Written(i) \/ WrittenUnsafely(i) \/ NotWritten(i)
Submissions == Confirm \/ PlanArrives \/ Applied \/ NotSent \/ ApplyRefused \/ ApplyFails

LEMMA StepIs ==
  ASSUME Reasonable, WorkspaceNext
  PROVE  QuietStep \/ FreshStep \/ Submissions \/ Writes \/ Elsewheres
<1>1. CASE Pressed
  <2>1. \/ \E kind \in {"import", "creation"} : OpenSetup(kind)
        \/ NewVM \/ Back \/ StartNew \/ ResumeSetup
        \/ \E s \in Settings : Edit(s)
        \/ EscForm \/ GiveUp \/ ReadHardware \/ Preview \/ Confirm \/ EscReview
        \/ \E j \in DOMAIN accepted : ChooseSource(j) \/ OpenJob(j)
        \/ \E v \in Nat : PreviewOther("start", v) \/ PreviewOther("discard", v)
        \/ Leave \/ RefreshOutcome \/ \E how \in {"show", "start"} : OpenVM(how)
    <3>1. 0 .. Len(accepted) \subseteq Nat BY DEF Reasonable, WorkspaceTypeOK
    <3> QED BY <1>1, <3>1, Zenon DEF Pressed
  <2>2. ASSUME NEW v \in Nat, PreviewOther("start", v) \/ PreviewOther("discard", v) PROVE QuietStep
    BY <2>2, PreviewOtherIsQuiet
  <2>3. CASE \E kind \in {"import", "creation"} : OpenSetup(kind) BY <2>3, OpenSetupIsTame
  <2>4. CASE NewVM \/ StartNew BY <2>4, NewVMIsFresh, StartNewIsFresh
  <2>5. CASE Back \/ ResumeSetup \/ EscForm \/ GiveUp
    BY <2>5, BackIsQuiet, ResumeSetupIsQuiet, EscFormIsQuiet, GiveUpIsQuiet
  <2>6. CASE \E s \in Settings : Edit(s) BY <2>6, EditIsQuiet
  <2>7. CASE ReadHardware \/ Preview \/ EscReview \/ Leave \/ RefreshOutcome
    BY <2>7, ReadHardwareIsQuiet, PreviewIsQuiet, EscReviewIsQuiet, LeaveIsQuiet, RefreshOutcomeIsQuiet
  <2>8. CASE \E j \in DOMAIN accepted : ChooseSource(j) \/ OpenJob(j)
    BY <2>8, ChooseSourceIsQuiet, OpenJobIsQuiet
  <2>9. CASE \E how \in {"show", "start"} : OpenVM(how) BY <2>9, OpenVMIsQuiet
  <2>10. CASE Confirm BY <2>10 DEF Submissions
  <2> QED BY <2>1, <2>2, <2>3, <2>4, <2>5, <2>6, <2>7, <2>8, <2>9, <2>10
<1>2. CASE CheckAnswered
  BY <1>2, CheckedIsQuiet, NotCheckedIsQuiet DEF CheckAnswered
<1>3. CASE LoadAnswered
  BY <1>3, LoadedIsFresh, LoadDiffersIsQuiet, LoadFailsIsQuiet DEF LoadAnswered
<1>4. CASE PlanAnswered
  BY <1>4, PlanFailsIsQuiet DEF PlanAnswered, Submissions
<1>5. CASE ApplyAnswered
  BY <1>5 DEF ApplyAnswered, Submissions
<1>6. CASE VMAnswered
  BY <1>6, VMOpenedIsQuiet, VMNotOpenedIsQuiet DEF VMAnswered
<1>7. CASE JobAnswered
  BY <1>7, PreparationReadIsQuiet, JobReadIsQuiet, OutcomeReadIsQuiet, PulseIsQuiet,
     PreparationUnreadIsQuiet, OutcomeUnreadIsQuiet DEF JobAnswered
<1>8. CASE Saving BY <1>8 DEF Saving, Writes
<1>9. CASE Elsewhere BY <1>9 DEF Elsewhere, Elsewheres
<1> QED BY <1>1, <1>2, <1>3, <1>4, <1>5, <1>6, <1>7, <1>8, <1>9 DEF WorkspaceNext

LEMMA ReasonableAtFirst ==
  ASSUME WorkspaceInit PROVE Reasonable
<1>1. /\ m \in Windows /\ m # Nil /\ ~m.busy /\ m.saved = Nil /\ m.resuming = Nil /\ m.detail = 0
  BY WindowIs DEF WorkspaceInit
<1>2. /\ saves = <<>> /\ file = Nil /\ writer = "current" /\ accepted = <<>> /\ strays = {}
      /\ ids = [review |-> 0, key |-> 0] /\ unconfirmed = FALSE
  BY DEF WorkspaceInit
<1>3. <<>> \in Seq(Save) /\ <<>> \in Seq(AcceptedJob) /\ Len(<<>>) = 0 OBVIOUS
<1>4. WorkspaceTypeOK BY <1>1, <1>2, <1>3 DEF WorkspaceTypeOK
<1>5. JobsExist BY <1>1, <1>2, <1>3 DEF JobsExist, Names
<1> QED BY <1>1, <1>4, <1>5 DEF Reasonable, Explained

LEMMA ReasonableStays ==
  ASSUME Reasonable, [WorkspaceNext]_workspaceVars PROVE Reasonable'
<1>1. CASE UNCHANGED workspaceVars
  BY <1>1 DEF workspaceVars, Reasonable, WorkspaceTypeOK, JobsExist, Names, Explained
<1>2. CASE WorkspaceNext
  <2>1. CASE Submissions
    BY <2>1, ConfirmKeepsReasonable, PlanArrivesKeepsReasonable, AppliedKeepsReasonable,
       SubmissionKeepsReasonable DEF Submissions
  <2>2. CASE Writes BY <2>2, WritesKeepReasonable DEF Writes
  <2>3. CASE Elsewheres BY <2>3, ElsewhereKeepsReasonable DEF Elsewheres
  <2> QED BY <1>2, <2>1, <2>2, <2>3, StepIs, TameKeepsReasonable
<1> QED BY <1>1, <1>2

\* The window and everything it has sent, saved and been told keep their types,
\* and a busy window always has a cause.
THEOREM WorkspaceIsReasonable == WorkspaceSpec => []Reasonable
<1>1. WorkspaceInit => Reasonable BY ReasonableAtFirst
<1>2. Reasonable /\ [WorkspaceNext]_workspaceVars => Reasonable' BY ReasonableStays
<1> QED BY <1>1, <1>2, PTL DEF WorkspaceSpec

\* A window that is busy waits for something that will answer, however keys,
\* answers, failures and other pages interleave: the cause that the proof keeps
\* is stronger, since a check of a resumed preparation counts only while its
\* question is not shown again.
THEOREM BusyWindowsWait == WorkspaceSpec => []BusyHasACause
<1>1. Reasonable => BusyHasACause BY DEF Reasonable, Explained, BusyHasACause
<1> QED BY <1>1, WorkspaceIsReasonable, PTL

-----------------------------------------------------------------------------
(* Plans and the keys they are sent under.                                 *)

\* Everything that has been sent or will be: calls nobody waits for, calls to be
\* sent when the setup is saved, the submission awaited, and the jobs.
Requests ==
  strays \cup ({saves[i].call : i \in DOMAIN saves} \ {Nil})
         \cup (IF m # Nil /\ m.apply # Nil THEN {m.apply.call} ELSE {})
         \cup {accepted[i] : i \in DOMAIN accepted}

Agrees(r, s) ==
  /\ r.plan = s.plan /\ r.key = s.key /\ r.by = s.by /\ r.approval = s.approval /\ r.root = s.root
Repeating == \A r \in Requests' : \E s \in Requests : Agrees(r, s)

Numbered == \A r \in Requests : r.plan.id <= ids.review /\ r.key <= ids.key /\ r.key # 0
OneKey ==
  \A r, s \in Requests : /\ r.plan.id = s.plan.id => r.key = s.key
                         /\ r.key = s.key => r.plan = s.plan /\ r.approval = s.approval
KeysDiffer == \A i, k \in DOMAIN accepted : i # k => accepted[i].key # accepted[k].key
OnScreen ==
  m # Nil /\ m.plan # Nil =>
    /\ m.plan.id <= ids.review /\ m.key <= ids.key
    /\ \A r \in Requests :
         /\ r.plan.id = m.plan.id =>
              m.key # 0 /\ r.key = m.key /\ r.plan = m.plan /\ r.approval = m.offer
         /\ m.key # 0 /\ r.key = m.key => r.plan.id = m.plan.id
Sound == Numbered /\ OneKey /\ KeysDiffer /\ OnScreen

LEMMA RequestsAreTyped ==
  ASSUME Reasonable, NEW r \in Requests
  PROVE  /\ r.plan \in Review /\ r.plan.id \in Nat /\ r.key \in Nat /\ r.root \in Nat
         /\ r.by \in {"user", "chain"} /\ r.approval \in Offer \cup {Nil}
<1>1. strays \subseteq Call /\ accepted \in Seq(AcceptedJob) BY DEF Reasonable, WorkspaceTypeOK
<1>2. r \in Call \/ r \in AcceptedJob
  <2>1. \A i \in DOMAIN accepted : accepted[i] \in AcceptedJob BY <1>1
  <2> QED BY <1>1, <2>1, CallsAreCalls DEF Requests
<1> QED BY <1>2 DEF Call, AcceptedJob, Review

LEMMA RequestsNow ==
  /\ strays \subseteq Requests
  /\ \A i \in DOMAIN saves : saves[i].call # Nil => saves[i].call \in Requests
  /\ m # Nil /\ m.apply # Nil => m.apply.call \in Requests
  /\ \A i \in DOMAIN accepted : accepted[i] \in Requests
BY DEF Requests

\* A step after which there is nothing new to send.
LEMMA RepeatingIs ==
  ASSUME \A r \in strays' : r \in Requests,
         \A i \in DOMAIN saves' : saves'[i].call # Nil => saves'[i].call \in Requests,
         m' # Nil /\ m'.apply # Nil => m'.apply.call \in Requests,
         \A i \in DOMAIN accepted' : \E s \in Requests : Agrees(accepted'[i], s)
  PROVE  Repeating
<1>1. SUFFICES ASSUME NEW r \in Requests' PROVE \E s \in Requests : Agrees(r, s)
  BY DEF Repeating
<1>2. \/ r \in strays' \/ (\E i \in DOMAIN saves' : r = saves'[i].call /\ r # Nil)
      \/ (m' # Nil /\ m'.apply # Nil /\ r = m'.apply.call) \/ \E i \in DOMAIN accepted' : r = accepted'[i]
  BY <1>1 DEF Requests
<1>3. r \in Requests => Agrees(r, r) BY DEF Agrees
<1> QED BY <1>2, <1>3

LEMMA RepeatingKeepsSound ==
  ASSUME Reasonable, Sound, Repeating, KeysDiffer',
         ids' \in [review : Nat, key : Nat], ids.review <= ids'.review, ids.key <= ids'.key,
         m' # Nil /\ m'.plan # Nil =>
           \/ m # Nil /\ m'.plan = m.plan /\ m'.key = m.key /\ m'.offer = m.offer
           \/ /\ m'.plan.id \in Nat /\ m'.plan.id > ids.review /\ m'.plan.id <= ids'.review
              /\ m'.key = 0
  PROVE  Sound'
<1>1. ids \in [review : Nat, key : Nat] BY DEF Reasonable, WorkspaceTypeOK
<1>2. PICK a, b, a1, b1 \in Nat : a = ids.review /\ b = ids.key /\ a1 = ids'.review /\ b1 = ids'.key
  BY <1>1
<1>3. a <= a1 /\ b <= b1 BY <1>2
<1>4. \A r \in Requests : /\ r.plan.id \in Nat /\ r.key \in Nat
                          /\ r.plan.id <= a /\ r.key <= b /\ r.key # 0
  BY <1>2, RequestsAreTyped DEF Sound, Numbered
<1>5. \A r \in Requests' : /\ r.plan.id \in Nat /\ r.key \in Nat
                           /\ r.plan.id <= a /\ r.key <= b /\ r.key # 0
  BY <1>4 DEF Repeating, Agrees
<1>6. Numbered' BY <1>2, <1>3, <1>5 DEF Numbered
<1>7. OneKey'
  <2>1. SUFFICES ASSUME NEW r \in Requests', NEW s \in Requests'
                 PROVE  /\ r.plan.id = s.plan.id => r.key = s.key
                        /\ r.key = s.key => r.plan = s.plan /\ r.approval = s.approval
    BY DEF OneKey
  <2>2. PICK q \in Requests : Agrees(r, q) BY DEF Repeating
  <2>3. PICK t \in Requests : Agrees(s, t) BY DEF Repeating
  <2>4. /\ q.plan.id = t.plan.id => q.key = t.key
        /\ q.key = t.key => q.plan = t.plan /\ q.approval = t.approval
    BY DEF Sound, OneKey
  <2> QED BY <2>2, <2>3, <2>4 DEF Agrees
<1>8. OnScreen'
  <2>1. CASE m' = Nil \/ m'.plan = Nil BY <2>1 DEF OnScreen
  <2>2. CASE m # Nil /\ m'.plan # Nil /\ m'.plan = m.plan /\ m'.key = m.key /\ m'.offer = m.offer
    <3>1. m.key \in Nat /\ m.plan.id \in Nat
      <4>1. m \in Windows BY <2>2, MIsTame
      <4> QED BY <2>2, <4>1 DEF Windows, Review
    <3>2. m.plan.id <= a /\ m.key <= b BY <1>2, <2>2 DEF Sound, OnScreen
    <3>3. m'.plan.id <= a1 /\ m'.key <= b1 BY <1>3, <2>2, <3>1, <3>2
    <3>4. \A r \in Requests' :
            /\ r.plan.id = m.plan.id =>
                 m.key # 0 /\ r.key = m.key /\ r.plan = m.plan /\ r.approval = m.offer
            /\ m.key # 0 /\ r.key = m.key => r.plan.id = m.plan.id
      <4>1. SUFFICES ASSUME NEW r \in Requests'
            PROVE /\ r.plan.id = m.plan.id =>
                       m.key # 0 /\ r.key = m.key /\ r.plan = m.plan /\ r.approval = m.offer
                  /\ m.key # 0 /\ r.key = m.key => r.plan.id = m.plan.id
        OBVIOUS
      <4>2. PICK q \in Requests : Agrees(r, q) BY DEF Repeating
      <4>3. /\ q.plan.id = m.plan.id =>
                       m.key # 0 /\ q.key = m.key /\ q.plan = m.plan /\ q.approval = m.offer
            /\ m.key # 0 /\ q.key = m.key => q.plan.id = m.plan.id
        BY <2>2 DEF Sound, OnScreen
      <4> QED BY <4>2, <4>3 DEF Agrees
    <3> QED BY <1>2, <2>2, <3>3, <3>4 DEF OnScreen
  <2>3. CASE /\ m'.plan.id \in Nat /\ m'.plan.id > ids.review /\ m'.plan.id <= ids'.review
             /\ m'.key = 0
    <3>1. \A r \in Requests' : r.plan.id # m'.plan.id /\ r.key # 0
      BY <1>2, <1>5, <2>3
    <3>2. m'.key <= ids'.key BY <1>2, <2>3
    <3> QED BY <2>3, <3>1, <3>2 DEF OnScreen
  <2> QED BY <2>1, <2>2, <2>3
<1> QED BY <1>6, <1>7, <1>8 DEF Sound

\* What is known of a plan that is sent.
Screened(n) ==
  /\ n.plan \in Review /\ n.key \in Nat /\ n.key <= ids.key
  /\ \A r \in Requests :
       /\ r.plan.id = n.plan.id =>
            n.key # 0 /\ r.key = n.key /\ r.plan = n.plan /\ r.approval = n.offer
       /\ n.key # 0 /\ r.key = n.key => r.plan.id = n.plan.id

LEMMA SentRequests ==
  ASSUME Reasonable, m # Nil, NEW n \in Windows, NEW c, Sent(n, c), n.apply = m.apply, UNCHANGED accepted,
         NEW r \in Requests'
  PROVE  r = c \/ r \in Requests
<1>1. \/ r \in strays' \/ (\E i \in DOMAIN saves' : r = saves'[i].call /\ r # Nil)
      \/ (m' # Nil /\ m'.apply # Nil /\ r = m'.apply.call) \/ \E i \in DOMAIN accepted' : r = accepted'[i]
  BY DEF Requests
<1>2. CASE r \in strays'
  <2>1. Abandoned(n) \subseteq Requests BY RequestsNow DEF Abandoned
  <2> QED BY <1>2, <2>1, RequestsNow DEF Sent
<1>3. ASSUME NEW i \in DOMAIN saves', r = saves'[i].call, r # Nil PROVE r = c \/ r \in Requests
  <2>1. CASE saves' = saves BY <1>3, <2>1, RequestsNow
  <2>2. ASSUME NEW d \in Document, saves' = Append(saves, [doc |-> d, call |-> c])
        PROVE  r = c \/ r \in Requests
    <3>1. PICK e : e = [doc |-> d, call |-> c] OBVIOUS
    <3>2. e.call = c BY <3>1
    <3>3. saves \in Seq(Save) BY DEF Reasonable, WorkspaceTypeOK
    <3>4. saves'[i] = e \/ (i \in DOMAIN saves /\ saves'[i] = saves[i])
      BY <1>3, <2>2, <3>1, <3>3
    <3> QED BY <1>3, <3>2, <3>4, RequestsNow
  <2> QED BY <2>1, <2>2 DEF Sent
<1>4. CASE r = m'.apply.call BY <1>4 DEF Sent
<1>5. CASE \E i \in DOMAIN accepted' : r = accepted'[i] BY <1>5, RequestsNow
<1> QED BY <1>1, <1>2, <1>3, <1>4, <1>5

LEMMA SentKeepsSound ==
  ASSUME Reasonable, Sound, m # Nil, NEW n \in Windows, NEW c, Sent(n, c), n.apply = m.apply,
         UNCHANGED accepted, c.plan = n.plan, c.approval = n.offer, c.key = KeyOfReview(n), Screened(n)
  PROVE  Sound'
<1>1. ids \in [review : Nat, key : Nat] /\ ids' \in [review : Nat, key : Nat]
  BY DEF Reasonable, WorkspaceTypeOK, Sent
<1>2. PICK a, b, a1, b1 \in Nat : a = ids.review /\ b = ids.key /\ a1 = ids'.review /\ b1 = ids'.key
  BY <1>1
<1>3. PICK k, l, p \in Nat : k = c.key /\ l = n.key /\ p = n.plan.id
  <2>1. c.key \in Nat BY DEF Sent, Call
  <2>2. n.key \in Nat /\ n.plan.id \in Nat BY DEF Screened, Review
  <2> QED BY <2>1, <2>2
<1>4. k = (IF l = 0 THEN b + 1 ELSE l) /\ l <= b /\ k # 0
  BY <1>2, <1>3 DEF KeyOfReview, Screened
<1>5. a1 = (IF p > a THEN p ELSE a) /\ b1 = (IF k > b THEN k ELSE b)
  BY <1>2, <1>3 DEF Sent
<1>6. a <= a1 /\ b <= b1 /\ p <= a1 /\ k <= b1 BY <1>5
<1>7. \A r \in Requests : /\ r.plan.id \in Nat /\ r.key \in Nat
                          /\ r.plan.id <= a /\ r.key <= b /\ r.key # 0
  BY <1>2, RequestsAreTyped DEF Sound, Numbered
<1>8. \A r \in Requests : /\ r.plan.id = p => l # 0 /\ r.key = l /\ r.plan = n.plan /\ r.approval = n.offer
                          /\ l # 0 /\ r.key = l => r.plan.id = p
  BY <1>3 DEF Screened
<1>9. \A r \in Requests : /\ r.plan.id = p => r.key = k
                          /\ r.key = k => r.plan = n.plan /\ r.approval = n.offer
  BY <1>4, <1>7, <1>8
<1>10. \A r \in Requests' : r = c \/ r \in Requests BY SentRequests
<1>11. c.plan.id = p /\ c.key = k BY <1>3
<1>12. \A r \in Requests' : r.plan.id <= a1 /\ r.key <= b1 /\ r.key # 0
  BY <1>4, <1>6, <1>7, <1>10, <1>11
<1>13. Numbered' BY <1>2, <1>12 DEF Numbered
<1>14. OneKey'
  <2>1. SUFFICES ASSUME NEW r \in Requests', NEW s \in Requests'
                 PROVE  /\ r.plan.id = s.plan.id => r.key = s.key
                        /\ r.key = s.key => r.plan = s.plan /\ r.approval = s.approval
    BY DEF OneKey
  <2>2. CASE r \in Requests /\ s \in Requests BY <2>2 DEF Sound, OneKey
  <2>3. CASE r = c /\ s \in Requests BY <1>9, <1>11, <2>3
  <2>4. CASE s = c /\ r \in Requests BY <1>9, <1>11, <2>4
  <2>5. CASE r = c /\ s = c BY <2>5
  <2> QED BY <1>10, <2>2, <2>3, <2>4, <2>5
<1>15. KeysDiffer' BY DEF Sound, KeysDiffer
<1>16. OnScreen'
  <2>1. m'.plan = n.plan /\ m'.key = c.key /\ m'.offer = n.offer BY DEF Sent
  <2>2. m'.plan.id = p /\ m'.key = k /\ m'.plan.id <= ids'.review /\ m'.key <= ids'.key
    BY <1>2, <1>3, <1>6, <2>1
  <2>3. \A r \in Requests' : /\ r.plan.id = p => r.key = k /\ r.plan = n.plan /\ r.approval = n.offer
                             /\ r.key = k => r.plan.id = p
    BY <1>3, <1>8, <1>9, <1>10, <1>11
  <2> QED BY <1>4, <2>1, <2>2, <2>3 DEF OnScreen
<1> QED BY <1>13, <1>14, <1>15, <1>16 DEF Sound

LEMMA ConfirmKeepsSound ==
  ASSUME Reasonable, Sound, Confirm PROVE Sound'
<1>1. /\ m # Nil /\ m.plan # Nil /\ UNCHANGED <<accepted, unconfirmed>>
      /\ Sent(m, CallFor(m, "user"))
  BY ConfirmIs
<1>2. m \in Windows BY <1>1, MIsTame
<1>3. Screened(m)
  <2>1. m.plan \in Review /\ m.key \in Nat BY <1>1, <1>2 DEF Windows
  <2> QED BY <1>1, <2>1 DEF Screened, Sound, OnScreen
<1>4. PICK c : c = CallFor(m, "user") OBVIOUS
<1>5. c.plan = m.plan /\ c.approval = m.offer /\ c.key = KeyOfReview(m) BY <1>4 DEF CallFor
<1> QED BY <1>1, <1>2, <1>3, <1>4, <1>5, SentKeepsSound

LEMMA SettledRepeats ==
  ASSUME Reasonable, m # Nil, NEW n \in Windows, Settled(n), n.apply \in {m.apply, Nil},
         \A r \in strays' : r \in Requests,
         \A i \in DOMAIN accepted' : \E s \in Requests : Agrees(accepted'[i], s)
  PROVE  Repeating
<1>1. saves \in Seq(Save) BY DEF Reasonable, WorkspaceTypeOK
<1>2. /\ m' # Nil /\ Like(m', n)
      /\ \/ m' = n /\ saves' = saves
         \/ \E d \in Document : Chosen(n, d)
  BY <1>1, SettledIs
<1>3. m'.apply # Nil => m'.apply.call \in Requests BY <1>2, RequestsNow DEF Like
<1>4. \A i \in DOMAIN saves' : saves'[i].call # Nil => saves'[i].call \in Requests
  <2>1. CASE saves' = saves BY <2>1, RequestsNow
  <2>2. ASSUME NEW d \in Document, Chosen(n, d), NEW i \in DOMAIN saves', saves'[i].call # Nil
        PROVE  saves'[i].call \in Requests
    <3>1. PICK e : e = [doc |-> d, call |-> Nil] OBVIOUS
    <3>2. e.call = Nil /\ e \in Save BY <3>1 DEF Save
    <3>3. PICK t : t = Lasting OBVIOUS
    <3>4. t \in Seq(Save) /\ \A k \in DOMAIN t : \E l \in DOMAIN saves : t[k] = saves[l]
      BY <1>1, <3>3, LastingIsThinned DEF Thinned
    <3>5. saves' = Append(t, e) BY <2>2, <3>1, <3>3 DEF Chosen
    <3>6. saves'[i] = e \/ (i \in DOMAIN t /\ saves'[i] = t[i]) BY <2>2, <3>2, <3>4, <3>5
    <3> QED BY <2>2, <3>2, <3>4, <3>6, RequestsNow
  <2> QED BY <1>2, <2>1, <2>2
<1> QED BY <1>3, <1>4, RepeatingIs

LEMMA AcceptedRepeats ==
  ASSUME Reasonable, KeysDiffer, NEW c \in Call, c \in Requests, Accepting(c)
  PROVE  KeysDiffer' /\ \A i \in DOMAIN accepted' : \E s \in Requests : Agrees(accepted'[i], s)
<1>1. accepted \in Seq(AcceptedJob) BY DEF Reasonable, WorkspaceTypeOK
<1>2. Grown(c) BY <1>1, AcceptingIs
<1>3. \A i \in DOMAIN accepted : accepted[i] \in Requests /\ Agrees(accepted[i], accepted[i])
  BY RequestsNow DEF Agrees
<1>4. CASE accepted' = accepted BY <1>3, <1>4 DEF KeysDiffer
<1>5. CASE Known(c) = {} /\ accepted' = Append(accepted, Job(c))
  <2>1. PICK r : r = Job(c) OBVIOUS
  <2>2. r \in AcceptedJob /\ r.key = c.key /\ Agrees(r, c)
    BY <2>1 DEF Job, Call, AcceptedJob, Agrees
  <2>3. PICK t : t = accepted' OBVIOUS
  <2>4. PICK n \in Nat : n = Len(accepted) BY <1>1
  <2>5. /\ DOMAIN accepted = 1 .. n /\ DOMAIN t = 1 .. n + 1 /\ t[n + 1] = r
        /\ \A i \in 1 .. n : t[i] = accepted[i]
    BY <1>1, <1>5, <2>1, <2>2, <2>3, <2>4
  <2>6. \A i \in 1 .. n : accepted[i].key # c.key BY <1>5, <2>5 DEF Known
  <2>7. \A i, k \in DOMAIN t : i # k => t[i].key # t[k].key
    <3>1. \A i, k \in 1 .. n : i # k => t[i].key # t[k].key BY <2>5 DEF KeysDiffer
    <3>2. \A i \in 1 .. n : t[i].key # t[n + 1].key BY <2>2, <2>5, <2>6
    <3>3. \A i \in DOMAIN t : i \in 1 .. n \/ i = n + 1 BY <2>5
    <3> QED BY <3>1, <3>2, <3>3
  <2>8. \A i \in DOMAIN t : \E s \in Requests : Agrees(t[i], s)
    <3>1. \A i \in DOMAIN t : i \in 1 .. n \/ i = n + 1 BY <2>5
    <3> QED BY <1>3, <2>2, <2>5, <3>1
  <2> QED BY <2>3, <2>7, <2>8 DEF KeysDiffer
<1> QED BY <1>2, <1>4, <1>5 DEF Grown

LEMMA SameJobsRepeat ==
  ASSUME UNCHANGED accepted
  PROVE  /\ KeysDiffer => KeysDiffer'
         /\ \A i \in DOMAIN accepted' : \E s \in Requests : Agrees(accepted'[i], s)
BY RequestsNow DEF KeysDiffer, Agrees

LEMMA TameKeepsSound ==
  ASSUME Reasonable, Sound, QuietStep \/ FreshStep PROVE Sound' /\ Repeating
<1>1. PICK n \in Windows : Tame(n) /\ Settled(n) BY DEF QuietStep, FreshStep, Quiet, Fresh
<1>2. m # Nil /\ UNCHANGED <<accepted, strays, ids>> BY DEF QuietStep, FreshStep, Quietly
<1>3. Repeating
  <2>1. n.apply \in {m.apply, Nil} BY <1>1 DEF Tame
  <2>2. \A r \in strays' : r \in Requests BY <1>2, RequestsNow
  <2> QED BY <1>1, <1>2, <2>1, <2>2, SameJobsRepeat, SettledRepeats
<1>4. ids \in [review : Nat, key : Nat] BY DEF Reasonable, WorkspaceTypeOK
<1>5. Like(m', n) BY <1>1, SettledIs DEF Reasonable, WorkspaceTypeOK
<1>6. m'.plan = Nil \/ (m'.plan = m.plan /\ m'.key = m.key /\ m'.offer = m.offer)
  BY <1>1, <1>5 DEF Like, Tame
<1> QED BY <1>2, <1>3, <1>4, <1>6, SameJobsRepeat, RepeatingKeepsSound DEF Sound

LEMMA PlanArrivesKeepsSound ==
  ASSUME Reasonable, Sound, PlanArrives PROVE Sound'
<1>1. m # Nil /\ UNCHANGED <<accepted, unconfirmed>> BY PlanArrivesIs
<1>2. PICK p \in Review, n \in Windows :
              /\ Planned(n, p)
              /\ \/ Expected(n) /\ AsApproved(n.chain, p) /\ Sent(n, CallFor(n, "chain"))
                 \/ \E x \in Windows : Looked(x, n, p)
  BY PlanArrivesIs
<1>3. ids \in [review : Nat, key : Nat] BY DEF Reasonable, WorkspaceTypeOK
<1>4. PICK a, b, i \in Nat : a = ids.review /\ b = ids.key /\ i = p.id BY <1>3 DEF Review
<1>5. i = a + 1 /\ i > a BY <1>2, <1>4 DEF Planned
<1>6. CASE Sent(n, CallFor(n, "chain"))
  <2>1. PICK c : c = CallFor(n, "chain") OBVIOUS
  <2>2. c.plan = n.plan /\ c.approval = n.offer /\ c.key = KeyOfReview(n) BY <2>1 DEF CallFor
  <2>3. n.plan = p /\ n.key = 0 /\ n.apply = m.apply BY <1>2 DEF Planned
  <2>4. \A r \in Requests : r.plan.id # p.id
    <3>1. \A r \in Requests : r.plan.id \in Nat /\ r.plan.id <= a
      BY <1>4, RequestsAreTyped DEF Sound, Numbered
    <3> QED BY <1>4, <1>5, <3>1
  <2>5. Screened(n) BY <1>4, <2>3, <2>4 DEF Screened
  <2> QED BY <1>1, <1>6, <2>1, <2>2, <2>3, <2>5, SentKeepsSound
<1>7. ASSUME NEW x \in Windows, Looked(x, n, p) PROVE Sound'
  <2>1. /\ x.apply = m.apply /\ x.plan = p /\ x.key = 0 /\ Settled(x) /\ strays' = strays
        /\ ids'.review = p.id /\ ids'.key = ids.key /\ ids' \in [review : Nat, key : Nat]
    BY <1>2, <1>7 DEF Looked, Planned
  <2>2. Repeating
    <3>1. \A r \in strays' : r \in Requests BY <2>1, RequestsNow
    <3> QED BY <1>1, <2>1, <3>1, SameJobsRepeat, SettledRepeats
  <2>3. Like(m', x) BY <2>1, SettledIs DEF Reasonable, WorkspaceTypeOK
  <2>4. /\ m'.plan.id \in Nat /\ m'.plan.id > ids.review /\ m'.plan.id <= ids'.review /\ m'.key = 0
        /\ ids.review <= ids'.review /\ ids.key <= ids'.key
    <3>1. m'.plan = p /\ m'.key = 0 BY <2>1, <2>3 DEF Like
    <3>2. m'.plan.id = i /\ ids'.review = i /\ ids'.key = b BY <1>4, <2>1, <3>1
    <3>3. ids.review = a /\ ids.key = b BY <1>4
    <3>4. a <= i /\ i <= i /\ b <= b BY <1>5
    <3> QED BY <1>5, <3>1, <3>2, <3>3, <3>4
  <2> QED BY <1>1, <2>1, <2>2, <2>4, SameJobsRepeat, RepeatingKeepsSound DEF Sound
<1> QED BY <1>2, <1>6, <1>7

LEMMA SubmissionKeepsSound ==
  ASSUME Reasonable, Sound, NotSent \/ ApplyRefused \/ ApplyFails PROVE Sound' /\ Repeating
<1>1. PICK stage : SubmissionFails(stage) BY DEF NotSent, ApplyRefused, ApplyFails
<1>2. m # Nil /\ m.apply # Nil /\ UNCHANGED <<ids, unconfirmed>> BY <1>1, SubmissionFailsIs
<1>3. PICK x \in Windows : Unanswered(x) BY <1>1, SubmissionFailsIs
<1>4. m.apply.call \in Call /\ m.apply.call \in Requests /\ strays \subseteq Requests
  BY <1>2, CallsAreCalls, RequestsNow
<1>5. /\ KeysDiffer' /\ \A i \in DOMAIN accepted' : \E s \in Requests : Agrees(accepted'[i], s)
      /\ \A r \in strays' : r \in Requests
  <2>1. \/ UNCHANGED <<accepted, strays>>
        \/ Accepting(m.apply.call) /\ UNCHANGED strays
        \/ strays' = strays \cup {m.apply.call} /\ UNCHANGED accepted
    BY DEF NotSent, ApplyRefused, ApplyFails, environment
  <2> QED BY <1>4, <2>1, AcceptedRepeats, SameJobsRepeat DEF Sound
<1>6. Repeating BY <1>2, <1>3, <1>5, SettledRepeats DEF Unanswered
<1>7. ids \in [review : Nat, key : Nat] BY DEF Reasonable, WorkspaceTypeOK
<1>8. Like(m', x) BY <1>3, SettledIs DEF Reasonable, WorkspaceTypeOK, Unanswered
<1>9. m'.plan = m.plan /\ m'.key = m.key /\ m'.offer = m.offer
  BY <1>3, <1>8 DEF Like, Unanswered
<1> QED BY <1>2, <1>5, <1>6, <1>7, <1>9, RepeatingKeepsSound

LEMMA AppliedKeepsSound ==
  ASSUME Reasonable, Sound, Applied PROVE Sound' /\ Repeating
<1>1. PICK c : c = m.apply.call OBVIOUS
<1>2. PICK j : j = JobOf(c) OBVIOUS
<1>3. m # Nil /\ m.apply # Nil /\ c \in Call /\ Accepting(c) /\ Answered(j, c) BY <1>1, <1>2, AppliedIs
<1>4. c \in Requests BY <1>1, <1>3, RequestsNow
<1>5. m'.apply = Nil /\ m'.plan = Nil /\ UNCHANGED <<strays, ids>> BY <1>3 DEF Answered
<1>6. \A i \in DOMAIN saves' : saves'[i].call # Nil => saves'[i].call \in Requests
  <2>1. CASE saves' = saves BY <2>1, RequestsNow
  <2>2. ASSUME NEW d \in Document, saves' = Append(saves, [doc |-> d, call |-> Nil]),
               NEW i \in DOMAIN saves', saves'[i].call # Nil
        PROVE  saves'[i].call \in Requests
    <3>1. PICK e : e = [doc |-> d, call |-> Nil] OBVIOUS
    <3>2. e.call = Nil /\ saves \in Seq(Save) BY <3>1 DEF Reasonable, WorkspaceTypeOK
    <3>3. saves'[i] = e \/ (i \in DOMAIN saves /\ saves'[i] = saves[i]) BY <2>2, <3>1, <3>2
    <3> QED BY <2>2, <3>2, <3>3, RequestsNow
  <2> QED BY <1>3, <2>1, <2>2 DEF Answered
<1>7. KeysDiffer' /\ \A i \in DOMAIN accepted' : \E s \in Requests : Agrees(accepted'[i], s)
  BY <1>3, <1>4, AcceptedRepeats DEF Sound
<1>8. Repeating BY <1>5, <1>6, <1>7, RequestsNow, RepeatingIs
<1>9. ids \in [review : Nat, key : Nat] BY DEF Reasonable, WorkspaceTypeOK
<1> QED BY <1>5, <1>7, <1>8, <1>9, RepeatingKeepsSound

LEMMA WritesKeepSound ==
  ASSUME Reasonable, Sound, NEW i, Written(i) \/ WrittenUnsafely(i) \/ NotWritten(i)
  PROVE  Sound' /\ Repeating
<1>1. m # Nil /\ i \in DOMAIN saves /\ Thinned(saves', saves) /\ UNCHANGED <<accepted, ids>>
  BY WritesAre
<1>2. PICK t : t = saves' OBVIOUS
<1>3. \A k \in DOMAIN t : t[k].call # Nil => t[k].call \in Requests
  <2>1. \A k \in DOMAIN t : \E l \in DOMAIN saves : t[k] = saves[l] BY <1>1, <1>2 DEF Thinned
  <2> QED BY <2>1, RequestsNow
<1>4. /\ m'.apply # Nil => m'.apply.call \in Requests
      /\ m'.plan = m.plan /\ m'.key = m.key /\ m'.offer = m.offer
  <2>1. m' = m \/ (\E s : Restaged(s, m')) BY WritesAre DEF Stopped
  <2>2. CASE m' = m BY <1>1, <2>2, RequestsNow
  <2>3. ASSUME NEW s, Restaged(s, m')
        PROVE  /\ m'.apply # Nil => m'.apply.call \in Requests
               /\ m'.plan = m.plan /\ m'.key = m.key /\ m'.offer = m.offer
    BY <1>1, <2>3, RequestsNow DEF Restaged
  <2> QED BY <2>1, <2>2, <2>3
<1>5. \A r \in strays' : r \in Requests BY <1>1, WritesAre, RequestsNow
<1>6. KeysDiffer' /\ \A k \in DOMAIN accepted' : \E s \in Requests : Agrees(accepted'[k], s)
  BY <1>1, SameJobsRepeat DEF Sound
<1>7. Repeating BY <1>2, <1>3, <1>4, <1>5, <1>6, RepeatingIs
<1>8. ids' = ids /\ ids \in [review : Nat, key : Nat] BY <1>1 DEF Reasonable, WorkspaceTypeOK
<1>9. ids' \in [review : Nat, key : Nat] /\ ids.review <= ids'.review /\ ids.key <= ids'.key
  BY <1>8
<1> QED BY <1>1, <1>4, <1>6, <1>7, <1>9, RepeatingKeepsSound

LEMMA EndingKeepsSound ==
  ASSUME Reasonable, Sound, NEW j, NEW state \in {"succeeded", "failed"}, JobEnds(j, state)
  PROVE  KeysDiffer' /\ \A k \in DOMAIN accepted' : \E s \in Requests : Agrees(accepted'[k], s)
<1>1. j \in DOMAIN accepted /\ accepted \in Seq(AcceptedJob)
  BY DEF JobEnds, Reasonable, WorkspaceTypeOK
<1>2. PICK e : e = [accepted[j] EXCEPT !.state = state] OBVIOUS
<1>3. PICK t : t = accepted' OBVIOUS
<1>4. t = [accepted EXCEPT ![j] = e] BY <1>2, <1>3 DEF JobEnds
<1>5. Agrees(e, accepted[j])
  <2>1. accepted[j] \in AcceptedJob BY <1>1
  <2> QED BY <1>2, <2>1 DEF Agrees, AcceptedJob
<1>6. DOMAIN t = DOMAIN accepted /\ \A k \in DOMAIN t : k # j => t[k] = accepted[k] BY <1>1, <1>4
<1>7. t[j] = e BY <1>1, <1>4
<1>8. \A k \in DOMAIN t : Agrees(t[k], accepted[k]) BY <1>5, <1>6, <1>7 DEF Agrees
<1>9. \A k, l \in DOMAIN t : k # l => t[k].key # t[l].key BY <1>6, <1>8 DEF Agrees, Sound, KeysDiffer
<1> QED BY <1>3, <1>6, <1>8, <1>9, RequestsNow DEF KeysDiffer

LEMMA ElsewhereKeepsSound ==
  ASSUME Reasonable, Sound, Elsewheres PROVE Sound' /\ Repeating
<1>1. ids \in [review : Nat, key : Nat] BY DEF Reasonable, WorkspaceTypeOK
<1>2. ASSUME UNCHANGED ids, Repeating, KeysDiffer',
             m' = m \/ m' = Nil \/ m'.plan = Nil
      PROVE  Sound' /\ Repeating
  <2>1. ids.review <= ids'.review /\ ids.key <= ids'.key BY <1>1, <1>2
  <2>2. ids' \in [review : Nat, key : Nat] BY <1>1, <1>2
  <2>3. m' # Nil /\ m'.plan # Nil =>
          m # Nil /\ m'.plan = m.plan /\ m'.key = m.key /\ m'.offer = m.offer
    BY <1>2
  <2> QED BY <1>2, <2>1, <2>2, <2>3, RepeatingKeepsSound
<1>3. CASE OtherSaves
  <2>1. UNCHANGED <<m, saves, accepted, strays, ids>> BY <1>3 DEF OtherSaves
  <2>2. Repeating BY <2>1, RequestsNow, SameJobsRepeat, RepeatingIs
  <2> QED BY <1>2, <2>1, <2>2, SameJobsRepeat DEF Sound
<1>4. CASE Quit \/ Die
  <2>1. /\ m # Nil /\ m' = Nil /\ saves' = <<>> /\ UNCHANGED <<accepted, ids>>
        /\ strays' = strays \cup Abandoned(m)
    BY <1>4, GoneIs
  <2>2. \A r \in strays' : r \in Requests BY <2>1, RequestsNow DEF Abandoned
  <2>3. DOMAIN saves' = {} BY <2>1
  <2>4. Repeating BY <2>1, <2>2, <2>3, RequestsNow, SameJobsRepeat, RepeatingIs
  <2> QED BY <1>2, <2>1, <2>4, SameJobsRepeat DEF Sound
<1>5. CASE StartWindow \/ StartWindowWithout
  <2>1. /\ UNCHANGED <<saves, accepted, strays, ids>> /\ \E d \in {file, Nil} : m' = Window(d)
    BY <1>5 DEF StartWindow, StartWindowWithout, Quietly
  <2>2. file \in Document \cup {Nil} BY DEF Reasonable, WorkspaceTypeOK
  <2>3. m'.plan = Nil /\ m'.apply = Nil BY <2>1, <2>2, WindowIs
  <2>4. Repeating BY <2>1, <2>3, RequestsNow, SameJobsRepeat, RepeatingIs
  <2> QED BY <1>2, <2>1, <2>3, <2>4, SameJobsRepeat DEF Sound
<1>6. ASSUME NEW j, NEW state \in {"succeeded", "failed"}, JobEnds(j, state) PROVE Sound' /\ Repeating
  <2>1. UNCHANGED <<m, saves, strays, ids>> BY <1>6 DEF JobEnds
  <2>2. KeysDiffer' /\ \A k \in DOMAIN accepted' : \E s \in Requests : Agrees(accepted'[k], s)
    BY <1>6, EndingKeepsSound
  <2>3. Repeating BY <2>1, <2>2, RequestsNow, RepeatingIs
  <2> QED BY <1>2, <2>1, <2>2, <2>3
<1>7. ASSUME NEW c \in strays, StrayArrives(c) PROVE Sound' /\ Repeating
  <2>1. /\ Accepting(c) /\ strays' = strays \ {c} /\ UNCHANGED <<m, saves, ids>>
    BY <1>7 DEF StrayArrives
  <2>2. c \in Call /\ c \in Requests BY RequestsNow DEF Reasonable, WorkspaceTypeOK
  <2>3. KeysDiffer' /\ \A k \in DOMAIN accepted' : \E s \in Requests : Agrees(accepted'[k], s)
    BY <2>1, <2>2, AcceptedRepeats DEF Sound
  <2>4. Repeating BY <2>1, <2>3, RequestsNow, RepeatingIs
  <2> QED BY <1>2, <2>1, <2>3, <2>4
<1> QED BY <1>3, <1>4, <1>5, <1>6, <1>7 DEF Elsewheres

LEMMA SoundAtFirst ==
  ASSUME WorkspaceInit PROVE Sound
<1>1. m = Window(Nil) /\ saves = <<>> /\ strays = {} /\ accepted = <<>> BY DEF WorkspaceInit
<1>2. m.plan = Nil /\ m.apply = Nil BY <1>1, WindowIs
<1>3. DOMAIN saves = {} /\ DOMAIN accepted = {} BY <1>1
<1>4. Requests = {} BY <1>1, <1>2, <1>3 DEF Requests
<1> QED BY <1>2, <1>3, <1>4 DEF Sound, Numbered, OneKey, KeysDiffer, OnScreen

LEMMA SoundStays ==
  ASSUME Reasonable, Sound, [WorkspaceNext]_workspaceVars PROVE Sound'
<1>1. CASE UNCHANGED workspaceVars
  BY <1>1 DEF workspaceVars, Sound, Numbered, OneKey, KeysDiffer, OnScreen, Requests
<1>2. CASE WorkspaceNext
  <2>1. CASE Submissions
    BY <2>1, ConfirmKeepsSound, PlanArrivesKeepsSound, AppliedKeepsSound,
       SubmissionKeepsSound DEF Submissions
  <2>2. CASE Writes BY <2>2, WritesKeepSound DEF Writes
  <2>3. CASE Elsewheres BY <2>3, ElsewhereKeepsSound
  <2> QED BY <1>2, <2>1, <2>2, <2>3, StepIs, TameKeepsSound
<1> QED BY <1>1, <1>2

\* However a submission is repeated, given up, lost on the way, resumed by
\* another window or begun by an approval, a reviewed plan becomes at most one
\* job: every call for it carries the idempotency key of its review.
THEOREM ReviewsBecomeOneJob == WorkspaceSpec => []OneJobPerReview
<1>1. WorkspaceInit => Sound BY SoundAtFirst
<1>2. Reasonable /\ Sound /\ [WorkspaceNext]_workspaceVars => Sound' BY SoundStays
<1>3. Sound => OneJobPerReview BY RequestsNow DEF Sound, OneKey, KeysDiffer, OneJobPerReview
<1> QED BY <1>1, <1>2, <1>3, WorkspaceIsReasonable, PTL DEF WorkspaceSpec

-----------------------------------------------------------------------------
(* Steps that the workspace takes on its own. *)

\* Jobs are added and end, and nothing else happens to them.
JobsLast ==
  \A i \in DOMAIN accepted :
    /\ i \in DOMAIN accepted' /\ Agrees(accepted'[i], accepted[i])
    /\ accepted[i].state = "succeeded" => accepted'[i].state = "succeeded"

\* The approval that the job c.root was sent with covers the call or job c.
Covered(c) ==
  LET p == c.plan
      r == c.root
      a == accepted[r].approval IN
  /\ r \in DOMAIN accepted /\ accepted[r].by = "user" /\ a # Nil /\ p.asks \subseteq a.asks
  /\ \/ p.op = "create" /\ IsA(r, "prepare") /\ Succeeded(r) /\ p.source = r
     \/ /\ p.op = "start" /\ a.start /\ IsA(p.source, "create") /\ Succeeded(p.source)
        /\ p.source = r \/ accepted[p.source].plan.source = r
     \/ p.op = "discard" /\ a.cleanup /\ (IsA(r, "prepare") => p.source = r)

First(op) == op = "prepare" \/ op = "create"
CallsAreCovered ==
  \A c \in Requests : /\ c.by = "chain" => Covered(c)
                      /\ c.approval # Nil => c.by = "user" /\ First(c.plan.op)
RootsComeFirst == \A i \in DOMAIN accepted : accepted[i].by = "chain" => accepted[i].root < i

\* The approval c that the window follows is that of its first job.
Follows(c) ==
  LET a == accepted[c.root].approval IN
  /\ c.root \in DOMAIN accepted /\ accepted[c.root].by = "user" /\ a # Nil
  /\ c.approved \subseteq a.asks /\ (c.start => a.start) /\ (c.cleanup => a.cleanup)
  /\ \/ IsA(c.root, "prepare") /\ c.prep = c.root /\ c.source = c.root
     \/ IsA(c.root, "create") /\ c.prep = 0 /\ c.create = c.root
  /\ c.create # 0 => /\ IsA(c.create, "create")
                     /\ c.create = c.root \/ accepted[c.create].plan.source = c.root
  /\ c.vm # 0 => c.vm = c.create /\ c.start
  /\ c.discarding => c.cleanup

\* The review on screen fits the approval, and only a first one offers another.
Fits(c, p, o) ==
  /\ c # Nil /\ p # Nil /\ c.create = 0 /\ p.op = "create" => p.source = c.prep
  /\ p # Nil /\ o # Nil => First(p.op)
WindowFollows ==
  m # Nil => (m.chain # Nil => Follows(m.chain)) /\ Fits(m.chain, m.plan, m.offer)

Approving == CallsAreCovered /\ RootsComeFirst /\ WindowFollows

LEMMA SameJobsLast == ASSUME UNCHANGED accepted PROVE JobsLast
BY DEF JobsLast, Agrees

LEMMA AcceptingLasts ==
  ASSUME Reasonable, NEW c \in Call, Accepting(c) PROVE JobsLast
<1>1. accepted \in Seq(AcceptedJob) BY DEF Reasonable, WorkspaceTypeOK
<1>2. \A i \in DOMAIN accepted : i \in DOMAIN accepted' /\ accepted'[i] = accepted[i]
  BY <1>1, AcceptingIs
<1> QED BY <1>2 DEF JobsLast, Agrees

LEMMA EndingLasts ==
  ASSUME Reasonable, NEW j, NEW state \in {"succeeded", "failed"}, JobEnds(j, state) PROVE JobsLast
<1>1. j \in DOMAIN accepted /\ accepted \in Seq(AcceptedJob) /\ accepted[j].state = "running"
  BY DEF JobEnds, Reasonable, WorkspaceTypeOK
<1>2. PICK e : e = [accepted[j] EXCEPT !.state = state] OBVIOUS
<1>3. PICK t : t = accepted' OBVIOUS
<1>4. t = [accepted EXCEPT ![j] = e] BY <1>2, <1>3 DEF JobEnds
<1>5. Agrees(e, accepted[j])
  <2>1. accepted[j] \in AcceptedJob BY <1>1
  <2> QED BY <1>2, <2>1 DEF Agrees, AcceptedJob
<1>6. DOMAIN t = DOMAIN accepted /\ \A k \in DOMAIN t : k # j => t[k] = accepted[k] BY <1>1, <1>4
<1>7. t[j] = e BY <1>1, <1>4
<1>8. \A k \in DOMAIN t : Agrees(t[k], accepted[k]) BY <1>5, <1>6, <1>7 DEF Agrees
<1>9. \A k \in DOMAIN t : accepted[k].state = "succeeded" => t[k].state = "succeeded"
  BY <1>1, <1>6
<1> QED BY <1>3, <1>6, <1>8, <1>9 DEF JobsLast

LEMMA JobsChange ==
  ASSUME Reasonable, WorkspaceNext
  PROVE  \/ UNCHANGED accepted
         \/ \E c \in Requests : c \in Call /\ Accepting(c)
         \/ \E j, state : state \in {"succeeded", "failed"} /\ JobEnds(j, state)
<1>1. CASE QuietStep \/ FreshStep BY <1>1 DEF QuietStep, FreshStep, Quietly
<1>2. CASE Submissions
  <2>1. CASE Confirm \/ PlanArrives BY <2>1, ConfirmIs, PlanArrivesIs
  <2>2. CASE Applied BY <2>2, AppliedIs, RequestsNow
  <2>3. CASE NotSent \/ ApplyRefused \/ ApplyFails
    <3>1. m # Nil /\ m.apply # Nil
      BY <2>3, SubmissionFailsIs DEF NotSent, ApplyRefused, ApplyFails
    <3>2. m.apply.call \in Call /\ m.apply.call \in Requests BY <3>1, CallsAreCalls, RequestsNow
    <3>3. UNCHANGED accepted \/ Accepting(m.apply.call)
      BY <2>3 DEF NotSent, ApplyRefused, ApplyFails, environment
    <3> QED BY <3>2, <3>3
  <2> QED BY <1>2, <2>1, <2>2, <2>3 DEF Submissions
<1>3. CASE Writes BY <1>3, WritesAre DEF Writes
<1>4. CASE Elsewheres
  <2>1. CASE OtherSaves \/ Quit \/ Die \/ StartWindow \/ StartWindowWithout
    BY <2>1, GoneIs DEF OtherSaves, StartWindow, StartWindowWithout, Quietly
  <2>2. ASSUME NEW c \in strays, StrayArrives(c)
        PROVE  c \in Requests /\ c \in Call /\ Accepting(c)
    BY <2>2, RequestsNow DEF StrayArrives, Reasonable, WorkspaceTypeOK
  <2> QED BY <1>4, <2>1, <2>2 DEF Elsewheres
<1> QED BY <1>1, <1>2, <1>3, <1>4, StepIs

LEMMA JobsStay ==
  ASSUME Reasonable, WorkspaceNext PROVE JobsLast
BY JobsChange, SameJobsLast, AcceptingLasts, EndingLasts

\* What was covered or followed stays so.
LEMMA KindsLast ==
  ASSUME JobsLast, NEW j, NEW op
  PROVE  /\ IsA(j, op) => IsA(j, op)'
         /\ j \in DOMAIN accepted /\ IsA(j, op)' => IsA(j, op)
         /\ Succeeded(j) => Succeeded(j)'
BY DEF JobsLast, IsA, Succeeded, Agrees

LEMMA CoveredLasts ==
  ASSUME JobsLast, NEW c, Covered(c) PROVE Covered(c)'
<1>1. PICK p, r, a : p = c.plan /\ r = c.root /\ a = accepted[r].approval OBVIOUS
<1>2. r \in DOMAIN accepted /\ accepted[r].by = "user" /\ a # Nil /\ p.asks \subseteq a.asks
  BY <1>1 DEF Covered
<1>3. r \in DOMAIN accepted' /\ accepted'[r].by = "user" /\ accepted'[r].approval = a
  BY <1>1, <1>2 DEF JobsLast, Agrees
<1>4. CASE p.op = "create" /\ IsA(r, "prepare") /\ Succeeded(r) /\ p.source = r
  BY <1>1, <1>2, <1>3, <1>4, KindsLast DEF Covered
<1>5. CASE /\ p.op = "start" /\ a.start /\ IsA(p.source, "create") /\ Succeeded(p.source)
           /\ p.source = r \/ accepted[p.source].plan.source = r
  <2>1. accepted'[p.source].plan.source = accepted[p.source].plan.source
    BY <1>5 DEF JobsLast, Agrees, IsA
  <2> QED BY <1>1, <1>2, <1>3, <1>5, <2>1, KindsLast DEF Covered
<1>6. CASE p.op = "discard" /\ a.cleanup /\ (IsA(r, "prepare") => p.source = r)
  BY <1>1, <1>2, <1>3, <1>6, KindsLast DEF Covered
<1> QED BY <1>1, <1>4, <1>5, <1>6 DEF Covered

LEMMA FollowsLasts ==
  ASSUME JobsLast, NEW c, Follows(c) PROVE Follows(c)'
<1>1. PICK r, a : r = c.root /\ a = accepted[r].approval OBVIOUS
<1>2. /\ r \in DOMAIN accepted /\ accepted[r].by = "user" /\ a # Nil
      /\ c.approved \subseteq a.asks /\ (c.start => a.start) /\ (c.cleanup => a.cleanup)
  BY <1>1 DEF Follows
<1>3. r \in DOMAIN accepted' /\ accepted'[r].by = "user" /\ accepted'[r].approval = a
  BY <1>1, <1>2 DEF JobsLast, Agrees
<1>4. \/ IsA(r, "prepare")' /\ c.prep = r /\ c.source = r
      \/ IsA(r, "create")' /\ c.prep = 0 /\ c.create = r
  BY <1>1, KindsLast DEF Follows
<1>5. c.create # 0 => /\ IsA(c.create, "create")'
                      /\ c.create = r \/ accepted'[c.create].plan.source = r
  BY <1>1, KindsLast DEF Follows, JobsLast, Agrees, IsA
<1>6. (c.vm # 0 => c.vm = c.create /\ c.start) /\ (c.discarding => c.cleanup) BY DEF Follows
<1> QED BY <1>1, <1>2, <1>3, <1>4, <1>5, <1>6 DEF Follows

LEMMA RootsStay ==
  ASSUME Reasonable, CallsAreCovered, RootsComeFirst, WorkspaceNext PROVE RootsComeFirst'
<1>1. JobsLast /\ accepted \in Seq(AcceptedJob) BY JobsStay DEF Reasonable, WorkspaceTypeOK
<1>2. ASSUME DOMAIN accepted' = DOMAIN accepted PROVE RootsComeFirst'
  BY <1>1, <1>2 DEF RootsComeFirst, JobsLast, Agrees
<1>3. ASSUME NEW c \in Requests, c \in Call, accepted' = Append(accepted, Job(c)) PROVE RootsComeFirst'
  <2>1. PICK r : r = Job(c) OBVIOUS
  <2>2. r.by = c.by /\ r.root = c.root BY <2>1 DEF Job
  <2>3. PICK t : t = accepted' OBVIOUS
  <2>4. PICK n \in Nat : n = Len(accepted) BY <1>1
  <2>5. /\ DOMAIN accepted = 1 .. n /\ DOMAIN t = 1 .. n + 1 /\ t[n + 1] = r
        /\ \A i \in 1 .. n : t[i] = accepted[i]
    BY <1>1, <1>3, <2>1, <2>3, <2>4
  <2>6. c.by = "chain" => c.root \in 1 .. n BY <2>5 DEF CallsAreCovered, Covered
  <2>7. \A i \in 1 .. n : t[i].by = "chain" => t[i].root < i BY <2>5 DEF RootsComeFirst
  <2>8. t[n + 1].by = "chain" => t[n + 1].root < n + 1 BY <2>2, <2>5, <2>6
  <2>9. \A i \in DOMAIN t : i \in 1 .. n \/ i = n + 1 BY <2>5
  <2> QED BY <2>3, <2>7, <2>8, <2>9 DEF RootsComeFirst
<1>4. ASSUME NEW j, NEW state, JobEnds(j, state) PROVE DOMAIN accepted' = DOMAIN accepted
  BY <1>1, <1>4 DEF JobEnds
<1> QED BY <1>1, <1>2, <1>3, <1>4, JobsChange, AcceptingIs DEF Grown

LEMMA RepeatingKeepsCovered ==
  ASSUME CallsAreCovered, JobsLast, Repeating PROVE CallsAreCovered'
<1>1. SUFFICES ASSUME NEW c \in Requests'
               PROVE  /\ c.by = "chain" => Covered(c)'
                      /\ c.approval # Nil => c.by = "user" /\ First(c.plan.op)
  BY DEF CallsAreCovered
<1>2. PICK q \in Requests : Agrees(c, q) BY DEF Repeating
<1>3. q.by = "chain" => Covered(q)' BY CoveredLasts DEF CallsAreCovered
<1>4. Covered(q)' => Covered(c)' BY <1>2 DEF Covered, Agrees
<1> QED BY <1>2, <1>3, <1>4 DEF Agrees, CallsAreCovered

LEMMA SentKeepsCovered ==
  ASSUME Reasonable, CallsAreCovered, m # Nil, NEW n \in Windows, NEW c, Sent(n, c),
         n.apply = m.apply, UNCHANGED accepted,
         c.by = "chain" => Covered(c), c.approval # Nil => c.by = "user" /\ First(c.plan.op)
  PROVE  CallsAreCovered'
<1>1. SUFFICES ASSUME NEW r \in Requests'
               PROVE  /\ r.by = "chain" => Covered(r)'
                      /\ r.approval # Nil => r.by = "user" /\ First(r.plan.op)
  BY DEF CallsAreCovered
<1>2. r = c \/ r \in Requests BY SentRequests
<1>3. Covered(r) => Covered(r)' BY CoveredLasts, SameJobsLast
<1> QED BY <1>2, <1>3 DEF CallsAreCovered

\* What the coordinator plans for is there.
LEMMA PlannableIs ==
  ASSUME NEW r, Plannable(r)
  PROVE  /\ r.op = "create" => IsA(r.source, "prepare") /\ Succeeded(r.source)
         /\ r.op = "start" /\ r.source # 0 => IsA(r.source, "create") /\ Succeeded(r.source)
BY DEF Plannable, Prepared, HasVM

LEMMA OnlyFirstOffers ==
  ASSUME NEW n, NEW p, OfferFor(n, p) # Nil PROVE First(p.op) /\ n.chain = Nil
BY DEF OfferFor, First

LEMMA StepIsCovered ==
  ASSUME Reasonable, WindowFollows, m # Nil, Plannable(m.asked), NEW p \in Review, NEW n \in Windows,
         Planned(n, p), Expected(n), AsApproved(n.chain, p), NEW c, c = CallFor(n, "chain")
  PROVE  Covered(c) /\ c.approval = Nil /\ Fits(n.chain, p, n.offer)
<1>1. PICK h : h = m.chain OBVIOUS
<1>2. /\ n.chain = h /\ n.plan = p /\ n.offer = OfferFor(m, p) /\ h # Nil
      /\ p.op = m.asked.op /\ p.source = m.asked.source
  BY <1>1 DEF Planned, Expected
<1>3. Follows(h) BY <1>1, <1>2 DEF WindowFollows
<1>4. n.offer = Nil BY <1>1, <1>2, OnlyFirstOffers
<1>5. c.plan = p /\ c.root = h.root /\ c.approval = Nil BY <1>2, <1>4 DEF CallFor
<1>6. PICK r, a : r = h.root /\ a = accepted[r].approval OBVIOUS
<1>7. /\ r \in DOMAIN accepted /\ accepted[r].by = "user" /\ a # Nil
      /\ h.approved \subseteq a.asks /\ (h.start => a.start) /\ (h.cleanup => a.cleanup)
      /\ \/ IsA(r, "prepare") /\ h.prep = r /\ h.source = r
         \/ IsA(r, "create") /\ h.prep = 0 /\ h.create = r
      /\ h.create # 0 => /\ IsA(h.create, "create")
                         /\ h.create = r \/ accepted[h.create].plan.source = r
      /\ h.vm # 0 => h.vm = h.create /\ h.start
      /\ h.discarding => h.cleanup
  BY <1>3, <1>6 DEF Follows
<1>8. p.asks \subseteq a.asks BY <1>2, <1>7 DEF AsApproved
<1>9. r # 0
  <2>1. accepted \in Seq(AcceptedJob) BY DEF Reasonable, WorkspaceTypeOK
  <2> QED BY <1>7, <2>1
<1>10. CASE p.op = "create"
  <2>1. h.prep # 0 /\ h.create = 0 BY <1>2, <1>10 DEF Expected
  <2>2. IsA(r, "prepare") /\ h.prep = r BY <1>7, <1>9, <2>1
  <2>3. p.source = r BY <1>2, <1>10, <2>2 DEF AsApproved
  <2>4. Succeeded(r) BY <1>2, <1>10, <2>3, PlannableIs
  <2> QED BY <1>2, <1>4, <1>5, <1>6, <1>7, <1>8, <1>10, <2>2, <2>3, <2>4 DEF Covered, Fits
<1>11. CASE p.op = "start"
  <2>1. h.vm # 0 /\ p.source = h.vm BY <1>2, <1>11 DEF Expected, AsApproved
  <2>2. p.source # 0 /\ p.source = h.create /\ h.start BY <1>7, <2>1
  <2>3. IsA(p.source, "create") /\ Succeeded(p.source) BY <1>2, <1>11, <2>2, PlannableIs
  <2>4. a.start /\ (p.source = r \/ accepted[p.source].plan.source = r) BY <1>7, <2>1, <2>2
  <2> QED BY <1>2, <1>4, <1>5, <1>6, <1>7, <1>8, <1>11, <2>3, <2>4 DEF Covered, Fits
<1>12. CASE p.op = "discard"
  <2>1. h.discarding /\ p.source = h.source BY <1>2, <1>12 DEF Expected, AsApproved
  <2>2. a.cleanup BY <1>7, <2>1
  <2>3. IsA(r, "prepare") => p.source = r BY <1>7, <1>9, <2>1 DEF IsA
  <2> QED BY <1>2, <1>4, <1>5, <1>6, <1>7, <1>8, <1>12, <2>2, <2>3 DEF Covered, Fits
<1> QED BY <1>2, <1>10, <1>11, <1>12 DEF Expected

\* The approval that a job begins or goes on, once it was accepted.
LEMMA AcceptedAs ==
  ASSUME Reasonable, Sound, CallsAreCovered, Applied, NEW j, j = JobOf(m.apply.call)
  PROVE  /\ j \in DOMAIN accepted' /\ j \in Nat /\ j # 0
         /\ accepted'[j].plan = m.apply.call.plan /\ accepted'[j].approval = m.apply.call.approval
         /\ accepted'[j].approval # Nil => /\ accepted'[j].by = "user"
                                           /\ First(accepted'[j].plan.op)
<1>1. PICK c : c = m.apply.call OBVIOUS
<1>2. m # Nil /\ m.apply # Nil /\ c \in Call /\ Accepting(c) BY <1>1, AppliedIs
<1>3. accepted \in Seq(AcceptedJob) BY DEF Reasonable, WorkspaceTypeOK
<1>4. j \in DOMAIN accepted' /\ accepted'[j].key = c.key /\ j \in Nat /\ j # 0
  BY <1>1, <1>2, <1>3, AcceptingIs
<1>5. c \in Requests BY <1>1, <1>2, RequestsNow
<1>6. \A i \in DOMAIN accepted' : \E q \in Requests : Agrees(accepted'[i], q)
  BY <1>2, <1>5, AcceptedRepeats DEF Sound
<1>7. PICK q \in Requests : Agrees(accepted'[j], q) BY <1>4, <1>6
<1>8. q.plan = c.plan /\ q.approval = c.approval BY <1>4, <1>5, <1>7 DEF Sound, OneKey, Agrees
<1>9. q.approval # Nil => q.by = "user" /\ First(q.plan.op) BY DEF CallsAreCovered
<1> QED BY <1>1, <1>4, <1>7, <1>8, <1>9 DEF Agrees

LEMMA BegunFollows ==
  ASSUME NEW j, NEW a, a = accepted'[j].approval, j \in DOMAIN accepted', j # 0, a # Nil,
         accepted'[j].by = "user", NEW p, p = accepted'[j].plan, First(p.op),
         NEW x \in Chain, x.root = j, x.approved = a.asks, x.start = a.start, x.cleanup = a.cleanup,
         ~x.discarding, x.vm = 0, x.prep = (IF p.op = "prepare" THEN j ELSE 0),
         x.create = (IF p.op = "prepare" THEN 0 ELSE j), p.op = "prepare" => x.source = j
  PROVE  Follows(x)'
<1>1. CASE p.op = "prepare" BY <1>1 DEF Follows, IsA
<1>2. CASE p.op = "create" BY <1>2 DEF Follows, IsA
<1> QED BY <1>1, <1>2 DEF First

LEMMA AppliedFollows ==
  ASSUME Reasonable, Sound, CallsAreCovered, WindowFollows, JobsLast, Applied,
         NEW x, x = m'.chain, x # Nil
  PROVE  Follows(x)'
<1>1. PICK c, j : c = m.apply.call /\ j = JobOf(c) OBVIOUS
<1>2. /\ m # Nil /\ m.apply # Nil /\ c \in Call /\ m'.chain = StartChain(m, j, c.plan)
  BY <1>1, AppliedIs DEF Answered
<1>3. /\ j \in DOMAIN accepted' /\ j \in Nat /\ j # 0
      /\ accepted'[j].plan = c.plan /\ accepted'[j].approval = c.approval
      /\ c.approval # Nil => accepted'[j].by = "user" /\ First(c.plan.op)
  BY <1>1, AcceptedAs
<1>4. PICK h, o, p : h = m.chain /\ o = m.offer /\ p = c.plan OBVIOUS
<1>5. /\ h # Nil => Follows(h) /\ Follows(h)' /\ h \in Chain
      /\ Fits(h, m.plan, o)
  <2>1. m \in Windows BY <1>2, MIsTame
  <2>2. h # Nil => h \in Chain BY <1>4, <2>1 DEF Windows
  <2> QED BY <1>2, <1>4, <2>2, FollowsLasts DEF WindowFollows
<1>6. p \in Review /\ p # Nil BY <1>2, <1>4, NilIsNothing DEF Call
<1>7. m.plan = p => c.approval = o
  BY <1>1, <1>2, <1>4, <1>6, RequestsNow DEF Sound, OnScreen
<1>8. x = StartChain(m, j, p) BY <1>2, <1>4
<1>9. CASE m.plan # p BY <1>4, <1>5, <1>8, <1>9 DEF StartChain
<1>10. CASE m.plan = p /\ o # Nil
  <2>1. First(p.op) /\ accepted'[j].by = "user" /\ accepted'[j].approval = o
    BY <1>3, <1>4, <1>7, <1>10
  <2>2. PICK y : y = [root |-> j, settings |-> o.settings, sent |-> Nil, approved |-> o.asks,
          start |-> o.start, cleanup |-> o.cleanup, discarding |-> FALSE,
          prep |-> IF p.op = "prepare" THEN j ELSE 0,
          create |-> IF p.op = "prepare" THEN 0 ELSE j,
          source |-> IF p.op = "prepare" THEN j
                     ELSE IF m.form # Nil THEN m.form.source ELSE 0,
          vm |-> 0, startJob |-> 0]
    OBVIOUS
  <2>3. x = y BY <1>4, <1>8, <1>10, <2>2, Zenon DEF StartChain
  <2>4. x \in Chain
    <3>1. m \in Windows BY <1>2, MIsTame
    <3>2. x \in Chain \cup {Nil} BY <1>3, <1>6, <1>8, <3>1, StartChainIs
    <3> QED BY <1>4, <3>2
  <2>5. /\ x.root = j /\ x.approved = o.asks /\ x.start = o.start /\ x.cleanup = o.cleanup
        /\ x.discarding = FALSE /\ x.vm = 0 /\ x.prep = (IF p.op = "prepare" THEN j ELSE 0)
        /\ x.create = (IF p.op = "prepare" THEN 0 ELSE j)
        /\ p.op = "prepare" => x.source = j
    BY <2>2, <2>3
  <2> QED BY <1>3, <1>4, <1>10, <2>1, <2>4, <2>5, BegunFollows
<1>11. CASE m.plan = p /\ o = Nil
  <2>1. CASE h # Nil /\ p.op = "create" /\ h.create = 0
    <3>1. x = [h EXCEPT !.create = j] BY <1>4, <1>8, <1>11, <2>1 DEF StartChain
    <3>2. /\ x.create = j /\ x.root = h.root /\ x.approved = h.approved /\ x.start = h.start
          /\ x.cleanup = h.cleanup /\ x.prep = h.prep /\ x.source = h.source /\ x.vm = h.vm
          /\ x.discarding = h.discarding
      BY <1>5, <2>1, <3>1 DEF Chain
    <3>3. PICK r : r = h.root OBVIOUS
    <3>4. r \in DOMAIN accepted /\ r # 0
      <4>1. accepted \in Seq(AcceptedJob) BY DEF Reasonable, WorkspaceTypeOK
      <4> QED BY <1>5, <2>1, <3>3, <4>1 DEF Follows
    <3>5. IsA(r, "prepare") /\ h.prep = r /\ h.source = r BY <1>5, <2>1, <3>3, <3>4 DEF Follows
    <3>6. p.source = r BY <1>5, <1>6, <1>11, <2>1, <3>5 DEF Fits
    <3>7. IsA(j, "create")' /\ accepted'[j].plan.source = r
      BY <1>3, <1>4, <2>1, <3>6 DEF IsA
    <3>8. h.vm = 0 BY <1>5, <2>1 DEF Follows
    <3>9. (IsA(r, "prepare"))' BY <3>5, KindsLast
    <3> QED BY <1>5, <2>1, <3>2, <3>3, <3>5, <3>7, <3>8, <3>9 DEF Follows
  <2>2. CASE h # Nil /\ p.op = "start"
    <3>1. x = [h EXCEPT !.startJob = j] BY <1>4, <1>8, <1>11, <2>2 DEF StartChain
    <3>2. /\ x.create = h.create /\ x.root = h.root /\ x.approved = h.approved /\ x.start = h.start
          /\ x.cleanup = h.cleanup /\ x.prep = h.prep /\ x.source = h.source /\ x.vm = h.vm
          /\ x.discarding = h.discarding
      BY <1>5, <2>2, <3>1 DEF Chain
    <3> QED BY <1>5, <2>2, <3>2 DEF Follows
  <2>3. CASE ~(h # Nil /\ p.op = "create" /\ h.create = 0) /\ ~(h # Nil /\ p.op = "start")
    <3>1. x = h \/ x = Nil BY <1>4, <1>8, <1>11, <2>3 DEF StartChain
    <3> QED BY <1>4, <1>5, <3>1
  <2> QED BY <2>1, <2>2, <2>3
<1> QED BY <1>9, <1>10, <1>11

\* The window after a step that sends nothing shows n.
LEMMA WindowGoesOn ==
  ASSUME Reasonable, JobsLast, NEW n \in Windows, Like(m', n), m' # Nil,
         n.chain # Nil => Follows(n.chain) \/ \E x : x = n.chain /\ Follows(x)',
         Fits(n.chain, n.plan, n.offer)
  PROVE  WindowFollows'
<1>1. PICK x : x = n.chain OBVIOUS
<1>2. x # Nil => Follows(x)' BY <1>1, FollowsLasts
<1>3. m'.chain = x /\ m'.plan = n.plan /\ m'.offer = n.offer BY <1>1 DEF Like
<1> QED BY <1>1, <1>2, <1>3 DEF WindowFollows, Fits, Follows, IsA

LEMMA TameKeepsApproving ==
  ASSUME Reasonable, Approving, JobsLast, m # Nil, UNCHANGED accepted,
         NEW n \in Windows, Tame(n), Settled(n)
  PROVE  WindowFollows'
<1>1. Like(m', n) /\ m' # Nil BY SettledIs DEF Reasonable, WorkspaceTypeOK
<1>2. PICK c, h : c = n.chain /\ h = m.chain OBVIOUS
<1>3. /\ c # Nil => /\ h # Nil /\ Follows(h)
                    /\ c.root = h.root /\ c.approved = h.approved /\ c.start = h.start
                    /\ c.cleanup = h.cleanup /\ c.prep = h.prep /\ c.create = h.create
                    /\ c.source = h.source /\ (c.vm # h.vm => c.vm = h.create /\ h.start)
                    /\ (c.discarding => h.discarding \/ h.cleanup)
      /\ Fits(h, m.plan, m.offer)
  BY <1>2 DEF Tame, ChainGoesOn, Approving, WindowFollows
<1>4. c # Nil => Follows(c) BY <1>3 DEF Follows
<1>5. Fits(c, n.plan, n.offer) BY <1>3 DEF Fits, Tame
<1> QED BY <1>1, <1>2, <1>4, <1>5, WindowGoesOn

LEMMA PlanArrivesKeepsApproving ==
  ASSUME Reasonable, Approving, JobsLast, PlanArrives
  PROVE  CallsAreCovered' /\ WindowFollows'
<1>1. m # Nil /\ Plannable(m.asked) /\ UNCHANGED accepted BY PlanArrivesIs
<1>2. PICK p \in Review, n \in Windows :
              /\ Planned(n, p)
              /\ \/ Expected(n) /\ AsApproved(n.chain, p) /\ Sent(n, CallFor(n, "chain"))
                 \/ \E x \in Windows : Looked(x, n, p)
  BY PlanArrivesIs
<1>3. PICK h : h = m.chain OBVIOUS
<1>4. (h # Nil => Follows(h)) /\ n.chain = h /\ n.plan = p /\ n.offer = OfferFor(m, p) /\ n.apply = m.apply
  BY <1>1, <1>2, <1>3 DEF Approving, WindowFollows, Planned
<1>5. CASE Expected(n) /\ AsApproved(n.chain, p) /\ Sent(n, CallFor(n, "chain"))
  <2>1. PICK c : c = CallFor(n, "chain") OBVIOUS
  <2>2. Covered(c) /\ c.approval = Nil /\ Fits(n.chain, p, n.offer)
    BY <1>1, <1>2, <1>5, <2>1, StepIsCovered DEF Approving
  <2>3. Sent(n, c) /\ m'.chain = n.chain /\ m'.plan = n.plan /\ m'.offer = n.offer
    BY <1>5, <2>1 DEF Sent
  <2>4. CallsAreCovered' BY <1>1, <1>4, <2>2, <2>3, SentKeepsCovered DEF Approving
  <2>5. h # Nil => Follows(h)' BY <1>4, FollowsLasts
  <2>6. WindowFollows' BY <1>4, <2>2, <2>3, <2>5 DEF WindowFollows, Follows, IsA, Fits
  <2> QED BY <2>4, <2>6
<1>6. ASSUME NEW x \in Windows, Looked(x, n, p) PROVE CallsAreCovered' /\ WindowFollows'
  <2>1. /\ x.apply = m.apply /\ x.plan = p /\ x.offer = n.offer /\ Settled(x) /\ strays' = strays
        /\ x.chain # Nil => x.chain = h /\ ~Expected(n)
    BY <1>4, <1>6 DEF Looked
  <2>2. Like(m', x) /\ m' # Nil BY <2>1, SettledIs DEF Reasonable, WorkspaceTypeOK
  <2>3. Repeating
    <3>1. \A r \in strays' : r \in Requests BY <2>1, RequestsNow
    <3> QED BY <1>1, <2>1, <3>1, SameJobsRepeat, SettledRepeats
  <2>4. CallsAreCovered' BY <2>3, RepeatingKeepsCovered DEF Approving
  <2>5. Fits(x.chain, x.plan, x.offer)
    <3>1. x.offer # Nil => First(p.op) BY <1>4, <2>1, OnlyFirstOffers
    <3>2. ASSUME h # Nil, h.create = 0, p.op = "create", ~Expected(n) PROVE FALSE
      <4>1. accepted \in Seq(AcceptedJob) BY DEF Reasonable, WorkspaceTypeOK
      <4>2. h.root \in DOMAIN accepted /\ h.root # 0 BY <1>4, <3>2, <4>1 DEF Follows
      <4>3. h.prep # 0 BY <1>4, <3>2, <4>2 DEF Follows
      <4> QED BY <1>4, <3>2, <4>3 DEF Expected
    <3> QED BY <2>1, <3>1, <3>2 DEF Fits
  <2>6. x.chain # Nil => Follows(x.chain) BY <1>4, <2>1
  <2> QED BY <2>2, <2>4, <2>5, <2>6, WindowGoesOn
<1> QED BY <1>2, <1>5, <1>6

LEMMA ConfirmKeepsApproving ==
  ASSUME Reasonable, Approving, JobsLast, Confirm
  PROVE  CallsAreCovered' /\ WindowFollows'
<1>1. m # Nil /\ m.plan # Nil /\ UNCHANGED accepted /\ Sent(m, CallFor(m, "user")) BY ConfirmIs
<1>2. PICK c : c = CallFor(m, "user") OBVIOUS
<1>3. c.by = "user" /\ c.approval = m.offer /\ c.plan = m.plan BY <1>2 DEF CallFor
<1>4. c.approval # Nil => First(c.plan.op) BY <1>1, <1>3 DEF Approving, WindowFollows, Fits
<1>5. m \in Windows BY <1>1, MIsTame
<1>6. Sent(m, c) BY <1>1, <1>2
<1>7. CallsAreCovered' BY <1>1, <1>3, <1>4, <1>5, <1>6, SentKeepsCovered DEF Approving
<1>8. PICK h : h = m.chain OBVIOUS
<1>9. m'.chain = h /\ m'.plan = m.plan /\ m'.offer = m.offer BY <1>6, <1>8 DEF Sent
<1>10. h # Nil => Follows(h)' BY <1>1, <1>8, FollowsLasts DEF Approving, WindowFollows
<1>11. Fits(h, m.plan, m.offer) BY <1>1, <1>8 DEF Approving, WindowFollows
<1>12. WindowFollows' BY <1>9, <1>10, <1>11 DEF WindowFollows, Follows, IsA, Fits
<1> QED BY <1>7, <1>12

LEMMA ApprovingStays ==
  ASSUME Reasonable, Sound, Approving, WorkspaceNext PROVE Approving'
<1>1. JobsLast /\ RootsComeFirst' BY JobsStay, RootsStay DEF Approving
<1>2. Repeating => CallsAreCovered' BY <1>1, RepeatingKeepsCovered DEF Approving
<1>3. ASSUME m' = Nil \/ (m' # Nil /\ m'.chain = Nil /\ m'.plan = Nil) PROVE WindowFollows'
  BY <1>3 DEF WindowFollows, Fits
<1>4. ASSUME m # Nil, m'.chain = m.chain, m'.plan = m.plan, m'.offer = m.offer PROVE WindowFollows'
  <2>1. PICK h : h = m.chain OBVIOUS
  <2>2. (h # Nil => Follows(h)') /\ Fits(h, m.plan, m.offer)
    BY <1>1, <1>4, <2>1, FollowsLasts DEF Approving, WindowFollows
  <2> QED BY <1>4, <2>1, <2>2 DEF WindowFollows, Follows, IsA, Fits
<1>5. CASE QuietStep \/ FreshStep
  <2>1. m # Nil /\ UNCHANGED accepted /\ \E n \in Windows : Tame(n) /\ Settled(n)
    BY <1>5 DEF QuietStep, FreshStep, Quiet, Fresh, Quietly
  <2>2. WindowFollows' BY <1>1, <2>1, TameKeepsApproving
  <2> QED BY <1>1, <1>2, <1>5, <2>2, TameKeepsSound DEF Approving
<1>6. CASE Confirm \/ PlanArrives
  BY <1>1, <1>6, ConfirmKeepsApproving, PlanArrivesKeepsApproving DEF Approving
<1>7. CASE Applied
  <2>1. m'.plan = Nil BY <1>7, AppliedIs DEF Answered
  <2>2. PICK x : x = m'.chain OBVIOUS
  <2>3. x # Nil => Follows(x)' BY <1>1, <1>7, <2>2, AppliedFollows DEF Approving
  <2>4. WindowFollows' BY <2>1, <2>2, <2>3 DEF WindowFollows, Fits, Follows, IsA
  <2> QED BY <1>1, <1>2, <1>7, <2>4, AppliedKeepsSound DEF Approving
<1>8. CASE NotSent \/ ApplyRefused \/ ApplyFails
  <2>1. PICK stage : SubmissionFails(stage) BY <1>8 DEF NotSent, ApplyRefused, ApplyFails
  <2>2. m # Nil /\ \E x \in Windows : Unanswered(x) BY <2>1, SubmissionFailsIs
  <2>3. PICK x \in Windows : Unanswered(x) BY <2>2
  <2>4. Like(m', x) BY <2>3, SettledIs DEF Reasonable, WorkspaceTypeOK, Unanswered
  <2>5. m'.chain = m.chain /\ m'.plan = m.plan /\ m'.offer = m.offer
    BY <2>3, <2>4 DEF Like, Unanswered
  <2> QED BY <1>1, <1>2, <1>4, <1>8, <2>2, <2>5, SubmissionKeepsSound DEF Approving
<1>9. CASE Writes
  <2>1. PICK i : Written(i) \/ WrittenUnsafely(i) \/ NotWritten(i) BY <1>9 DEF Writes
  <2>2. m # Nil /\ (m' = m \/ (\E s : Restaged(s, m'))) BY <2>1, WritesAre DEF Stopped
  <2>3. m'.chain = m.chain /\ m'.plan = m.plan /\ m'.offer = m.offer BY <2>2 DEF Restaged
  <2> QED BY <1>1, <1>2, <1>4, <2>1, <2>2, <2>3, WritesKeepSound DEF Approving
<1>10. CASE Elsewheres
  <2>1. m' = m \/ m' = Nil \/ (m' # Nil /\ m'.chain = Nil /\ m'.plan = Nil)
    <3>1. CASE StartWindow \/ StartWindowWithout
      <4>1. \E d \in {file, Nil} : m' = Window(d) BY <3>1 DEF StartWindow, StartWindowWithout
      <4>2. file \in Document \cup {Nil} BY DEF Reasonable, WorkspaceTypeOK
      <4> QED BY <4>1, <4>2, WindowIs
    <3> QED BY <1>10, <3>1, GoneIs DEF Elsewheres, OtherSaves, JobEnds, StrayArrives
  <2>2. WindowFollows' BY <1>3, <1>4, <2>1
  <2> QED BY <1>1, <1>2, <1>10, <2>2, ElsewhereKeepsSound DEF Approving
<1> QED BY <1>5, <1>6, <1>7, <1>8, <1>9, <1>10, StepIs DEF Submissions

LEMMA ApprovingAtFirst ==
  ASSUME WorkspaceInit PROVE Approving
<1>1. m = Window(Nil) /\ saves = <<>> /\ strays = {} /\ accepted = <<>> BY DEF WorkspaceInit
<1>2. m.plan = Nil /\ m.apply = Nil /\ m.chain = Nil BY <1>1, WindowIs
<1>3. DOMAIN saves = {} /\ DOMAIN accepted = {} BY <1>1
<1>4. Requests = {} BY <1>1, <1>2, <1>3 DEF Requests
<1> QED BY <1>2, <1>3, <1>4 DEF Approving, CallsAreCovered, RootsComeFirst, WindowFollows, Fits

\* Whatever the user gives up, leaves open or opens next meanwhile, a job that
\* the workspace started on its own was covered, in its kind, its target and all
\* it asked for, by the approval that an earlier job was confirmed with.
THEOREM AutomaticStepsAreCovered == WorkspaceSpec => []AutomaticStepsWereApproved
<1>1. WorkspaceInit => Sound /\ Approving BY SoundAtFirst, ApprovingAtFirst
<1>2. Reasonable /\ Sound /\ Approving /\ [WorkspaceNext]_workspaceVars => Sound' /\ Approving'
  <2>1. CASE UNCHANGED workspaceVars
    BY <2>1, SoundStays DEF workspaceVars, Approving, CallsAreCovered, RootsComeFirst, WindowFollows,
       Requests, Covered, Follows, Fits, IsA, Succeeded
  <2>2. CASE WorkspaceNext BY <2>2, SoundStays, ApprovingStays
  <2> QED BY <2>1, <2>2
<1>3. Approving => AutomaticStepsWereApproved
  <2>1. SUFFICES ASSUME Approving, NEW j \in DOMAIN accepted, accepted[j].by = "chain"
                 PROVE  LET p == accepted[j].plan
                            r == accepted[j].root
                            a == accepted[r].approval IN
                        /\ r < j /\ accepted[r].by = "user" /\ a # Nil /\ p.asks \subseteq a.asks
                        /\ CASE p.op = "create" -> IsA(r, "prepare") /\ Succeeded(r) /\ p.source = r
                             [] p.op = "start" -> /\ a.start /\ IsA(p.source, "create") /\ Succeeded(p.source)
                                                  /\ p.source = r \/ accepted[p.source].plan.source = r
                             [] p.op = "discard" -> a.cleanup /\ (IsA(r, "prepare") => p.source = r)
                             [] OTHER -> FALSE
    BY DEF AutomaticStepsWereApproved
  <2>2. accepted[j].root < j /\ Covered(accepted[j])
    BY <2>1, RequestsNow DEF Approving, CallsAreCovered, RootsComeFirst
  <2> QED BY <2>2 DEF Covered
<1> QED BY <1>1, <1>2, <1>3, WorkspaceIsReasonable, PTL DEF WorkspaceSpec

-----------------------------------------------------------------------------
(* A setup that was sent is remembered. *)

\* A saved setup is being sent, or was.
Sure(d) == d # Nil /\ d.state # "editing"

\* Until a sent setup is answered, nothing that is on its way to the disk
\* would put a setup being edited in its place.
Remembering ==
  unconfirmed =>
    /\ Sure(file)
    /\ m # Nil /\ writer = "current" =>
         /\ Sure(m.saved) /\ (m.fenced \/ m.form = Nil)
         /\ \A i \in DOMAIN saves : saves[i].doc.state # "editing"

\* s is the writes on their way: each call is in one of them at most.
Single(s) ==
  \A i, k \in DOMAIN s : s[i].call # Nil /\ s[k].call # Nil /\ s[i].call.key = s[k].call.key => i = k

\* The window w waits for the write that sends the review on screen, and after
\* that write nothing being edited is written.
Awaits(w, s) ==
  w.key # 0 => \A i \in DOMAIN s : s[i].call # Nil /\ s[i].call.key = w.key =>
                 w.apply # Nil /\ w.apply.stage = "guard" /\ w.apply.call = s[i].call
Guards(w, s) ==
  w.fenced /\ w.apply # Nil /\ w.apply.stage = "guard" =>
    /\ Sure(w.saved)
    /\ \A i, k \in DOMAIN s : s[i].call = w.apply.call /\ i <= k => s[k].doc.state # "editing"

Posted ==
  /\ Single(saves) /\ (m = Nil => saves = <<>>)
  /\ m # Nil => Awaits(m, saves) /\ Guards(m, saves)

LEMMA ThinnedSingle ==
  ASSUME NEW s \in Seq(Save), NEW t, Thinned(t, s), Single(s) PROVE Single(t)
<1>1. t \in Seq(Save) BY DEF Thinned
<1>2. PICK at \in [DOMAIN t -> DOMAIN s] : /\ \A i \in DOMAIN t : t[i] = s[at[i]]
                                           /\ \A i, k \in DOMAIN t : i < k => at[i] < at[k]
  BY DEF Thinned
<1>3. SUFFICES ASSUME NEW i \in DOMAIN t, NEW k \in DOMAIN t, t[i].call # Nil, t[k].call # Nil,
                      t[i].call.key = t[k].call.key
               PROVE  i = k
  BY DEF Single
<1>4. at[i] = at[k] BY <1>2, <1>3 DEF Single
<1>5. i \in Nat /\ k \in Nat /\ at[i] \in Nat /\ at[k] \in Nat BY <1>1, <1>2
<1> QED BY <1>2, <1>4, <1>5

LEMMA ThinnedAwaits ==
  ASSUME NEW s \in Seq(Save), NEW t, Thinned(t, s), NEW w, NEW x, Awaits(w, s),
         x.key = w.key, x.apply = w.apply
  PROVE  Awaits(x, t)
<1>1. \A i \in DOMAIN t : \E l \in DOMAIN s : t[i] = s[l] BY DEF Thinned
<1> QED BY <1>1 DEF Awaits

LEMMA ThinnedGuards ==
  ASSUME NEW s \in Seq(Save), NEW t, Thinned(t, s), NEW w, Guards(w, s) PROVE Guards(w, t)
<1>1. t \in Seq(Save) BY DEF Thinned
<1>2. PICK at \in [DOMAIN t -> DOMAIN s] : /\ \A i \in DOMAIN t : t[i] = s[at[i]]
                                           /\ \A i, k \in DOMAIN t : i < k => at[i] < at[k]
  BY DEF Thinned
<1>3. \A i, k \in DOMAIN t : i <= k => at[i] <= at[k]
  <2>1. SUFFICES ASSUME NEW i \in DOMAIN t, NEW k \in DOMAIN t, i <= k PROVE at[i] <= at[k]
    OBVIOUS
  <2>2. i \in Nat /\ k \in Nat /\ at[i] \in Nat /\ at[k] \in Nat BY <1>1, <1>2
  <2> QED BY <1>2, <2>1, <2>2
<1> QED BY <1>2, <1>3 DEF Guards

LEMMA OneMore ==
  ASSUME NEW s \in Seq(Save), NEW e \in Save, NEW t, t = Append(s, e)
  PROVE  \A i \in DOMAIN t : \/ i \in DOMAIN s /\ t[i] = s[i]
                             \/ i = Len(s) + 1 /\ t[i] = e
OBVIOUS

\* A write that sends nothing.
LEMMA OneChoiceMore ==
  ASSUME NEW s \in Seq(Save), NEW l, Thinned(l, s), NEW e \in Save, e.call = Nil,
         NEW t, t = Append(l, e), NEW w, NEW x, Single(s), Awaits(w, s), x.key = w.key, x.apply = w.apply
  PROVE  Single(t) /\ Awaits(x, t)
<1>1. l \in Seq(Save) BY DEF Thinned
<1>2. Single(l) /\ Awaits(x, l) BY ThinnedSingle, ThinnedAwaits
<1>3. \A i \in DOMAIN t : (i \in DOMAIN l /\ t[i] = l[i]) \/ t[i] = e BY <1>1, OneMore
<1> QED BY <1>2, <1>3 DEF Single, Awaits

LEMMA SettledKeepsPosted ==
  ASSUME Reasonable, Posted, NEW n \in Windows, Settled(n), Awaits(n, saves), n.fenced => Guards(n, saves)
  PROVE  Posted'
<1>1. saves \in Seq(Save) BY DEF Reasonable, WorkspaceTypeOK
<1>2. m' \in Windows /\ m' # Nil /\ Like(m', n) BY <1>1, SettledIs
<1>3. CASE m' = n /\ saves' = saves BY <1>2, <1>3 DEF Posted, Guards
<1>4. ASSUME NEW d \in Document, Chosen(n, d) PROVE Posted'
  <2>1. PICK e : e = [doc |-> d, call |-> Nil] OBVIOUS
  <2>2. e \in Save /\ e.call = Nil BY <2>1 DEF Save
  <2>3. PICK t, x : t = saves' /\ x = m' OBVIOUS
  <2>4. t = Append(Lasting, e) /\ ~n.fenced BY <1>4, <2>1, <2>3 DEF Chosen
  <2>5. x.key = n.key /\ x.apply = n.apply /\ x.fenced = n.fenced BY <1>2, <2>3 DEF Like
  <2>6. Single(t) /\ Awaits(x, t)
    BY <1>1, <2>2, <2>4, <2>5, LastingIsThinned, OneChoiceMore DEF Posted
  <2>7. Guards(x, t) BY <2>4, <2>5 DEF Guards
  <2> QED BY <1>2, <2>3, <2>6, <2>7 DEF Posted
<1> QED BY <1>1, <1>3, <1>4, SettledIs

LEMMA SentKeepsPosted ==
  ASSUME Reasonable, Posted, NEW n, NEW c, Sent(n, c),
         \A i \in DOMAIN saves : saves[i].call # Nil => saves[i].call.key # c.key
  PROVE  Posted'
<1>1. saves \in Seq(Save) /\ c \in Call /\ c # Nil
  BY NilIsNothing DEF Sent, Reasonable, WorkspaceTypeOK
<1>2. PICK t, x : t = saves' /\ x = m' OBVIOUS
<1>3. x # Nil /\ x.key = c.key /\ x.apply # Nil /\ x.apply.call = c BY <1>2 DEF Sent
<1>4. CASE x.apply.stage = "sent" /\ t = saves
  BY <1>2, <1>3, <1>4 DEF Posted, Awaits, Guards
<1>5. ASSUME NEW d \in Document, x.apply.stage = "guard", x.saved = d, d.state = "submitting",
             t = Append(saves, [doc |-> d, call |-> c])
      PROVE  Posted'
  <2>1. PICK e : e = [doc |-> d, call |-> c] OBVIOUS
  <2>2. e \in Save /\ e.call = c /\ e.doc = d BY <1>1, <2>1 DEF Save
  <2>3. t = Append(saves, e) BY <1>5, <2>1
  <2>4. PICK l \in Nat : l = Len(saves) BY <1>1
  <2>5. \A i \in DOMAIN t : \/ i \in DOMAIN saves /\ i \in Nat /\ i <= l /\ t[i] = saves[i]
                            \/ i = l + 1 /\ t[i] = e
    BY <1>1, <2>2, <2>3, <2>4, OneMore
  <2>6. Single(t) BY <2>2, <2>5 DEF Posted, Single
  <2>7. Awaits(x, t) BY <1>3, <1>5, <2>2, <2>5 DEF Awaits
  <2>8. \A i, k \in DOMAIN t : t[i].call = c /\ i <= k => t[k] = e
    <3>1. SUFFICES ASSUME NEW i \in DOMAIN t, NEW k \in DOMAIN t, t[i].call = c, i <= k PROVE t[k] = e
      OBVIOUS
    <3>2. i = l + 1 BY <1>1, <2>5, <3>1
    <3> QED BY <2>4, <2>5, <3>1, <3>2
  <2>9. Sure(x.saved) BY <1>5, NilIsNothing DEF Sure
  <2>10. Guards(x, t) BY <1>3, <1>5, <2>2, <2>8, <2>9 DEF Guards
  <2> QED BY <1>2, <1>3, <2>6, <2>7, <2>10 DEF Posted
<1> QED BY <1>2, <1>4, <1>5 DEF Sent

LEMMA AppliedKeepsPosted ==
  ASSUME Reasonable, Posted, Applied PROVE Posted'
<1>1. PICK c, j : c = m.apply.call /\ j = JobOf(c) OBVIOUS
<1>2. m # Nil /\ m.apply # Nil /\ m.apply.stage = "sent" /\ Answered(j, c) BY <1>1, AppliedIs
<1>3. saves \in Seq(Save) BY DEF Reasonable, WorkspaceTypeOK
<1>4. PICK t, x : t = saves' /\ x = m' OBVIOUS
<1>5. x # Nil /\ x.apply = Nil /\ x.key = m.key BY <1>2, <1>4 DEF Answered
<1>6. m.key # 0 => \A i \in DOMAIN saves : ~(saves[i].call # Nil /\ saves[i].call.key = m.key)
  BY <1>2 DEF Posted, Awaits
<1>7. Awaits(x, saves) /\ Guards(x, t) BY <1>5, <1>6 DEF Awaits, Guards
<1>8. CASE t = saves BY <1>4, <1>5, <1>7, <1>8 DEF Posted
<1>9. ASSUME NEW d \in Document, t = Append(saves, [doc |-> d, call |-> Nil]) PROVE Posted'
  <2>1. PICK e : e = [doc |-> d, call |-> Nil] OBVIOUS
  <2>2. e \in Save /\ e.call = Nil /\ t = Append(saves, e) BY <1>9, <2>1 DEF Save
  <2>3. Single(t) /\ Awaits(x, t) BY <1>3, <1>7, <2>2, AllIsThinned, OneChoiceMore DEF Posted
  <2> QED BY <1>4, <1>5, <1>7, <2>3 DEF Posted
<1> QED BY <1>2, <1>4, <1>8, <1>9 DEF Answered

\* A submission is told that it was sent, or was not, as its write leaves.
LEMMA WithoutDrops ==
  ASSUME saves \in Seq(Save), NEW i \in DOMAIN saves
  PROVE  \A k \in DOMAIN Without(i) : \E l \in DOMAIN saves : l # i /\ Without(i)[k] = saves[l]
<1>1. PICK n : n = Len(saves) OBVIOUS
<1>2. n \in Nat /\ DOMAIN saves = 1 .. n /\ i \in 1 .. n BY <1>1
<1>3. PICK w : w = Without(i) OBVIOUS
<1>4. w = [k \in 1 .. n - 1 |-> IF k < i THEN saves[k] ELSE saves[k + 1]]
  BY <1>1, <1>3 DEF Without
<1>5. ASSUME NEW k \in DOMAIN w PROVE \E l \in DOMAIN saves : l # i /\ w[k] = saves[l]
  <2>1. k \in 1 .. n - 1 BY <1>4
  <2>2. CASE k < i
    <3>1. k \in DOMAIN saves /\ k # i /\ w[k] = saves[k] BY <1>2, <1>4, <2>1, <2>2
    <3> QED BY <3>1
  <2>3. CASE ~(k < i)
    <3>1. k + 1 \in DOMAIN saves /\ k + 1 # i /\ w[k] = saves[k + 1] BY <1>2, <1>4, <2>1, <2>3
    <3> QED BY <3>1
  <2> QED BY <2>2, <2>3
<1> QED BY <1>3, <1>5

LEMMA Superseded ==
  ASSUME saves \in Seq(Save), NEW i \in DOMAIN saves, NEW k \in {i - 1, i},
         NEW c, c \in CallsOf(SubSeq(saves, 1, k))
  PROVE  \E l \in DOMAIN saves : l <= i /\ saves[l].call = c /\ c # Nil
<1>1. PICK n : n = Len(saves) OBVIOUS
<1>2. n \in Nat /\ DOMAIN saves = 1 .. n /\ i \in 1 .. n /\ k \in 0 .. n BY <1>1
<1>3. PICK s : s = SubSeq(saves, 1, k) OBVIOUS
<1>4. DOMAIN s = 1 .. k /\ \A l \in 1 .. k : s[l] = saves[l] BY <1>1, <1>2, <1>3
<1>5. PICK l \in DOMAIN s : c = s[l].call /\ c # Nil BY <1>3 DEF CallsOf
<1>6. l \in 1 .. n /\ l <= i BY <1>2, <1>4
<1> QED BY <1>2, <1>4, <1>5, <1>6

LEMMA Overtaken ==
  ASSUME saves \in Seq(Save), Single(saves), NEW i \in DOMAIN saves, NEW l \in DOMAIN saves, l <= i,
         saves[l].call # Nil
  PROVE  \A k \in DOMAIN Overtaking(i) : Overtaking(i)[k].call # saves[l].call
<1>1. PICK t : t = Overtaking(i) OBVIOUS
<1>2. t \in Seq(Save) /\ \A k \in DOMAIN t : k + i \in DOMAIN saves /\ t[k] = saves[k + i]
  BY <1>1, OvertakingIsThinned DEF Thinned
<1>3. SUFFICES ASSUME NEW k \in DOMAIN t, t[k].call = saves[l].call PROVE FALSE BY <1>1
<1>4. k + i = l BY <1>2, <1>3 DEF Single
<1>5. k \in Nat /\ k > 0 /\ i \in Nat /\ l \in Nat BY <1>2
<1> QED BY <1>4, <1>5

LEMMA WritesTell ==
  ASSUME Reasonable, Posted, NEW i, Written(i) \/ WrittenUnsafely(i) \/ NotWritten(i)
  PROVE  \/ m' = m
         \/ (\E s \in {"sent", "failed"} : Restaged(s, m'))
            /\ \A k \in DOMAIN saves' : saves'[k].call # m.apply.call
<1>1. saves \in Seq(Save) /\ i \in DOMAIN saves /\ m # Nil
  BY WritesAre DEF Reasonable, WorkspaceTypeOK
<1>2. PICK t : t = saves' OBVIOUS
<1>3. ASSUME t = Overtaking(i), NEW k \in {i - 1, i}, Stopped(m', CallsOf(SubSeq(saves, 1, k)))
      PROVE  \/ m' = m
             \/ Restaged("failed", m') /\ \A l \in DOMAIN t : t[l].call # m.apply.call
  <2>1. SUFFICES ASSUME m' # m
                 PROVE  Restaged("failed", m') /\ \A l \in DOMAIN t : t[l].call # m.apply.call
    OBVIOUS
  <2>2. Restaged("failed", m') /\ m.apply.call \in CallsOf(SubSeq(saves, 1, k))
    BY <1>3, <2>1 DEF Stopped
  <2>3. PICK l \in DOMAIN saves : l <= i /\ saves[l].call = m.apply.call /\ saves[l].call # Nil
    BY <1>1, <2>2, Superseded
  <2> QED BY <1>1, <1>3, <2>2, <2>3, Overtaken DEF Posted
<1>4. CASE Written(i)
  <2>1. t = Overtaking(i) BY <1>2, <1>4, WrittenIs
  <2>2. CASE Stopped(m', CallsOf(SubSeq(saves, 1, i - 1))) BY <1>2, <1>3, <2>1, <2>2
  <2>3. CASE saves[i].call # Nil /\ m.apply.call = saves[i].call /\ Restaged("sent", m')
    <3>1. i <= i BY <1>1
    <3>2. \A l \in DOMAIN t : t[l].call # saves[i].call BY <1>1, <2>1, <2>3, <3>1, Overtaken DEF Posted
    <3> QED BY <1>2, <2>3, <3>2
  <2> QED BY <1>4, <2>2, <2>3, WrittenIs
<1>5. CASE WrittenUnsafely(i)
  <2>1. t = Overtaking(i) BY <1>2, <1>5 DEF WrittenUnsafely
  <2>2. m' = Unsent(m, CallsOf(SubSeq(saves, 1, i))) BY <1>5 DEF WrittenUnsafely
  <2>3. Stopped(m', CallsOf(SubSeq(saves, 1, i))) BY <1>1, <2>2, MIsTame, UnsentIs
  <2> QED BY <1>2, <1>3, <2>1, <2>3
<1>6. CASE NotWritten(i)
  <2>1. t = Without(i) BY <1>2, <1>6 DEF NotWritten
  <2>2. m' = Unsent(m, {saves[i].call} \ {Nil}) BY <1>6 DEF NotWritten
  <2>3. Stopped(m', {saves[i].call} \ {Nil}) BY <1>1, <2>2, MIsTame, UnsentIs
  <2>4. SUFFICES ASSUME m' # m
                 PROVE  Restaged("failed", m') /\ \A l \in DOMAIN t : t[l].call # m.apply.call
    BY <1>2
  <2>5. Restaged("failed", m') /\ m.apply.call = saves[i].call /\ saves[i].call # Nil
    BY <2>3, <2>4 DEF Stopped
  <2>6. \A k \in DOMAIN t : \E l \in DOMAIN saves : l # i /\ t[k] = saves[l]
    BY <1>1, <2>1, WithoutDrops
  <2> QED BY <1>1, <2>5, <2>6 DEF Posted, Single
<1> QED BY <1>4, <1>5, <1>6

LEMMA WritesKeepPosted ==
  ASSUME Reasonable, Posted, NEW i, Written(i) \/ WrittenUnsafely(i) \/ NotWritten(i)
  PROVE  Posted'
<1>1. saves \in Seq(Save) /\ m # Nil /\ Thinned(saves', saves)
  BY WritesAre DEF Reasonable, WorkspaceTypeOK
<1>2. PICK t, x : t = saves' /\ x = m' OBVIOUS
<1>3. Single(t) BY <1>1, <1>2, ThinnedSingle DEF Posted
<1>4. CASE x = m
  BY <1>1, <1>2, <1>3, <1>4, ThinnedAwaits, ThinnedGuards DEF Posted
<1>5. ASSUME NEW s \in {"sent", "failed"}, Restaged(s, x), \A k \in DOMAIN t : t[k].call # m.apply.call
      PROVE  Posted'
  <2>1. x # Nil /\ x.apply.stage = s /\ x.key = m.key /\ m.apply # Nil BY <1>5 DEF Restaged
  <2>2. Awaits(m, t) BY <1>1, <1>2, ThinnedAwaits DEF Posted
  <2>3. Awaits(x, t) BY <1>5, <2>1, <2>2 DEF Awaits
  <2>4. Guards(x, t) BY <2>1 DEF Guards
  <2> QED BY <1>2, <1>3, <2>1, <2>3, <2>4 DEF Posted
<1> QED BY <1>2, <1>4, <1>5, WritesTell

LEMMA PlanArrivesKeepsPosted ==
  ASSUME Reasonable, Sound, Posted, PlanArrives PROVE Posted'
<1>1. m # Nil BY PlanArrivesIs
<1>2. PICK p \in Review, n \in Windows :
              /\ Planned(n, p)
              /\ \/ Expected(n) /\ AsApproved(n.chain, p) /\ Sent(n, CallFor(n, "chain"))
                 \/ \E x \in Windows : Looked(x, n, p)
  BY PlanArrivesIs
<1>3. ids \in [review : Nat, key : Nat] BY DEF Reasonable, WorkspaceTypeOK
<1>4. CASE Sent(n, CallFor(n, "chain"))
  <2>1. PICK c : c = CallFor(n, "chain") OBVIOUS
  <2>2. n.key = 0 BY <1>2 DEF Planned
  <2>3. c.key = ids.key + 1 BY <2>1, <2>2 DEF CallFor, KeyOfReview
  <2>4. \A r \in Requests : r.key \in Nat /\ r.key <= ids.key
    BY RequestsAreTyped DEF Sound, Numbered
  <2>5. \A i \in DOMAIN saves : saves[i].call # Nil => saves[i].call.key # c.key
    BY <1>3, <2>3, <2>4, RequestsNow
  <2> QED BY <1>4, <2>1, <2>5, SentKeepsPosted
<1>5. ASSUME NEW x \in Windows, Looked(x, n, p) PROVE Posted'
  <2>1. x.key = 0 /\ x.apply = m.apply /\ x.saved = m.saved /\ x.fenced = m.fenced /\ Settled(x)
    BY <1>2, <1>5 DEF Looked, Planned
  <2>2. Awaits(x, saves) /\ Guards(x, saves) BY <1>1, <2>1 DEF Posted, Awaits, Guards
  <2> QED BY <2>1, <2>2, SettledKeepsPosted
<1> QED BY <1>2, <1>4, <1>5

LEMMA PostedStays ==
  ASSUME Reasonable, Sound, Posted, WorkspaceNext PROVE Posted'
<1>1. CASE QuietStep \/ FreshStep
  <2>1. PICK n \in Windows : (Quiet(n) \/ Fresh(n)) /\ Settled(n) /\ m # Nil
    BY <1>1 DEF QuietStep, FreshStep
  <2>2. n.key = m.key /\ n.apply = m.apply BY <2>1 DEF Quiet, Fresh, Tame
  <2>3. Awaits(n, saves) BY <2>1, <2>2 DEF Posted, Awaits
  <2>4. n.fenced => Guards(n, saves) BY <2>1, <2>2 DEF Posted, Guards, Quiet, Fresh
  <2> QED BY <2>1, <2>3, <2>4, SettledKeepsPosted
<1>2. CASE Confirm
  <2>1. m # Nil /\ m.plan # Nil /\ m.apply = Nil /\ Sent(m, CallFor(m, "user")) BY <1>2, ConfirmIs
  <2>2. PICK c : c = CallFor(m, "user") OBVIOUS
  <2>3. c.key = (IF m.key = 0 THEN ids.key + 1 ELSE m.key) BY <2>2 DEF CallFor, KeyOfReview
  <2>4. \A i \in DOMAIN saves : saves[i].call # Nil => saves[i].call.key # c.key
    <3>1. CASE m.key = 0
      <4>1. ids \in [review : Nat, key : Nat] BY DEF Reasonable, WorkspaceTypeOK
      <4>2. \A r \in Requests : r.key \in Nat /\ r.key <= ids.key
        BY RequestsAreTyped DEF Sound, Numbered
      <4>3. c.key = ids.key + 1 BY <2>3, <3>1
      <4> QED BY <4>1, <4>2, <4>3, RequestsNow
    <3>2. CASE m.key # 0 BY <2>1, <2>3, <3>2 DEF Posted, Awaits
    <3> QED BY <3>1, <3>2
  <2> QED BY <2>1, <2>2, <2>4, SentKeepsPosted
<1>3. CASE NotSent \/ ApplyRefused \/ ApplyFails
  <2>1. PICK stage \in {"failed", "sent"} : SubmissionFails(stage)
    BY <1>3 DEF NotSent, ApplyRefused, ApplyFails
  <2>2. m # Nil /\ m.apply # Nil /\ m.apply.stage # "guard" /\ \E x \in Windows : Unanswered(x)
    BY <2>1, SubmissionFailsIs
  <2>3. PICK x \in Windows : Unanswered(x) BY <2>2
  <2>4. x.key = m.key /\ x.apply = Nil /\ Settled(x) BY <2>3 DEF Unanswered
  <2>5. Awaits(x, saves) /\ Guards(x, saves) BY <2>2, <2>4 DEF Posted, Awaits, Guards
  <2> QED BY <2>4, <2>5, SettledKeepsPosted
<1>4. CASE Writes BY <1>4, WritesKeepPosted DEF Writes
<1>5. CASE Elsewheres
  <2>1. CASE Quit \/ Die
    <3>1. m' = Nil /\ saves' = <<>> BY <2>1, GoneIs
    <3> QED BY <3>1 DEF Posted, Single
  <2>2. CASE StartWindow \/ StartWindowWithout
    <3>1. m = Nil /\ saves' = saves /\ \E d \in {file, Nil} : m' = Window(d)
      BY <2>2 DEF StartWindow, StartWindowWithout, Quietly
    <3>2. file \in Document \cup {Nil} BY DEF Reasonable, WorkspaceTypeOK
    <3>3. m' # Nil /\ m'.apply = Nil /\ m'.key = 0 BY <3>1, <3>2, WindowIs
    <3> QED BY <3>1, <3>3 DEF Posted, Awaits, Guards
  <2>3. CASE UNCHANGED <<m, saves>> BY <2>3 DEF Posted
  <2> QED BY <1>5, <2>1, <2>2, <2>3 DEF Elsewheres, OtherSaves, JobEnds, StrayArrives
<1> QED BY <1>1, <1>2, <1>3, <1>4, <1>5, AppliedKeepsPosted, PlanArrivesKeepsPosted, StepIs DEF Submissions

LEMMA SettledRemembers ==
  ASSUME Reasonable, Remembering, m # Nil, NEW n \in Windows, Settled(n), UNCHANGED unconfirmed,
         n.saved = m.saved, n.fenced = m.fenced,
         n.form = Nil \/ m.form # Nil \/ (m.saved # Nil /\ m.saved.state = "editing")
  PROVE  Remembering'
<1>1. SUFFICES ASSUME unconfirmed PROVE Remembering' BY DEF Remembering
<1>2. saves \in Seq(Save) BY DEF Reasonable, WorkspaceTypeOK
<1>3. /\ m' # Nil /\ UNCHANGED <<file, writer>>
      /\ (m' = n /\ saves' = saves) \/ \E d \in Document : Chosen(n, d)
  BY <1>2, SettledIs
<1>4. CASE writer = "current"
  <2>1. /\ Sure(m.saved) /\ (m.fenced \/ m.form = Nil) /\ Sure(file)
        /\ \A i \in DOMAIN saves : saves[i].doc.state # "editing"
    BY <1>1, <1>4 DEF Remembering
  <2>2. n.fenced \/ n.form = Nil BY <2>1 DEF Sure
  <2>3. m' = n /\ saves' = saves BY <1>3, <2>2 DEF Chosen
  <2> QED BY <1>3, <2>1, <2>2, <2>3 DEF Remembering
<1>5. CASE writer # "current" BY <1>1, <1>3, <1>5 DEF Remembering
<1> QED BY <1>4, <1>5

LEMMA SentRemembers ==
  ASSUME Reasonable, Remembering, m # Nil, NEW n, NEW c, Sent(n, c), UNCHANGED unconfirmed,
         n.saved = m.saved, n.fenced = m.fenced, n.form = m.form
  PROVE  Remembering'
<1>1. SUFFICES ASSUME unconfirmed PROVE Remembering' BY DEF Remembering
<1>2. saves \in Seq(Save) /\ c \in Call BY DEF Sent, Reasonable, WorkspaceTypeOK
<1>3. UNCHANGED <<file, writer>> /\ m'.form = n.form BY DEF Sent
<1>4. SUFFICES ASSUME writer = "current"
               PROVE  /\ Sure(m'.saved) /\ (m'.fenced \/ m'.form = Nil)
                      /\ \A i \in DOMAIN saves' : saves'[i].doc.state # "editing"
  BY <1>1, <1>3 DEF Remembering
<1>5. /\ Sure(m.saved) /\ (m.fenced \/ m.form = Nil)
      /\ \A i \in DOMAIN saves : saves[i].doc.state # "editing"
  BY <1>1, <1>4 DEF Remembering
<1>6. CASE saves' = saves /\ m'.saved = n.saved /\ m'.fenced = n.fenced BY <1>3, <1>5, <1>6
<1>7. ASSUME m'.fenced, NEW d \in Document, m'.saved = d, d.state = "submitting",
             saves' = Append(saves, [doc |-> d, call |-> c])
      PROVE  /\ Sure(m'.saved) /\ (m'.fenced \/ m'.form = Nil)
             /\ \A i \in DOMAIN saves' : saves'[i].doc.state # "editing"
  <2>1. PICK e : e = [doc |-> d, call |-> c] OBVIOUS
  <2>2. e \in Save /\ e.doc = d BY <1>2, <2>1 DEF Save
  <2>3. PICK t : t = saves' OBVIOUS
  <2>4. \A i \in DOMAIN t : (i \in DOMAIN saves /\ t[i] = saves[i]) \/ t[i] = e
    BY <1>2, <1>7, <2>1, <2>2, <2>3, OneMore
  <2>5. Sure(d) BY <1>7, NilIsNothing DEF Sure
  <2> QED BY <1>5, <1>7, <2>2, <2>3, <2>4, <2>5
<1> QED BY <1>6, <1>7 DEF Sent

LEMMA WritesRemember ==
  ASSUME Reasonable, Posted, Remembering, NEW i, Written(i) \/ WrittenUnsafely(i) \/ NotWritten(i)
  PROVE  Remembering'
<1>1. saves \in Seq(Save) /\ m # Nil /\ i \in DOMAIN saves /\ Thinned(saves', saves)
  BY WritesAre DEF Reasonable, WorkspaceTypeOK
<1>2. saves[i].doc # Nil BY <1>1, CallsAreCalls, NilIsNothing
<1>3. PICK t, x : t = saves' /\ x = m' OBVIOUS
<1>4. \A k \in DOMAIN t : \E l \in DOMAIN saves : t[k] = saves[l] BY <1>1, <1>3 DEF Thinned
<1>5. x.saved = m.saved /\ x.fenced = m.fenced /\ x.form = m.form /\ x # Nil
  BY <1>1, <1>3, WritesAre DEF Stopped, Restaged
<1>6. CASE Written(i)
  <2>1. writer = "current" /\ writer' = writer /\ file' = saves[i].doc BY <1>6, WrittenIs
  <2>2. CASE UNCHANGED unconfirmed
    BY <1>2, <1>3, <1>4, <1>5, <1>1, <2>1, <2>2 DEF Remembering, Sure
  <2>3. CASE unconfirmed' = FALSE BY <2>3 DEF Remembering
  <2>4. CASE /\ saves[i].call # Nil /\ m.apply # Nil /\ m.apply.call = saves[i].call
             /\ Restaged("sent", m') /\ unconfirmed' = m.fenced
    <3>1. SUFFICES ASSUME m.fenced PROVE Remembering' BY <2>4 DEF Remembering
    <3>2. /\ Sure(m.saved)
          /\ \A k \in DOMAIN saves : i <= k => saves[k].doc.state # "editing"
      BY <1>1, <2>4, <3>1 DEF Posted, Guards, Restaged
    <3>3. t = Overtaking(i) BY <1>3, <1>6, WrittenIs
    <3>4. t \in Seq(Save) /\ \A k \in DOMAIN t : k + i \in DOMAIN saves /\ t[k] = saves[k + i]
      BY <1>1, <3>3, OvertakingIsThinned DEF Thinned
    <3>5. \A k \in DOMAIN t : k \in Nat /\ i \in Nat /\ i <= k + i BY <1>1, <3>4
    <3>6. i <= i BY <1>1
    <3>7. Sure(saves[i].doc) BY <1>1, <1>2, <3>2, <3>6 DEF Sure
    <3>8. \A k \in DOMAIN t : t[k].doc.state # "editing" BY <3>2, <3>4, <3>5
    <3> QED BY <1>3, <1>5, <2>1, <3>1, <3>2, <3>7, <3>8 DEF Remembering
  <2> QED BY <1>6, <2>2, <2>3, <2>4, WrittenIs
<1>7. CASE WrittenUnsafely(i)
  BY <1>1, <1>2, <1>7 DEF WrittenUnsafely, Quietly, Remembering, Sure
<1>8. CASE NotWritten(i)
  BY <1>8 DEF NotWritten, Quietly, Remembering
<1> QED BY <1>6, <1>7, <1>8

LEMMA RememberingStays ==
  ASSUME Reasonable, Posted, Remembering, WorkspaceNext PROVE Remembering'
<1>1. CASE QuietStep
  <2>1. PICK n \in Windows : Quiet(n) /\ Settled(n) /\ m # Nil /\ UNCHANGED unconfirmed
    BY <1>1 DEF QuietStep, Quietly
  <2> QED BY <2>1, SettledRemembers DEF Quiet
<1>2. CASE FreshStep BY <1>2 DEF FreshStep, Remembering
<1>3. CASE Confirm BY <1>3, ConfirmIs, SentRemembers
<1>4. CASE PlanArrives
  <2>1. m # Nil /\ UNCHANGED unconfirmed BY <1>4, PlanArrivesIs
  <2>2. PICK p \in Review, n \in Windows :
              /\ Planned(n, p)
              /\ \/ Expected(n) /\ AsApproved(n.chain, p) /\ Sent(n, CallFor(n, "chain"))
                 \/ \E x \in Windows : Looked(x, n, p)
    BY <1>4, PlanArrivesIs
  <2>3. n.saved = m.saved /\ n.fenced = m.fenced /\ n.form = m.form BY <2>2 DEF Planned
  <2>4. CASE Sent(n, CallFor(n, "chain")) BY <2>1, <2>3, <2>4, SentRemembers
  <2>5. ASSUME NEW x \in Windows, Looked(x, n, p) PROVE Remembering'
    <3>1. x.saved = m.saved /\ x.fenced = m.fenced /\ x.form = m.form /\ Settled(x)
      BY <2>3, <2>5 DEF Looked
    <3> QED BY <2>1, <3>1, SettledRemembers
  <2> QED BY <2>2, <2>4, <2>5
<1>5. CASE Applied BY <1>5, AppliedIs DEF Answered, Remembering
<1>6. CASE NotSent \/ ApplyRefused \/ ApplyFails
  <2>1. PICK stage : SubmissionFails(stage) BY <1>6 DEF NotSent, ApplyRefused, ApplyFails
  <2>2. m # Nil /\ UNCHANGED unconfirmed /\ \E x \in Windows : Unanswered(x)
    BY <2>1, SubmissionFailsIs
  <2> QED BY <2>2, SettledRemembers DEF Unanswered
<1>7. CASE Writes BY <1>7, WritesRemember DEF Writes
<1>8. CASE Elsewheres
  <2>1. CASE OtherSaves BY <2>1 DEF OtherSaves, Remembering
  <2>2. CASE Quit \/ Die BY <2>2, GoneIs DEF Remembering
  <2>3. CASE StartWindow \/ StartWindowWithout
    <3>1. m = Nil /\ UNCHANGED <<saves, file, unconfirmed>> BY <2>3
      DEF StartWindow, StartWindowWithout, Quietly
    <3>2. \/ m' = Window(file)
          \/ writer' = "failed"
      BY <2>3 DEF StartWindow, StartWindowWithout
    <3>3. saves' = <<>> BY <3>1 DEF Posted
    <3>4. file \in Document \cup {Nil} BY DEF Reasonable, WorkspaceTypeOK
    <3>5. CASE m' = Window(file)
      <4>1. m'.saved = file /\ m'.form = Nil BY <3>4, <3>5, WindowIs
      <4> QED BY <3>1, <3>3, <4>1 DEF Remembering
    <3>6. CASE writer' = "failed" BY <3>1, <3>6 DEF Remembering
    <3> QED BY <3>2, <3>5, <3>6
  <2>4. CASE UNCHANGED <<m, saves, file, writer, unconfirmed>> BY <2>4 DEF Remembering
  <2> QED BY <1>8, <2>1, <2>2, <2>3, <2>4 DEF Elsewheres, JobEnds, StrayArrives
<1> QED BY <1>1, <1>2, <1>3, <1>4, <1>5, <1>6, <1>7, <1>8, StepIs DEF Submissions

\* A setup that was sent and whose answer nobody has seen is known to the next
\* window: whichever write came last, whoever wrote it and whatever the user
\* did since, the saved setup is not one that is being edited.
THEOREM SentSetupsAreRemembered == WorkspaceSpec => []SubmissionsAreRemembered
<1>1. WorkspaceInit => Sound /\ Posted /\ Remembering
  <2>1. ASSUME WorkspaceInit PROVE Posted /\ Remembering
    <3>1. m = Window(Nil) /\ saves = <<>> /\ unconfirmed = FALSE BY <2>1 DEF WorkspaceInit
    <3>2. m # Nil /\ m.apply = Nil /\ m.key = 0 BY <3>1, WindowIs
    <3> QED BY <3>1, <3>2 DEF Posted, Remembering, Single, Awaits, Guards
  <2> QED BY <2>1, SoundAtFirst
<1>2. Reasonable /\ Sound /\ Posted /\ Remembering /\ [WorkspaceNext]_workspaceVars
        => Sound' /\ Posted' /\ Remembering'
  <2>1. CASE UNCHANGED workspaceVars
    BY <2>1, SoundStays DEF workspaceVars, Posted, Remembering
  <2>2. CASE WorkspaceNext BY <2>2, SoundStays, PostedStays, RememberingStays
  <2> QED BY <2>1, <2>2
<1>3. Remembering => SubmissionsAreRemembered BY DEF Remembering, Sure, SubmissionsAreRemembered
<1> QED BY <1>1, <1>2, <1>3, WorkspaceIsReasonable, PTL DEF WorkspaceSpec

=============================================================================
