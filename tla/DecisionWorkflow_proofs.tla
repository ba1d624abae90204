---------------------- MODULE DecisionWorkflow_proofs -----------------------
(***************************************************************************)
(* Theorems about the workflow of interviews in the browser, for any       *)
(* interviews, competencies and numbers of clicks, with or without lost    *)
(* requests.  Types, and that requests keep to the book of interviews      *)
(* (WorkflowKeepsBook), hold for any browsers and overlapping clicks; the  *)
(* rest is about a user who is alone and waits for answers (Alone).        *)
(*                                                                         *)
(* A handler writes to the page what it makes of the page as it was, and   *)
(* the page sends what it shows to the API, so page and tables are sound   *)
(* only together: what is shown of an interview (PageSound) has to allow   *)
(* no click that the tables do not bear, even if answers have been lost    *)
(* and what is shown is old.                                               *)
(***************************************************************************)
EXTENDS DecisionWorkflow, TLAPS

Alone == ~Overlap /\ \A c, d \in Client : c = d

(* Nobody decides who may not archive.                                     *)
MayArchive == \A c \in Client : CanEdit(c)

-----------------------------------------------------------------------------
(* Invariants.                                                             *)

(* Which operation a click is of, by its step.                             *)
StepFits(q) ==
    LET step == click[q].step
        op == click[q].op
    IN  /\ Running(q) => op # "none"
        /\ Running(q) /\ op # "Load" => click[q].id \in Interview
        /\ step \in {"reset", "clear", "reload"} => op = "Reschedule"
        /\ step = "list" => op \in {"Load", "Reschedule"}
        /\ step = "archive" => op \in Decisions
        /\ step = "answer" => op \notin {"Load", "Reschedule"}

WorkflowTypes == WorkflowTypeOK /\ \A q \in Click : StepFits(q)

OneClick == \A p, q \in Click : Running(p) /\ Running(q) => p = q

(* A planned interview has not been decided on.                            *)
RowsSound ==
    \A i \in Interview : book[i].status = "Planned" => book[i].decision = "Pending"

(* What can be said of a view of interview i, however old: nothing that is *)
(* shown as planned has been decided on, nothing shown as awaiting a       *)
(* decision is planned, and what is shown as rated is.                     *)
ViewSound(i, v) ==
    /\ book[i].stored
    /\ v.status = "Planned" =>
          /\ v.decision = "Pending" /\ book[i].decision = "Pending"
          /\ \A k \in Competency :
                v.scores[k] \notin {0, NoScore} => score[i][k] # 0
    /\ v.status = "Completed" /\ v.decision = "Pending" =>
          book[i].status = "Completed"
    /\ \A k \in Competency : v.scores[k] = NoScore <=> score[i][k] = NoScore

(* Two views of an interview that differ at most in comment and archive    *)
(* mark.                                                                   *)
Alike(v, w) == /\ v.status = w.status
               /\ v.decision = w.decision
               /\ v.scores = w.scores

(* The list and the card of a page, and the interview to be moved.         *)
ListSound(page) ==
    \A i \in Interview : page.list[i].listed => ViewSound(i, page.list[i])

CardSound(page) ==
    \A i \in Interview : page.id = i =>
        /\ ViewSound(i, page.view)
        /\ page.list[i].listed => Alike(page.view, page.list[i])

MovingSound(page) ==
    \A i \in Interview : page.moving = i =>
        /\ book[i].stored
        /\ page.list[i].listed => page.list[i].decision = "NextStage"
        /\ page.id = i => page.view.decision = "NextStage"

PageSound(page) == ListSound(page) /\ CardSound(page) /\ MovingSound(page)

(* Interview i has been reset, and its list not yet been shown.            *)
Resets(q, i) == /\ click[q].step \in {"clear", "reload", "list"}
                /\ click[q].op = "Reschedule" /\ click[q].id = i

Resetting(i) == \E q \in Click : Resets(q, i)

(* What the list shows as invited to the next stage is.                    *)
InvitedSound(page) ==
    \A i \in Interview :
        page.list[i].listed /\ page.list[i].decision = "NextStage" =>
            book[i].decision = "NextStage" \/ Resetting(i)

(* A view that is as the tables are, but for comment and archive mark.     *)
News(i, v) == /\ book[i].stored
              /\ v.listed = TRUE
              /\ v.status = book[i].status
              /\ v.decision = Label(book[i])
              /\ v.scores = score[i]

(* What a handler found when it was called.                                *)
FoundSound(q) ==
    LET i == click[q].id
        op == click[q].op
        was == click[q].was
    IN  /\ op \in {"Comment", "Star", "Complete", "Cancel", "Decide",
                   "Reschedule"} => was.id = i
        /\ op \in {"Comment", "Star", "Complete", "Cancel"} =>
              was.view.status = "Planned"
        /\ op = "Decide" => /\ was.view.status = "Completed"
                            /\ was.view.decision = "Pending"
                            /\ click[q].decision # "Pending"
                            /\ CanDecide(click[q].client)
        /\ op = "Complete" => Rated(was.view.scores) /\ Said(was) # ""
        /\ op = "Star" => \A k \in Competency :
              /\ click[q].scores[k] = NoScore <=> was.view.scores[k] = NoScore
              /\ was.view.scores[k] \notin {0, NoScore} =>
                    click[q].scores[k] # 0
        /\ op # "Star" => click[q].scores = NoMatrix
        /\ op \in {"Archive", "Unarchive", "Edit", "Reschedule"} =>
              was.list[i].listed
        /\ op = "Delete" => was.list[i].listed \/ was.id = i
        /\ op = "Reschedule" => was.moving = i
        /\ op = "Schedule" => was.id # i /\ was.moving # i

(* The page is as the handler found it, but for the form to move it.       *)
PageKept(q) ==
    LET page == ui[click[q].client]
        was == click[q].was
    IN  IF click[q].op = "Load"
        THEN page.id = NoInterview /\ page.moving = NoInterview
        ELSE page = IF click[q].step \in {"reload", "list"}
                    THEN [was EXCEPT !.moving = NoInterview, !.text = NoText]
                    ELSE was

(* What has become of the row of the handler's interview.                  *)
ServedSound(q) ==
    LET i == click[q].id
        step == click[q].step
        op == click[q].op
        was == click[q].was
    IN  /\ step = "send" /\ op = "Schedule" => ~book[i].stored
        /\ step \in {"answer", "archive"} => News(i, click[q].answer)
        /\ step = "answer" /\ op = "Comment" => book[i].status = "Planned"
        /\ step \in {"clear", "reload", "list"} /\ op = "Reschedule" =>
              /\ book[i].status = "Planned" /\ book[i].decision = "Pending"
              /\ book[i].comment = ""
              /\ step # "clear" /\ ~click[q].lost =>
                    \A k \in Competency : score[i][k] \in {0, NoScore}
        /\ step = "list" => click[q].list = Listing

(* The list that a decision is going to show, and whom it archives.        *)
DecisionSound(q) ==
    LET i == click[q].id
        l == click[q].list
        all == OfSameCandidate(l, i)
        was == click[q].was.list
    IN  click[q].step = "archive" =>
          /\ \A j \in Interview : l[j].listed = was[j].listed
          /\ \A j \in Interview \ {i} : was[j].listed => Alike(l[j], was[j])
          /\ was[i].listed => Alike(l[i], click[q].answer)
          /\ click[q].todo \subseteq {j \in all : l[j].archived}
          /\ Takes(q) => \A j \in all \ {i} : l[j].archived
          /\ TurnsDown(q)
                /\ (\A j \in all : Concluded(l[j]) /\ TurnedDown(l[j]))
                => \A j \in all : l[j].archived

ClickSound(q) ==
    Running(q) => /\ FoundSound(q) /\ PageKept(q)
                  /\ ServedSound(q) /\ DecisionSound(q)

WorkflowSound ==
    /\ OneClick
    /\ RowsSound
    /\ \A c \in Client : PageSound(ui[c]) /\ InvitedSound(ui[c])
    /\ \A q \in Click : ClickSound(q)

(* The list that a handler will make of the list it found, once the answer *)
(* is there.                                                               *)
ToShow(q) ==
    LET i == click[q].id
        was == click[q].was
        a == click[q].answer
    IN  CASE click[q].op = "Comment" ->
                 Put(was.list, i, [was.list[i] EXCEPT !.comment = was.draft])
          [] click[q].op = "Delete" -> [was.list EXCEPT ![i] = NoView]
          [] click[q].op = "Schedule" -> [was.list EXCEPT ![i] = a]
          [] OTHER -> Put(was.list, i, a)

(* A list in which these interviews are archived as well.                  *)
MarkAll(l, also) ==
    [j \in Interview |-> IF j \in also THEN [l[j] EXCEPT !.archived = TRUE]
                                       ELSE l[j]]

(* A page that nothing has been lost for shows what is stored: now, or     *)
(* when the handler at work has told it.                                   *)
Told(q) ==
    /\ click[q].step = "send" => ui[click[q].client].list = Listing
    /\ click[q].step = "answer" => ToShow(q) = Listing
    /\ click[q].step = "archive" =>
          click[q].list = MarkAll(Listing, click[q].todo)

ListCurrent ==
    \A c \in Client \ behind :
        /\ Idle => ui[c].list = Listing
        /\ \A q \in Click : Running(q) => Told(q)

-----------------------------------------------------------------------------
(* Types.                                                                  *)

LEMMA BlankTypes ==
    /\ NoMatrix \in Matrix /\ Zeros \in Matrix
    /\ NoView \in View
    /\ NoList \in [Interview -> View]
    /\ FirstPage \in Page
<1>1. NoMatrix \in Matrix /\ Zeros \in Matrix
  BY DEF NoMatrix, Zeros, Matrix
<1>2. NoView \in View
  BY <1>1 DEF NoView, View, Status, Decision, Text
<1>3. NoList \in [Interview -> View]
  BY <1>2 DEF NoList
<1> QED
  BY <1>1, <1>2, <1>3 DEF FirstPage, Page, Text, RowText

LEMMA RowTypes == NewRow \in Row /\ NoRow \in Row
BY DEF NewRow, NoRow, Row, Status, Decision, Text

LEMMA AnswerTypes ==
    ASSUME NEW r \in Row, NEW m \in Matrix
    PROVE  mapInterviewFromApi(r, m) \in View
BY DEF mapInterviewFromApi, View, Row, Label

LEMMA ListingTypes ==
    ASSUME book \in [Interview -> Row], score \in [Interview -> Matrix]
    PROVE  Listing \in [Interview -> View]
<1>1. \A i \in Interview : mapInterviewFromApi(book[i], score[i]) \in View
  BY AnswerTypes
<1> QED
  BY <1>1, BlankTypes DEF Listing

LEMMA NoClickTypes ==
    ASSUME NEW step \in ClickSteps
    PROVE  /\ NoClick(step) \in ClickState
           /\ NoClick(step).op = "none" /\ NoClick(step).step = step
           /\ NoClick(step).lost = FALSE
           /\ NoClick(step).scores = NoMatrix
<1>1. (CHOOSE c \in Client : TRUE) \in Client
  BY WorkflowAssumption
<1>2. NoMatrix \in Matrix /\ FirstPage \in Page /\ NoView \in View
      /\ NoList \in [Interview -> View]
  BY BlankTypes
<1> HIDE DEF Matrix, Page, View
<1> QED
  BY <1>1, <1>2 DEF NoClick, ClickState, ClickSteps, Ops, Decision

LEMMA StepFitsIdle ==
    ASSUME NEW q \in Click, click[q].step \in {"new", "done"}
    PROVE  StepFits(q)
BY DEF StepFits, Running

LEMMA FirstRows ==
    \A f \in FirstStates :
        /\ f[1] \in Row /\ f[2] \in Matrix
        /\ f[1].status = "Planned" => f[1].decision = "Pending"
<1> DEFINE cancelled == [NewRow EXCEPT !.status = "Cancelled"]
           completed(d) == [NewRow EXCEPT !.status = "Completed",
                                          !.decision = d,
                                          !.comment = "note"]
           all(s) == [k \in Competency |-> s]
           three == {"Pending", "NextStage", "Rejected"}
           Fine(r) == r \in Row /\ (r.status = "Planned"
                                       => r.decision = "Pending")
<1>1. Fine(cancelled) /\ \A d \in three : Fine(completed(d))
  BY DEF NewRow, Row, Status, Decision, Text
<1>2. \A s \in Star : all(s) \in Matrix
  BY WorkflowAssumption DEF Matrix
<1>3. Fine(NewRow) /\ Fine(NoRow)
  BY RowTypes DEF NewRow, NoRow
<1>4. FirstStates = {<<NoRow, NoMatrix>>, <<NewRow, NoMatrix>>,
                     <<NewRow, Zeros>>, <<cancelled, Zeros>>}
                    \cup {<<completed(d), all(s)>> : d \in three, s \in Star}
  BY DEF FirstStates
<1> HIDE DEF cancelled, completed, all, three, Fine
<1>5. \A f \in FirstStates : Fine(f[1]) /\ f[2] \in Matrix
  BY <1>1, <1>2, <1>3, <1>4, BlankTypes
<1> QED
  BY <1>5 DEF Fine

LEMMA TypesInit == WorkflowInit => WorkflowTypes
<1> SUFFICES ASSUME WorkflowInit
             PROVE  WorkflowTypes
  OBVIOUS
<1> HIDE DEF Row, Matrix, View, Page, ClickState
<1>2. book \in [Interview -> Row] /\ score \in [Interview -> Matrix]
  BY FirstRows DEF WorkflowInit
<1>3. ui \in [Client -> Page]
  <2>1. Listing \in [Interview -> View] /\ FirstPage \in Page
    BY <1>2, ListingTypes, BlankTypes
  <2>2. [FirstPage EXCEPT !.list = Listing] \in Page
    BY <2>1 DEF Page
  <2> QED
    BY <2>2 DEF WorkflowInit
<1>4. /\ click \in [Click -> ClickState]
      /\ \A q \in Click : click[q].step = "new"
  BY NoClickTypes DEF WorkflowInit, ClickSteps
<1> QED
  BY <1>2, <1>3, <1>4, StepFitsIdle
     DEF WorkflowInit, WorkflowTypes, WorkflowTypeOK

(* A step that touches no click.                                           *)
LEMMA FitsKept ==
    ASSUME \A q \in Click : StepFits(q), UNCHANGED click
    PROVE  \A q \in Click : StepFits(q)'
BY DEF StepFits, Running

(* One that touches a single one.                                          *)
LEMMA FitsOne ==
    ASSUME WorkflowTypes, NEW q \in Click, NEW next,
           click' = [click EXCEPT ![q] = next], StepFits(q)'
    PROVE  \A p \in Click : StepFits(p)'
<1> SUFFICES ASSUME NEW p \in Click, p # q
             PROVE  StepFits(p)'
  OBVIOUS
<1>1. click'[p] = click[p]
  BY DEF WorkflowTypes, WorkflowTypeOK
<1> QED
  BY <1>1 DEF WorkflowTypes, StepFits, Running

LEMMA UseThePageTypes ==
    ASSUME WorkflowTypes, NEW c \in Client, UseThePage(c)
    PROVE  WorkflowTypes'
<1> HIDE DEF Row, Matrix, View, ClickState
<1>1. UNCHANGED <<book, score, click, behind>>
  BY DEF UseThePage, openInterviewCard, CloseCard, TypeComment,
         startEditInterview, cancelEditInterview, handleReschedule,
         CancelReschedule, UnchangedApi
<1>2. ui' \in [Client -> Page]
  <2> USE DEF WorkflowTypes, WorkflowTypeOK
  <2>0. ui \in [Client -> Page] /\ NoView \in View
    BY BlankTypes
  <2>1. ASSUME NEW i \in Interview, openInterviewCard(c, i)
        PROVE  ui' \in [Client -> Page]
    <3>1. ui[c].list[i].comment \in Text
      BY DEF Page, View
    <3> QED
      <4> DEFINE v == ui[c].list[i]
                 t == ui[c].list[i].comment
                 page == [ui[c] EXCEPT !.shown = TRUE, !.id = i,
                                       !.view = v, !.draft = t]
      <4>1. v \in View /\ t \in Text
        BY <2>0, <3>1 DEF Page
      <4>2. ui' = [ui EXCEPT ![c].shown = TRUE, ![c].id = i,
                             ![c].view = v, ![c].draft = t]
        BY <2>1 DEF openInterviewCard
      <4> HIDE DEF v, t
      <4>3. page \in Page
        BY <2>0, <4>1 DEF Page
      <4>4. ui' = [ui EXCEPT ![c] = page]
        BY <4>2
      <4> HIDE DEF page
      <4> QED
        BY <2>0, <4>3, <4>4
  <2>2. ASSUME NEW i \in Interview, startEditInterview(c, i)
        PROVE  ui' \in [Client -> Page]
    <3>1. ui[c].list[i].comment \in RowText
      BY DEF Page, View, RowText
    <3> QED
      BY <2>0, <2>2, <3>1 DEF startEditInterview, Page
  <2>3. CASE CloseCard(c)
    BY <2>0, <2>3 DEF CloseCard, Page
  <2>4. CASE TypeComment(c)
    <3>1. PICK text \in Text :
             ui' = [ui EXCEPT ![c].draft = text, ![c].view.comment = text]
      BY <2>4 DEF TypeComment
    <3>2. [ui[c].view EXCEPT !.comment = text] \in View
      BY <2>0 DEF Page, View
    <3>3. ui' = [ui EXCEPT ![c].draft = text,
                           ![c].view = [ui[c].view EXCEPT !.comment = text]]
      BY <3>1, <2>0 DEF Page
    <3> QED
      BY <2>0, <3>2, <3>3 DEF Page
  <2>5. CASE cancelEditInterview(c)
    <3>1. [ui[c] EXCEPT !.editing = NoInterview, !.text = NoText] \in Page
      BY <2>0 DEF Page, RowText
    <3>2. ui' = [ui EXCEPT ![c] = [ui[c] EXCEPT !.editing = NoInterview,
                                                !.text = NoText]]
      BY <2>0, <2>5 DEF cancelEditInterview
    <3> QED
      BY <2>0, <3>1, <3>2
  <2>6. CASE handleReschedule(c)
    <3> DEFINE text == IF ui[c].list[ui[c].id].listed THEN NoText
                       ELSE ui[c].text
    <3>1. text \in RowText
      BY <2>0 DEF Page, RowText
    <3>2. ui' = [ui EXCEPT ![c].moving = ui[c].id, ![c].text = text]
      BY <2>0, <2>6 DEF handleReschedule
    <3> HIDE DEF text
    <3> QED
      BY <2>0, <3>1, <3>2 DEF Page
  <2>7. CASE CancelReschedule(c)
    <3>1. NoText \in RowText
      BY DEF RowText
    <3> QED
      BY <2>0, <2>7, <3>1 DEF CancelReschedule, Page
  <2> QED
    BY <2>1, <2>2, <2>3, <2>4, <2>5, <2>6, <2>7 DEF UseThePage
<1> QED
  BY <1>1, <1>2, FitsKept DEF WorkflowTypes, WorkflowTypeOK

-----------------------------------------------------------------------------
(* What a step does to the click it is of.                                 *)

Carried(q) ==
    /\ click'[q].client = click[q].client /\ click'[q].op = click[q].op
    /\ click'[q].id = click[q].id /\ click'[q].was = click[q].was
    /\ click'[q].decision = click[q].decision
    /\ click'[q].scores = click[q].scores

OnlyClick(q) ==
    /\ click' = [click EXCEPT ![q] = click'[q]]
    /\ click'[q] \in ClickState

(* The handler of a click that sends a request begins.                     *)
SentAs(q, c, op, i, decision, scores) ==
    /\ OnlyClick(q) /\ UNCHANGED <<book, score, ui, behind>>
    /\ click[q].step = "new" /\ click'[q].step = "send"
    /\ click'[q].client = c /\ click'[q].op = op
    /\ click'[q].id = i /\ click'[q].decision = decision
    /\ click'[q].scores = scores /\ click'[q].was = ui[c]
    /\ click'[q].lost = FALSE

LEMMA Sent ==
    ASSUME WorkflowTypes, NEW q \in Click, NEW c \in Client,
           NEW op \in Ops \ {"none", "Load"}, NEW i \in Interview,
           NEW decision \in Decision, NEW scores \in Matrix,
           Send(q, c, op, i, decision, scores)
    PROVE  SentAs(q, c, op, i, decision, scores)
<1> DEFINE next == [NoClick("send") EXCEPT
                       !.client = c, !.op = op, !.id = i,
                       !.decision = decision, !.scores = scores,
                       !.was = ui[c]]
<1>1. NoClick("send") \in ClickState /\ NoClick("send").step = "send"
      /\ NoClick("send").lost = FALSE
  BY NoClickTypes DEF ClickSteps
<1>2. ui[c] \in Page
  BY DEF WorkflowTypes, WorkflowTypeOK
<1>3. /\ next \in ClickState /\ next.step = "send" /\ next.client = c
      /\ next.op = op /\ next.id = i /\ next.decision = decision
      /\ next.scores = scores /\ next.was = ui[c] /\ next.lost = FALSE
  <2> HIDE DEF NoClick, Page, Matrix, View, Decision, Ops, ClickSteps
  <2> QED
    BY <1>1, <1>2 DEF ClickState, Ops
<1>4. click' = [click EXCEPT ![q] = next]
  BY DEF Send
<1> HIDE DEF next
<1>5. click'[q] = next
  BY <1>4 DEF WorkflowTypes, WorkflowTypeOK
<1> QED
  BY <1>3, <1>4, <1>5 DEF Send, UnchangedApi, OnlyClick, SentAs

LEMMA Loading ==
    ASSUME WorkflowTypes, NEW q \in Click, NEW c \in Client, loadData(q, c)
    PROVE  /\ OnlyClick(q) /\ UNCHANGED <<book, score, behind>>
           /\ click[q].step = "new" /\ click'[q].step = "send"
           /\ click'[q].client = c /\ click'[q].op = "Load"
           /\ click'[q].lost = FALSE /\ click'[q].scores = NoMatrix
           /\ ui' = [ui EXCEPT ![c] = [ui[c] EXCEPT
                 !.shown = FALSE, !.id = NoInterview, !.view = NoView,
                 !.moving = NoInterview]]
<1> DEFINE next == [NoClick("send") EXCEPT !.client = c, !.op = "Load",
                                           !.was = ui[c]]
<1>1. NoClick("send") \in ClickState /\ NoClick("send").step = "send"
      /\ NoClick("send").lost = FALSE /\ NoClick("send").scores = NoMatrix
  BY NoClickTypes DEF ClickSteps
<1>2. ui \in [Client -> Page]
  BY DEF WorkflowTypes, WorkflowTypeOK
<1>3. /\ next \in ClickState /\ next.step = "send" /\ next.client = c
      /\ next.op = "Load" /\ next.lost = FALSE /\ next.scores = NoMatrix
  <2> HIDE DEF NoClick, Page, Matrix, View, Decision, ClickSteps
  <2> QED
    BY <1>1, <1>2 DEF ClickState, Ops
<1>4. click' = [click EXCEPT ![q] = next]
  BY DEF loadData
<1> HIDE DEF next
<1>5. click'[q] = next
  BY <1>4 DEF WorkflowTypes, WorkflowTypeOK
<1>6. ui' = [ui EXCEPT ![c] = [ui[c] EXCEPT
                 !.shown = FALSE, !.id = NoInterview, !.view = NoView,
                 !.moving = NoInterview]]
  <2> HIDE DEF Page, NoView
  <2> QED
    BY <1>2 DEF loadData
<1> QED
  BY <1>3, <1>4, <1>5, <1>6 DEF loadData, UnchangedApi, OnlyClick

LEMMA Ended ==
    ASSUME WorkflowTypes, NEW q \in Click, Done(q)
    PROVE  /\ OnlyClick(q) /\ click'[q].step = "done"
           /\ click'[q].op = "none"
<1>1. /\ NoClick("done") \in ClickState /\ NoClick("done").step = "done"
      /\ NoClick("done").op = "none"
  BY NoClickTypes DEF ClickSteps
<1> HIDE DEF NoClick
<1> QED
  BY <1>1 DEF WorkflowTypes, WorkflowTypeOK, Done, OnlyClick

LEMMA Written ==
    ASSUME WorkflowTypes, NEW q \in Click, Running(q), click[q].op # "Load",
           NEW r \in Row, NEW m \in Matrix, NEW step \in ClickSteps,
           Write(q, r, m, step)
    PROVE  /\ OnlyClick(q) /\ Carried(q) /\ click[q].id \in Interview
           /\ click'[q].step = step
           /\ click'[q].answer = mapInterviewFromApi(r, m)
           /\ click'[q].lost = click[q].lost
           /\ click'[q].list = click[q].list
           /\ book' = [book EXCEPT ![click[q].id] = r]
           /\ score' = [score EXCEPT ![click[q].id] = m]
           /\ book' \in [Interview -> Row]
           /\ score' \in [Interview -> Matrix]
<1> DEFINE a == mapInterviewFromApi(r, m)
           next == [click[q] EXCEPT !.step = step, !.answer = a]
<1>1. a \in View
  BY AnswerTypes
<1>2. click \in [Click -> ClickState] /\ click[q].id \in Interview
      /\ book \in [Interview -> Row] /\ score \in [Interview -> Matrix]
  BY DEF WorkflowTypes, WorkflowTypeOK, StepFits
<1>3. click' = [click EXCEPT ![q].step = step, ![q].answer = a]
  BY DEF Write
<1> HIDE DEF a
<1>4. /\ next \in ClickState /\ next.step = step /\ next.answer = a
      /\ next.client = click[q].client /\ next.op = click[q].op
      /\ next.id = click[q].id /\ next.was = click[q].was
      /\ next.decision = click[q].decision
      /\ next.scores = click[q].scores /\ next.lost = click[q].lost
      /\ next.list = click[q].list
  <2> HIDE DEF View, Page, Matrix, Decision, Ops, ClickSteps
  <2> QED
    BY <1>1, <1>2 DEF ClickState
<1>5. click' = [click EXCEPT ![q] = next]
  BY <1>2, <1>3
<1> HIDE DEF next
<1>6. click'[q] = next
  BY <1>2, <1>5
<1>7. book' = [book EXCEPT ![click[q].id] = r]
      /\ score' = [score EXCEPT ![click[q].id] = m]
  BY DEF Write
<1> QED
  BY <1>2, <1>4, <1>5, <1>6, <1>7 DEF OnlyClick, Carried, a

LEMMA Listed ==
    ASSUME WorkflowTypes, NEW q \in Click, ServeList(q)
    PROVE  /\ OnlyClick(q) /\ Carried(q)
           /\ UNCHANGED <<book, score, ui, behind>>
           /\ click'[q].step = "list" /\ click'[q].list = Listing
           /\ click'[q].lost = click[q].lost
<1> DEFINE l == Listing
           next == [click[q] EXCEPT !.step = "list", !.list = l]
<1>1. click \in [Click -> ClickState] /\ l \in [Interview -> View]
  BY ListingTypes DEF WorkflowTypes, WorkflowTypeOK
<1>2. click' = [click EXCEPT ![q].step = "list", ![q].list = l]
  BY DEF ServeList
<1> HIDE DEF l
<1>3. /\ next \in ClickState /\ next.step = "list" /\ next.list = l
      /\ next.client = click[q].client /\ next.op = click[q].op
      /\ next.id = click[q].id /\ next.was = click[q].was
      /\ next.decision = click[q].decision
      /\ next.scores = click[q].scores /\ next.lost = click[q].lost
  <2> HIDE DEF View, Page, Matrix, Decision, Ops
  <2> QED
    BY <1>1 DEF ClickState, ClickSteps
<1>4. click' = [click EXCEPT ![q] = next]
  BY <1>1, <1>2
<1> HIDE DEF next
<1>5. click'[q] = next
  BY <1>1, <1>4
<1> QED
  BY <1>3, <1>4, <1>5 DEF OnlyClick, Carried, l, ServeList, UnchangedApi

LEMMA PutTypes ==
    ASSUME NEW l \in [Interview -> View], NEW i \in Interview, NEW v \in View
    PROVE  /\ Put(l, i, v) \in [Interview -> View]
           /\ \A j \in Interview \ {i} : Put(l, i, v)[j] = l[j]
           /\ l[i].listed => Put(l, i, v)[i] = v
           /\ ~l[i].listed => Put(l, i, v) = l
<1> HIDE DEF View
<1> QED
  BY DEF Put

LEMMA MarkAllTypes ==
    ASSUME NEW l \in [Interview -> View], NEW also
    PROVE  /\ MarkAll(l, also) \in [Interview -> View]
           /\ \A j \in Interview :
                 /\ MarkAll(l, also)[j].listed = l[j].listed
                 /\ Alike(MarkAll(l, also)[j], l[j])
                 /\ j \in also => MarkAll(l, also)[j].archived
                 /\ j \notin also => MarkAll(l, also)[j] = l[j]
BY DEF MarkAll, View, Alike

LEMMA Settled ==
    ASSUME WorkflowTypes, NEW q \in Click, Settle(q)
    PROVE  LET news == Put(click[q].was.list, click[q].id, click[q].answer)
               also == AlsoArchived(q, news)
           IN  /\ OnlyClick(q) /\ Carried(q)
               /\ UNCHANGED <<book, score, ui, behind>>
               /\ click'[q].step = "archive"
               /\ click'[q].todo = {j \in also : ~news[j].archived}
               /\ click'[q].list = MarkAll(news, also)
               /\ click'[q].answer = click[q].answer
               /\ click'[q].lost = click[q].lost
               /\ news \in [Interview -> View] /\ also \subseteq Interview
<1> DEFINE news == Put(click[q].was.list, click[q].id, click[q].answer)
           also == AlsoArchived(q, news)
           left == {j \in also : ~news[j].archived}
           l == MarkAll(news, also)
           next == [click[q] EXCEPT !.step = "archive", !.todo = left,
                                    !.list = l]
<1>1. click \in [Click -> ClickState] /\ click[q].id \in Interview
  BY DEF WorkflowTypes, WorkflowTypeOK, StepFits, Settle, Running,
         Decisions
<1>2. click[q].was.list \in [Interview -> View] /\ click[q].answer \in View
  BY <1>1 DEF ClickState, Page
<1>3. news \in [Interview -> View] /\ l \in [Interview -> View]
  BY <1>1, <1>2, PutTypes, MarkAllTypes
<1>4. also \subseteq Interview /\ left \subseteq Interview
  BY DEF AlsoArchived, OfSameCandidate
<1>5. click' = [click EXCEPT ![q].step = "archive", ![q].todo = left,
                             ![q].list = l]
  BY DEF Settle, MarkAll
<1>6. UNCHANGED <<book, score, ui, behind>>
  BY DEF Settle, UnchangedApi
<1> SUFFICES /\ OnlyClick(q) /\ Carried(q)
             /\ click'[q].step = "archive" /\ click'[q].todo = left
             /\ click'[q].list = l
             /\ click'[q].answer = click[q].answer
             /\ click'[q].lost = click[q].lost
  BY <1>3, <1>4, <1>6
<1> HIDE DEF news, also, left, l
<1>7. /\ next \in ClickState /\ next.step = "archive"
      /\ next.todo = left /\ next.list = l
      /\ next.answer = click[q].answer
      /\ next.client = click[q].client /\ next.op = click[q].op
      /\ next.id = click[q].id /\ next.was = click[q].was
      /\ next.decision = click[q].decision
      /\ next.scores = click[q].scores /\ next.lost = click[q].lost
  <2> HIDE DEF View, Page, Matrix, Decision, Ops
  <2> QED
    BY <1>1, <1>3, <1>4 DEF ClickState, ClickSteps
<1>8. click' = [click EXCEPT ![q] = next]
  BY <1>1, <1>5
<1> HIDE DEF next
<1>9. click'[q] = next
  BY <1>1, <1>8
<1> QED
  BY <1>7, <1>8, <1>9 DEF OnlyClick, Carried

(* One interview less to archive.                                          *)
LEMMA OneLess ==
    ASSUME WorkflowTypes, NEW q \in Click, NEW j, NEW lost \in BOOLEAN,
           \/ click' = [click EXCEPT ![q].todo = @ \ {j}]
              /\ lost = click[q].lost
           \/ click' = [click EXCEPT ![q].todo = @ \ {j}, ![q].lost = TRUE]
              /\ lost = TRUE
    PROVE  /\ OnlyClick(q) /\ Carried(q)
           /\ click'[q].step = click[q].step
           /\ click'[q].todo = click[q].todo \ {j}
           /\ click'[q].list = click[q].list
           /\ click'[q].answer = click[q].answer
           /\ click'[q].lost = lost
<1> DEFINE left == click[q].todo \ {j}
           next == [click[q] EXCEPT !.todo = left, !.lost = lost]
<1>1. click \in [Click -> ClickState] /\ left \in SUBSET Interview
  BY DEF WorkflowTypes, WorkflowTypeOK, ClickState
<1>2. click' = [click EXCEPT ![q] = next]
  <2>1. CASE click' = [click EXCEPT ![q].todo = @ \ {j}]
             /\ lost = click[q].lost
    <3>1. next = [click[q] EXCEPT !.todo = left]
      <4> HIDE DEF View, Page, Matrix, Decision, Ops, ClickSteps
      <4> QED
        BY <1>1, <2>1 DEF ClickState
    <3> QED
      BY <1>1, <2>1, <3>1
  <2>2. CASE click' = [click EXCEPT ![q].todo = @ \ {j}, ![q].lost = TRUE]
             /\ lost = TRUE
    <3>1. click' = [click EXCEPT ![q].todo = left, ![q].lost = TRUE]
      BY <1>1, <2>2
    <3> HIDE DEF left
    <3> QED
      BY <1>1, <2>2, <3>1
  <2> QED
    BY <2>1, <2>2
<1>3. /\ next \in ClickState /\ next.step = click[q].step
      /\ next.todo = left /\ next.list = click[q].list
      /\ next.answer = click[q].answer
      /\ next.client = click[q].client /\ next.op = click[q].op
      /\ next.id = click[q].id /\ next.was = click[q].was
      /\ next.decision = click[q].decision
      /\ next.scores = click[q].scores /\ next.lost = lost
  <2> HIDE DEF View, Page, Matrix, Decision, Ops, ClickSteps, left
  <2> QED
    BY <1>1 DEF ClickState, left
<1> HIDE DEF next
<1>4. click'[q] = next
  BY <1>1, <1>2
<1> QED
  BY <1>2, <1>3, <1>4 DEF OnlyClick, Carried

(* The scores are not cleared, and nobody is told.                         *)
LEMMA Uncleared ==
    ASSUME WorkflowTypes, NEW q \in Click, LoseClear(q)
    PROVE  /\ OnlyClick(q) /\ Carried(q)
           /\ UNCHANGED <<book, score, behind>>
           /\ click[q].step = "clear" /\ click'[q].step = "reload"
           /\ click'[q].lost = TRUE
           /\ CloseForm(q)
<1> DEFINE next == [click[q] EXCEPT !.step = "reload", !.lost = TRUE]
<1>1. click \in [Click -> ClickState]
  BY DEF WorkflowTypes, WorkflowTypeOK
<1>2. /\ next \in ClickState /\ next.step = "reload"
      /\ next.client = click[q].client /\ next.op = click[q].op
      /\ next.id = click[q].id /\ next.was = click[q].was
      /\ next.decision = click[q].decision
      /\ next.scores = click[q].scores /\ next.lost = TRUE
  <2> HIDE DEF View, Page, Matrix, Decision, Ops
  <2> QED
    BY <1>1 DEF ClickState, ClickSteps
<1>3. click' = [click EXCEPT ![q] = next]
  BY <1>1 DEF LoseClear
<1> HIDE DEF next
<1>4. click'[q] = next
  BY <1>1, <1>3
<1> QED
  BY <1>2, <1>3, <1>4 DEF OnlyClick, Carried, LoseClear, UnchangedApi

(* A button loads a page or sends a request.                               *)
LEMMA ButtonKinds ==
    ASSUME WorkflowTypes, NEW c \in Client, NEW q \in Click,
           ClickButton(q, c)
    PROVE  loadData(q, c) \/ \E op \in Ops \ {"none", "Load"},
                                i \in Interview, decision \in Decision,
                                scores \in Matrix :
                                   Send(q, c, op, i, decision, scores)
<1>0. ui[c] \in Page
  BY DEF WorkflowTypes, WorkflowTypeOK
<1>1. /\ OnCard(c) => ui[c].id \in Interview
      /\ ui[c].editing # NoInterview => ui[c].editing \in Interview
      /\ ui[c].view.scores \in Matrix
  BY <1>0 DEF OnCard, Page, View
<1>2. NoMatrix \in Matrix /\ "Pending" \in Decision
  BY BlankTypes DEF Decision
<1>3. \A k \in Competency, s \in Star :
         [ui[c].view.scores EXCEPT ![k] = s] \in Matrix
  BY <1>1, WorkflowAssumption DEF Matrix
<1>4. ASSUME NEW op \in Ops \ {"none", "Load"}, NEW i \in Interview,
             Plain(q, c, op, i)
      PROVE  \E o \in Ops \ {"none", "Load"}, j \in Interview,
                decision \in Decision, scores \in Matrix :
                   Send(q, c, o, j, decision, scores)
  <2> HIDE DEF Ops, Decision, Matrix
  <2> QED
    BY <1>2, <1>4, Zenon DEF Plain
<1>5. CASE handleStarClickInterview(q, c)
  <2>1. PICK k \in Competency, s \in Star :
           Send(q, c, "Star", ui[c].id, "Pending",
                [ui[c].view.scores EXCEPT ![k] = s])
    BY <1>5 DEF handleStarClickInterview
  <2>2. ui[c].id \in Interview /\ "Star" \in Ops \ {"none", "Load"}
    BY <1>1, <1>5 DEF handleStarClickInterview, Ops
  <2> QED
    BY <1>2, <1>3, <2>1, <2>2, Zenon
<1>6. CASE ClickDecide(q, c)
  <2>1. PICK decision \in Decision \ {"Pending"} :
           Send(q, c, "Decide", ui[c].id, decision, NoMatrix)
    BY <1>6 DEF ClickDecide
  <2>2. ui[c].id \in Interview /\ "Decide" \in Ops \ {"none", "Load"}
    BY <1>1, <1>6 DEF ClickDecide, Actions, Ops
  <2> QED
    BY <1>2, <2>1, <2>2, Zenon
<1>7. CASE \/ saveComment(q, c) \/ ClickComplete(q, c)
           \/ ClickCancel(q, c) \/ handleRescheduleSubmit(q, c)
           \/ saveEditInterview(q, c)
           \/ \E i \in Interview :
                 \/ handleArchiveInterview(q, c, i)
                 \/ handleUnarchiveInterview(q, c, i)
                 \/ handleDeleteInterview(q, c, i)
                 \/ handleScheduleSubmit(q, c, i)
  <2>1. \E op \in Ops \ {"none", "Load"}, i \in Interview :
           Plain(q, c, op, i)
    BY <1>1, <1>7
       DEF saveComment, ClickComplete, ClickCancel,
           handleRescheduleSubmit, saveEditInterview,
           handleArchiveInterview, handleUnarchiveInterview,
           handleDeleteInterview, handleScheduleSubmit, Actions, Ops
  <2> QED
    BY <1>4, <2>1
<1> QED
  BY <1>5, <1>6, <1>7 DEF ClickButton

LEMMA ButtonTypes ==
    ASSUME WorkflowTypes, NEW c \in Client, NEW q \in Click,
           ClickButton(q, c)
    PROVE  WorkflowTypes'
<1>0. ui[c] \in Page /\ ui \in [Client -> Page]
  BY DEF WorkflowTypes, WorkflowTypeOK
<1>1. CASE loadData(q, c)
  <2>1. OnlyClick(q) /\ UNCHANGED <<book, score, behind>>
        /\ click'[q].step = "send" /\ click'[q].op = "Load"
        /\ ui' = [ui EXCEPT ![c] = [ui[c] EXCEPT
                     !.shown = FALSE, !.id = NoInterview, !.view = NoView,
                     !.moving = NoInterview]]
    BY <1>1, Loading
  <2>2. StepFits(q)'
    BY <2>1 DEF StepFits, Decisions
  <2>3. click' \in [Click -> ClickState]
    BY <2>1 DEF OnlyClick, WorkflowTypes, WorkflowTypeOK
  <2>4. \A p \in Click : StepFits(p)'
    BY <2>1, <2>2, FitsOne DEF OnlyClick
  <2>5. [ui[c] EXCEPT !.shown = FALSE, !.id = NoInterview, !.view = NoView,
                      !.moving = NoInterview] \in Page
    <3>1. NoView \in View
      BY BlankTypes
    <3> HIDE DEF View, NoView
    <3> QED
      BY <1>0, <3>1 DEF Page
  <2> HIDE DEF Page, ClickState, Row, Matrix
  <2> QED
    BY <1>0, <2>1, <2>3, <2>4, <2>5 DEF WorkflowTypes, WorkflowTypeOK
<1>2. CASE \E op \in Ops \ {"none", "Load"}, i \in Interview,
              decision \in Decision, scores \in Matrix :
                 Send(q, c, op, i, decision, scores)
  <2>1. OnlyClick(q) /\ UNCHANGED <<book, score, ui, behind>>
        /\ click'[q].step = "send" /\ click'[q].op \in Ops \ {"none", "Load"}
        /\ click'[q].id \in Interview
    <3>1. PICK op \in Ops \ {"none", "Load"}, i \in Interview,
               decision \in Decision, scores \in Matrix :
                  Send(q, c, op, i, decision, scores)
      BY <1>2
    <3> HIDE DEF Ops, Decision, Matrix
    <3>2. SentAs(q, c, op, i, decision, scores)
      BY <3>1, Sent
    <3> QED
      BY <3>2 DEF SentAs
  <2>2. StepFits(q)'
    BY <2>1 DEF StepFits, Decisions
  <2>3. click' \in [Click -> ClickState]
    BY <2>1 DEF OnlyClick, WorkflowTypes, WorkflowTypeOK
  <2>4. \A p \in Click : StepFits(p)'
    BY <2>1, <2>2, FitsOne DEF OnlyClick
  <2> HIDE DEF Page, ClickState, Row, Matrix
  <2> QED
    BY <2>1, <2>3, <2>4 DEF WorkflowTypes, WorkflowTypeOK
<1> QED
  BY <1>1, <1>2, ButtonKinds

LEMMA RewrittenTypes ==
    ASSUME WorkflowTypes, NEW q \in Click, NEW r \in Row, ~Refused(q)
    PROVE  Rewritten(q, r) \in Row
<1>1. click[q].was \in Page /\ click[q].was.view \in View
      /\ click[q].decision \in Decision
  BY DEF WorkflowTypes, WorkflowTypeOK, ClickState, Page
<1>2. /\ click[q].was.view.status \in Status
      /\ click[q].was.draft \in Text
      /\ click[q].op = "Edit" => click[q].was.text \in Text
      /\ Said(click[q].was) \in Text
  BY <1>1 DEF Page, View, Said, Refused, RowText
<1> DEFINE page == click[q].was
<1>3. /\ \A s \in Status, d \in Decision \cup {Keep}, t \in Text :
            StatusSet(r, s, d, t) \in Row
      /\ \A d \in Decision : Decided(r, d, Keep) \in Row
  BY DEF StatusSet, Decided, Given, Row, Keep, Status, Decision, Text
<1>4. \A t \in Text, b \in BOOLEAN :
         /\ Archived(r, b) \in Row
         /\ [r EXCEPT !.deleted = TRUE] \in Row
         /\ [r EXCEPT !.comment = t] \in Row
  BY DEF Archived, Row
<1> HIDE DEF Row, Page, View
<1> QED
  BY <1>1, <1>2, <1>3, <1>4 DEF Rewritten, Status, Decision

LEMMA MarkedTypes ==
    ASSUME NEW m \in Matrix, NEW n \in Matrix
    PROVE  Marked(m, n) \in Matrix
BY DEF Marked, Matrix

LEMMA ClickTypes ==
    ASSUME WorkflowTypes, NEW q \in Click
    PROVE  /\ click[q].client \in Client /\ click[q].was \in Page
           /\ click[q].was.list \in [Interview -> View]
           /\ click[q].was.view \in View /\ click[q].was.draft \in Text
           /\ click[q].answer \in View
           /\ click[q].list \in [Interview -> View]
           /\ click[q].scores \in Matrix /\ click[q].lost \in BOOLEAN
           /\ click[q].op \in Ops /\ click[q].step \in ClickSteps
           /\ click[q].decision \in Decision
           /\ click[q].todo \in SUBSET Interview
           /\ ui[click[q].client] \in Page
           /\ Running(q) /\ click[q].op # "Load" => click[q].id \in Interview
<1>1. click[q] \in ClickState
  BY DEF WorkflowTypes, WorkflowTypeOK
<1>2. click[q].was \in Page /\ click[q].client \in Client
  BY <1>1 DEF ClickState
<1>3. /\ click[q].was.list \in [Interview -> View]
      /\ click[q].was.view \in View /\ click[q].was.draft \in Text
  BY <1>2 DEF Page
<1>4. /\ click[q].answer \in View
      /\ click[q].list \in [Interview -> View]
      /\ click[q].scores \in Matrix /\ click[q].lost \in BOOLEAN
      /\ click[q].op \in Ops /\ click[q].step \in ClickSteps
      /\ click[q].decision \in Decision
      /\ click[q].todo \in SUBSET Interview
  BY <1>1 DEF ClickState
<1> QED
  BY <1>2, <1>3, <1>4 DEF WorkflowTypes, WorkflowTypeOK, StepFits

LEMMA FormClosed ==
    ASSUME WorkflowTypes, NEW q \in Click, CloseForm(q)
    PROVE  /\ ui' = [ui EXCEPT ![click[q].client] =
                       [ui[click[q].client] EXCEPT !.moving = NoInterview,
                                                   !.text = NoText]]
           /\ ui' \in [Client -> Page]
<1> DEFINE c == click[q].client
           page == [ui[c] EXCEPT !.moving = NoInterview, !.text = NoText]
<1>1. ui \in [Client -> Page] /\ c \in Client
  BY ClickTypes DEF WorkflowTypes, WorkflowTypeOK
<1>2. page \in Page
  <2> HIDE DEF c, View
  <2> QED
    BY <1>1 DEF Page, RowText
<1>3. ui' = [ui EXCEPT ![c] = page]
  BY <1>1 DEF CloseForm
<1> HIDE DEF page
<1>4. ui' \in [Client -> Page]
  BY <1>1, <1>2, <1>3
<1> QED
  BY <1>3, <1>4 DEF page

LEMMA SelectedTypes ==
    ASSUME NEW page \in Page, NEW was, NEW i \in Interview, NEW v \in View
    PROVE  Selected(page, was, i, v) \in Page
<1> HIDE DEF View
<1> QED
  BY DEF Selected, Page

LEMMA ShownTypes ==
    ASSUME WorkflowTypes, NEW q \in Click, click[q].step = "answer",
           click[q].op \notin Decisions
    PROVE  Shown(q) \in Page
<1> DEFINE i == click[q].id
           a == click[q].answer
           was == click[q].was
           put == Put(was.list, i, a)
           page == [ui[click[q].client] EXCEPT !.list = put]
           said == [was.view EXCEPT !.comment = was.draft]
           noted == [was.list[i] EXCEPT !.comment = was.draft]
           commented == Put(was.list, i, noted)
           removed == [was.list EXCEPT ![i] = NoView]
           added == [was.list EXCEPT ![i] = a]
           gone == [page EXCEPT !.list = removed]
<1>1. /\ i \in Interview /\ a \in View /\ was.list \in [Interview -> View]
      /\ was.view \in View /\ was.draft \in Text
      /\ ui[click[q].client] \in Page
      /\ click[q].op \in {"Comment", "Star", "Archive", "Unarchive", "Edit",
                          "Delete", "Schedule"}
  BY ClickTypes DEF Running, WorkflowTypes, StepFits, Decisions, Ops
<1>2. said \in View /\ noted \in View
  BY <1>1 DEF View
<1>3. /\ put \in [Interview -> View] /\ commented \in [Interview -> View]
  <2> HIDE DEF noted, i, a, was
  <2> QED
    BY <1>1, <1>2, PutTypes
<1>4. removed \in [Interview -> View] /\ added \in [Interview -> View]
  <2> HIDE DEF i, a, was, NoView
  <2> QED
    BY <1>1, BlankTypes
<1> HIDE DEF said, put, commented, removed, added
<1>5. page \in Page /\ gone \in Page /\ [page EXCEPT !.list = added] \in Page
  <2> HIDE DEF View
  <2> QED
    BY <1>1, <1>3, <1>4 DEF Page
<1>6. CASE click[q].op = "Comment"
  <2>1. Shown(q) = [page EXCEPT !.id = i, !.view = said, !.list = commented]
    <3> HIDE DEF page
    <3> QED
      BY <1>6 DEF Shown, page, commented, noted, said, put
  <2> HIDE DEF View, page
  <2> QED
    BY <1>1, <1>2, <1>3, <1>5, <2>1 DEF Page
<1>7. CASE click[q].op = "Star"
  <2>1. Shown(q) = [page EXCEPT !.id = i, !.view = a]
    BY <1>7 DEF Shown, put
  <2> HIDE DEF View, page
  <2> QED
    BY <1>1, <1>5, <2>1 DEF Page
<1>8. CASE click[q].op \in {"Archive", "Unarchive"}
  <2>1. Shown(q) = Selected(page, was, i, a)
    BY <1>8 DEF Shown, put
  <2> HIDE DEF page
  <2> QED
    BY <1>1, <1>5, <2>1, SelectedTypes
<1>9. CASE click[q].op = "Edit"
  <2>1. Shown(q) = [Selected(page, was, i, a) EXCEPT
                      !.editing = NoInterview, !.text = NoText]
    BY <1>9 DEF Shown, put
  <2>2. Selected(page, was, i, a) \in Page
    <3> HIDE DEF page
    <3> QED
      BY <1>1, <1>5, SelectedTypes
  <2> HIDE DEF View, page
  <2> QED
    BY <2>1, <2>2 DEF Page, RowText
<1>10. CASE click[q].op = "Delete"
  <2>1. Shown(q) = IF was.id # i THEN gone
                   ELSE [gone EXCEPT !.shown = FALSE, !.id = NoInterview,
                                     !.view = NoView]
    BY <1>10 DEF Shown, put, removed
  <2>2. NoView \in View
    BY BlankTypes
  <2> HIDE DEF View, gone, NoView
  <2>3. [gone EXCEPT !.shown = FALSE, !.id = NoInterview,
                     !.view = NoView] \in Page
    BY <1>5, <2>2 DEF Page
  <2> QED
    BY <1>5, <2>1, <2>3
<1>11. CASE click[q].op = "Schedule"
  <2>1. Shown(q) = [page EXCEPT !.list = added]
    BY <1>11 DEF Shown, put, added
  <2> QED
    BY <1>5, <2>1
<1> QED
  BY <1>1, <1>6, <1>7, <1>8, <1>9, <1>10, <1>11

(* What the handler shows at its end: one page, and the click is done.     *)
LEMMA ShowTypes ==
    ASSUME WorkflowTypes, NEW q \in Click, NEW page \in Page, Show(q, page)
    PROVE  /\ OnlyClick(q) /\ UNCHANGED <<book, score>>
           /\ click'[q].step = "done" /\ click'[q].op = "none"
           /\ ui' = [ui EXCEPT ![click[q].client] = page]
           /\ ui' \in [Client -> Page]
<1>1. ui \in [Client -> Page] /\ click[q].client \in Client
  BY ClickTypes DEF WorkflowTypes, WorkflowTypeOK
<1>2. Done(q)
  BY DEF Show
<1>3. /\ OnlyClick(q) /\ click'[q].step = "done" /\ click'[q].op = "none"
  BY <1>2, Ended
<1> QED
  BY <1>1, <1>3 DEF Show, UnchangedApi

(* The pages that handlers show at their ends.                             *)
ListPage(q) ==
    LET l == click[q].list
        i == click[q].id
        page == [ui[click[q].client] EXCEPT !.list = l]
    IN  IF click[q].op = "Reschedule" /\ l[i].listed
        THEN [page EXCEPT !.id = i, !.view = l[i]] ELSE page

DecisionPage(q) ==
    Selected([ui[click[q].client] EXCEPT !.list = click[q].list],
             click[q].was, click[q].id, click[q].answer)

LEMMA EndPageTypes ==
    ASSUME WorkflowTypes, NEW q \in Click
    PROVE  /\ click[q].step = "list" => ListPage(q) \in Page
           /\ click[q].step = "archive" => DecisionPage(q) \in Page
           /\ [ui[click[q].client] EXCEPT !.list = NoList] \in Page
<1> DEFINE l == click[q].list
           i == click[q].id
           page == [ui[click[q].client] EXCEPT !.list = l]
<1>1. /\ l \in [Interview -> View] /\ ui[click[q].client] \in Page
      /\ click[q].answer \in View
      /\ Running(q) /\ click[q].op # "Load" => i \in Interview
  BY ClickTypes
<1> HIDE DEF l, i
<1>2. page \in Page
  <2> HIDE DEF View
  <2> QED
    BY <1>1 DEF Page
<1>3. ASSUME click[q].step = "list"
      PROVE  ListPage(q) \in Page
  <2>1. CASE click[q].op = "Reschedule" /\ l[i].listed
    <3>1. ListPage(q) = [page EXCEPT !.id = i, !.view = l[i]]
      BY <2>1 DEF ListPage, l, i
    <3>2. i \in Interview /\ l[i] \in View
      BY <1>1, <1>3, <2>1 DEF Running
    <3> HIDE DEF View, page
    <3> QED
      BY <1>2, <3>1, <3>2 DEF Page
  <2>2. CASE ~(click[q].op = "Reschedule" /\ l[i].listed)
    <3>1. ListPage(q) = page
      BY <2>2 DEF ListPage, l, i
    <3> HIDE DEF page
    <3> QED
      BY <1>2, <3>1
  <2> QED
    BY <2>1, <2>2
<1>4. ASSUME click[q].step = "archive"
      PROVE  DecisionPage(q) \in Page
  <2>1. i \in Interview
    BY <1>1, <1>4 DEF WorkflowTypes, StepFits, Running, Decisions
  <2>2. DecisionPage(q) = Selected(page, click[q].was, i, click[q].answer)
    BY DEF DecisionPage, l, i
  <2> HIDE DEF page
  <2> QED
    BY <1>1, <1>2, <2>1, <2>2, SelectedTypes
<1>5. [ui[click[q].client] EXCEPT !.list = NoList] \in Page
  <2>1. NoList \in [Interview -> View]
    BY BlankTypes
  <2> HIDE DEF NoList, View
  <2> QED
    BY <1>1, <2>1 DEF Page
<1> QED
  BY <1>3, <1>4, <1>5

LEMMA HandleTypes ==
    ASSUME WorkflowTypes, NEW q \in Click, Handle(q)
    PROVE  WorkflowTypes'
<1>0. /\ book \in [Interview -> Row] /\ score \in [Interview -> Matrix]
      /\ ui \in [Client -> Page] /\ behind \in SUBSET Client
      /\ click[q].client \in Client /\ click[q].scores \in Matrix
      /\ click[q].was.list \in [Interview -> View]
  BY ClickTypes DEF WorkflowTypes, WorkflowTypeOK
<1>1. ASSUME OnlyClick(q), StepFits(q)',
             book' \in [Interview -> Row], score' \in [Interview -> Matrix],
             ui' \in [Client -> Page], behind' \in SUBSET Client
      PROVE  WorkflowTypes'
  <2>1. click' \in [Click -> ClickState]
    BY <1>1 DEF OnlyClick, WorkflowTypes, WorkflowTypeOK
  <2>2. \A p \in Click : StepFits(p)'
    BY <1>1, FitsOne DEF OnlyClick
  <2> QED
    BY <1>1, <2>1, <2>2 DEF WorkflowTypes, WorkflowTypeOK
<1> HIDE DEF Row, Matrix, View, Page, ClickState
<1>2. CASE Serve(q)
  <2>1. Running(q) /\ click[q].op # "Load" /\ click[q].id \in Interview
    BY <1>2 DEF Serve, Running, WorkflowTypes, StepFits
  <2>2. Rewritten(q, book[click[q].id]) \in Row
        /\ Marked(score[click[q].id], click[q].scores) \in Matrix
    BY <1>0, <1>2, <2>1, RewrittenTypes, MarkedTypes DEF Serve
  <2>3. OnlyClick(q) /\ Carried(q) /\ click'[q].step = "answer"
        /\ book' \in [Interview -> Row] /\ score' \in [Interview -> Matrix]
    BY <1>2, <2>1, <2>2, Written DEF Serve, ClickSteps
  <2>4. StepFits(q)'
    BY <1>2, <2>1, <2>3
       DEF Serve, StepFits, Running, Carried, WorkflowTypes
  <2> QED
    BY <1>0, <1>1, <1>2, <2>3, <2>4 DEF Serve
<1>3. CASE ServeSchedule(q)
  <2>1. Running(q) /\ click[q].op # "Load" /\ click[q].id \in Interview
    BY <1>3 DEF ServeSchedule, Running, WorkflowTypes, StepFits
  <2>2. PICK m \in {NoMatrix, Zeros} : Write(q, NewRow, m, "answer")
    BY <1>3 DEF ServeSchedule
  <2>3. NewRow \in Row /\ m \in Matrix
    BY <2>2, RowTypes, BlankTypes
  <2>4. OnlyClick(q) /\ Carried(q) /\ click'[q].step = "answer"
        /\ book' \in [Interview -> Row] /\ score' \in [Interview -> Matrix]
    BY <2>1, <2>2, <2>3, Written DEF ClickSteps
  <2>5. StepFits(q)'
    BY <1>3, <2>1, <2>4
       DEF ServeSchedule, StepFits, Running, Carried, WorkflowTypes
  <2> QED
    BY <1>0, <1>1, <1>3, <2>4, <2>5 DEF ServeSchedule
<1>4. CASE ServeMove(q)
  <2>1. Running(q) /\ click[q].op # "Load" /\ click[q].id \in Interview
    BY <1>4 DEF ServeMove, Running, WorkflowTypes, StepFits
  <2>2. [book[click[q].id] EXCEPT !.comment = ""] \in Row
    <3>1. book[click[q].id] \in Row
      BY <1>0, <2>1
    <3> QED
      BY <3>1 DEF Row, Text
  <2>3. OnlyClick(q) /\ Carried(q) /\ click'[q].step = "reset"
        /\ book' \in [Interview -> Row] /\ score' \in [Interview -> Matrix]
    BY <1>0, <1>4, <2>1, <2>2, Written DEF ServeMove, ClickSteps
  <2>4. StepFits(q)'
    BY <1>4, <2>1, <2>3
       DEF ServeMove, StepFits, Running, Carried, WorkflowTypes
  <2> QED
    BY <1>0, <1>1, <1>4, <2>3, <2>4 DEF ServeMove
<1>5. CASE ServeReset(q)
  <2> DEFINE next == IF HasMatrix(q) THEN "clear" ELSE "reload"
  <2>1. Running(q) /\ click[q].op = "Reschedule" /\ click[q].id \in Interview
    BY <1>5 DEF ServeReset, Running, WorkflowTypes, StepFits
  <2>2. StatusSet(book[click[q].id], "Planned", "Pending", "") \in Row
    <3>1. book[click[q].id] \in Row
      BY <1>0, <2>1
    <3> QED
      BY <3>1 DEF StatusSet, Given, Keep, Row, Status, Decision, Text
  <2>3. OnlyClick(q) /\ Carried(q) /\ click'[q].step = next
        /\ book' \in [Interview -> Row] /\ score' \in [Interview -> Matrix]
    BY <1>0, <1>5, <2>1, <2>2, Written DEF ServeReset, ClickSteps
  <2>4. StepFits(q)'
    BY <2>1, <2>3 DEF StepFits, Running, Carried
  <2>5. ui' \in [Client -> Page] /\ behind' = behind
    BY <1>0, <1>5, FormClosed DEF ServeReset
  <2> QED
    BY <1>0, <1>1, <2>3, <2>4, <2>5
<1>6. CASE ServeClear(q)
  <2> DEFINE zeros == [k \in Competency |->
                IF click[q].was.list[click[q].id].scores[k] = NoScore
                THEN NoScore ELSE 0]
  <2>1. Running(q) /\ click[q].op = "Reschedule" /\ click[q].id \in Interview
    BY <1>6 DEF ServeClear, Running, WorkflowTypes, StepFits
  <2>2. book[click[q].id] \in Row /\ score[click[q].id] \in Matrix
    BY <1>0, <2>1
  <2>3. zeros \in Matrix
    BY DEF Matrix
  <2>4. Marked(score[click[q].id], zeros) \in Matrix
    BY <2>2, <2>3, MarkedTypes
  <2>5. Write(q, book[click[q].id], Marked(score[click[q].id], zeros),
              "reload")
    BY <1>6 DEF ServeClear
  <2> HIDE DEF zeros
  <2>6. OnlyClick(q) /\ Carried(q) /\ click'[q].step = "reload"
        /\ book' \in [Interview -> Row] /\ score' \in [Interview -> Matrix]
    BY <2>1, <2>2, <2>4, <2>5, Written DEF ClickSteps
  <2>7. StepFits(q)'
    BY <2>1, <2>6 DEF StepFits, Running, Carried
  <2>8. ui' \in [Client -> Page] /\ behind' = behind
    BY <1>6, FormClosed DEF ServeClear
  <2> QED
    BY <1>0, <1>1, <2>6, <2>7, <2>8
<1>7. CASE ServeList(q)
  <2>1. OnlyClick(q) /\ Carried(q) /\ click'[q].step = "list"
        /\ UNCHANGED <<book, score, ui, behind>>
    BY <1>7, Listed
  <2>2. StepFits(q)'
    BY <1>7, <2>1
       DEF ServeList, StepFits, Running, Carried, WorkflowTypes
  <2> QED
    BY <1>0, <1>1, <2>1, <2>2
<1>8. CASE Settle(q)
  <2>1. OnlyClick(q) /\ Carried(q) /\ click'[q].step = "archive"
        /\ UNCHANGED <<book, score, ui, behind>>
    BY <1>8, Settled
  <2>2. StepFits(q)'
    BY <1>8, <2>1
       DEF Settle, StepFits, Running, Carried, WorkflowTypes, Decisions
  <2> QED
    BY <1>0, <1>1, <2>1, <2>2
<1>9. CASE ShowAnswer(q)
  <2>1. Shown(q) \in Page
    BY <1>9, ShownTypes DEF ShowAnswer
  <2>2. OnlyClick(q) /\ click'[q].step = "done" /\ click'[q].op = "none"
        /\ UNCHANGED <<book, score>> /\ ui' \in [Client -> Page]
    BY <1>9, <2>1, ShowTypes DEF ShowAnswer
  <2>3. StepFits(q)'
    BY <2>2 DEF StepFits, Running
  <2> QED
    BY <1>0, <1>1, <1>9, <2>2, <2>3 DEF ShowAnswer
<1>10. CASE ShowList(q)
  <2>1. Show(q, ListPage(q)) /\ click[q].step = "list"
        /\ behind' = behind \ {click[q].client}
    BY <1>10 DEF ShowList, ListPage
  <2>2. OnlyClick(q) /\ click'[q].step = "done" /\ click'[q].op = "none"
        /\ UNCHANGED <<book, score>> /\ ui' \in [Client -> Page]
    BY <2>1, EndPageTypes, ShowTypes
  <2>3. StepFits(q)'
    BY <2>2 DEF StepFits, Running
  <2> QED
    BY <1>0, <1>1, <2>1, <2>2, <2>3
<1>11. CASE ArchiveOther(q)
  <2>1. PICK j \in click[q].todo :
           /\ book' = IF CanEdit(click[q].client)
                      THEN [book EXCEPT ![j] = Archived(@, TRUE)] ELSE book
           /\ click' = [click EXCEPT ![q].todo = @ \ {j}]
    BY <1>11 DEF ArchiveOther
  <2>2. OnlyClick(q) /\ Carried(q) /\ click'[q].step = click[q].step
    BY <2>1, OneLess, ClickTypes
  <2>3. StepFits(q)'
    BY <1>11, <2>2
       DEF ArchiveOther, StepFits, Running, Carried, WorkflowTypes
  <2>4. book' \in [Interview -> Row]
    <3>1. j \in Interview /\ book[j] \in Row
      BY <1>0, <2>1, ClickTypes
    <3>2. Archived(book[j], TRUE) \in Row
      BY <3>1 DEF Archived, Row
    <3> QED
      BY <1>0, <2>1, <3>1, <3>2
  <2> QED
    BY <1>0, <1>1, <1>11, <2>2, <2>3, <2>4 DEF ArchiveOther
<1>12. CASE ShowDecision(q)
  <2>1. Show(q, DecisionPage(q)) /\ click[q].step = "archive"
        /\ UNCHANGED behind
    BY <1>12 DEF ShowDecision, DecisionPage
  <2>2. OnlyClick(q) /\ click'[q].step = "done" /\ click'[q].op = "none"
        /\ UNCHANGED <<book, score>> /\ ui' \in [Client -> Page]
    BY <2>1, EndPageTypes, ShowTypes
  <2>3. StepFits(q)'
    BY <2>2 DEF StepFits, Running
  <2> QED
    BY <1>0, <1>1, <2>1, <2>2, <2>3
<1>13. CASE Refuse(q) \/ Lose(q)
  <2>1. Done(q) /\ UNCHANGED <<book, score, ui>>
        /\ behind' \in {behind, behind \cup {click[q].client}}
    BY <1>13 DEF Refuse, Lose, UnchangedApi
  <2>2. OnlyClick(q) /\ click'[q].step = "done" /\ click'[q].op = "none"
    BY <2>1, Ended
  <2>3. StepFits(q)'
    BY <2>2 DEF StepFits, Running
  <2> QED
    BY <1>0, <1>1, <2>1, <2>2, <2>3
<1>14. CASE LoseClear(q)
  <2>1. OnlyClick(q) /\ Carried(q) /\ click[q].step = "clear"
        /\ click'[q].step = "reload"
        /\ UNCHANGED <<book, score, behind>> /\ CloseForm(q)
    BY <1>14, Uncleared
  <2>2. StepFits(q)'
    BY <2>1 DEF StepFits, Running, Carried, WorkflowTypes
  <2>3. ui' \in [Client -> Page]
    BY <2>1, FormClosed
  <2> QED
    BY <1>0, <1>1, <2>1, <2>2, <2>3
<1>15. CASE LoseOther(q)
  <2>1. PICK j \in click[q].todo :
           click' = [click EXCEPT ![q].todo = @ \ {j}, ![q].lost = TRUE]
    BY <1>15 DEF LoseOther
  <2>2. OnlyClick(q) /\ Carried(q) /\ click'[q].step = click[q].step
    BY <2>1, OneLess
  <2>3. StepFits(q)'
    BY <1>15, <2>2
       DEF LoseOther, StepFits, Running, Carried, WorkflowTypes
  <2> QED
    BY <1>0, <1>1, <1>15, <2>2, <2>3 DEF LoseOther, UnchangedApi
<1>16. CASE LoseList(q)
  <2>1. OnlyClick(q) /\ click'[q].step = "done" /\ click'[q].op = "none"
        /\ UNCHANGED <<book, score>> /\ ui' \in [Client -> Page]
    BY <1>16, EndPageTypes, ShowTypes DEF LoseList
  <2>2. StepFits(q)'
    BY <2>1 DEF StepFits, Running
  <2> QED
    BY <1>0, <1>1, <1>16, <2>1, <2>2 DEF LoseList
<1> QED
  BY <1>2, <1>3, <1>4, <1>5, <1>6, <1>7, <1>8, <1>9, <1>10, <1>11, <1>12,
     <1>13, <1>14, <1>15, <1>16 DEF Handle

LEMMA TypesStep ==
    ASSUME WorkflowTypes, [WorkflowNext]_workflowVars
    PROVE  WorkflowTypes'
<1>1. CASE UNCHANGED workflowVars
  BY <1>1, FitsKept DEF workflowVars, WorkflowTypes, WorkflowTypeOK
<1>2. CASE WorkflowNext
  BY <1>2, UseThePageTypes, ButtonTypes, HandleTypes DEF WorkflowNext
<1> QED
  BY <1>1, <1>2

(* Every row, matrix, page and handler of the workflow stays of its type,  *)
(* with any number of browsers and of requests under way, and each handler *)
(* is at a step of its own operation.                                      *)
THEOREM WorkflowTypesAlways == WorkflowSpec => []WorkflowTypeOK
<1>1. WorkflowInit => WorkflowTypes
  BY TypesInit
<1>2. WorkflowTypes /\ [WorkflowNext]_workflowVars => WorkflowTypes'
  BY TypesStep
<1>3. WorkflowTypes => WorkflowTypeOK
  BY DEF WorkflowTypes
<1> QED
  BY <1>1, <1>2, <1>3, PTL DEF WorkflowSpec

-----------------------------------------------------------------------------
(* A user who is alone and waits: page and tables.                         *)

LEMMA NewsSound ==
    ASSUME RowsSound, NEW i \in Interview, NEW v, News(i, v)
    PROVE  ViewSound(i, v)
BY DEF RowsSound, News, ViewSound, Label

LEMMA AlikeSound ==
    ASSUME NEW i \in Interview, NEW v, NEW w, Alike(v, w), ViewSound(i, w)
    PROVE  ViewSound(i, v)
BY DEF Alike, ViewSound

(* What holds of a page holds while the tables stay.                       *)
LEMMA PageStays ==
    ASSUME NEW page, UNCHANGED <<book, score>>, PageSound(page)
    PROVE  PageSound(page)'
BY DEF PageSound, ListSound, CardSound, MovingSound, ViewSound, Alike

LEMMA InvitedStays ==
    ASSUME NEW page, UNCHANGED book, InvitedSound(page),
           \A i \in Interview : Resetting(i) => Resetting(i)'
    PROVE  InvitedSound(page)'
BY DEF InvitedSound

(* No interview is being reset but by the handler at work.                 *)
LEMMA ResetBy ==
    ASSUME OneClick, NEW q \in Click, Running(q)
    PROVE  \A i \in Interview : Resetting(i) <=> Resets(q, i)
BY DEF OneClick, Running, Resetting, Resets

LEMMA ResetIdle ==
    ASSUME Idle
    PROVE  \A i \in Interview : ~Resetting(i)
BY DEF Idle, Running, Resetting, Resets

(* The handler of click q takes a step, and nobody else.                   *)
LEMMA OneClickStep ==
    ASSUME WorkflowTypes, OneClick, NEW q \in Click, OnlyClick(q),
           Running(q) \/ Idle
    PROVE  /\ OneClick'
           /\ \A p \in Click \ {q} : ~Running(p)'
           /\ \A i \in Interview : Resetting(i)' <=> Resets(q, i)'
<1>1. \A p \in Click \ {q} : click'[p] = click[p] /\ ~Running(p)
  BY DEF OnlyClick, OneClick, Idle, WorkflowTypes, WorkflowTypeOK
<1>2. \A p \in Click \ {q} : ~Running(p)'
  BY <1>1 DEF Running
<1>3. OneClick'
  BY <1>2 DEF OneClick
<1>4. \A i \in Interview, p \in Click \ {q} : ~Resets(p, i)'
  BY <1>2 DEF Resets, Running
<1>5. \A i \in Interview : Resetting(i)' <=> Resets(q, i)'
  BY <1>4 DEF Resetting
<1> QED
  BY <1>2, <1>3, <1>5

LEMMA SoundBy ==
    ASSUME Alone, WorkflowTypes, WorkflowSound, NEW q \in Click,
           NEW c \in Client, OnlyClick(q), Running(q) \/ Idle,
           RowsSound', PageSound(ui[c])', InvitedSound(ui[c])',
           Running(q)' => FoundSound(q)' /\ PageKept(q)' /\ ServedSound(q)'
                          /\ DecisionSound(q)'
    PROVE  WorkflowSound'
<1>1. OneClick' /\ \A p \in Click \ {q} : ~Running(p)'
  BY OneClickStep DEF WorkflowSound
<1>2. \A p \in Click : ClickSound(p)'
  BY <1>1 DEF ClickSound
<1>3. \A d \in Client : PageSound(ui[d])' /\ InvitedSound(ui[d])'
  BY DEF Alone
<1> QED
  BY <1>1, <1>2, <1>3 DEF WorkflowSound

(* One that changes nothing but what the handler holds.                    *)
LEMMA SoundHeld ==
    ASSUME Alone, WorkflowTypes, WorkflowSound, NEW q \in Click,
           OnlyClick(q), Running(q) \/ Idle, UNCHANGED <<book, score, ui>>,
           \A i \in Interview : Resetting(i) => Resets(q, i)',
           Running(q)' => FoundSound(q)' /\ PageKept(q)' /\ ServedSound(q)'
                          /\ DecisionSound(q)'
    PROVE  WorkflowSound'
<1>1. PICK c \in Client : TRUE
  BY WorkflowAssumption
<1>2. PageSound(ui'[c]) /\ InvitedSound(ui'[c]) /\ RowsSound
  BY DEF WorkflowSound
<1>3. \A i \in Interview : Resetting(i) => Resetting(i)'
  BY OneClickStep DEF WorkflowSound
<1>4. PageSound(ui[c])' /\ InvitedSound(ui[c])'
  BY <1>2, <1>3, PageStays, InvitedStays
<1>5. RowsSound'
  BY <1>2 DEF RowsSound
<1> QED
  BY <1>4, <1>5, SoundBy

(* The handler's page: the one it found, and sound.                        *)
LEMMA PageFound ==
    ASSUME WorkflowTypes, WorkflowSound, NEW q \in Click, Running(q)
    PROVE  /\ PageSound(ui[click[q].client])
           /\ InvitedSound(ui[click[q].client])
           /\ click[q].op # "Load" /\ click[q].step \notin {"reload", "list"}
                 => ui[click[q].client] = click[q].was
           /\ FoundSound(q) /\ PageKept(q) /\ ServedSound(q)
           /\ DecisionSound(q) /\ RowsSound /\ OneClick
<1>1. click[q].client \in Client /\ click[q].was \in Page
  BY ClickTypes
<1>2. ClickSound(q)
  BY DEF WorkflowSound
<1>3. click[q].op # "Load" /\ click[q].step \notin {"reload", "list"}
         => ui[click[q].client] = click[q].was
  <2> HIDE DEF View
  <2> QED
    BY <1>1, <1>2 DEF ClickSound, PageKept, Page
<1> QED
  BY <1>1, <1>2, <1>3 DEF WorkflowSound, ClickSound

LEMMA SoundInit ==
    ASSUME WorkflowInit
    PROVE  WorkflowSound
<1>2. RowsSound
  BY FirstRows DEF WorkflowInit, RowsSound
<1>3. \A q \in Click : ~Running(q)
  BY NoClickTypes DEF WorkflowInit, Running, ClickSteps
<1>4. \A i \in Interview : Listing[i].listed => News(i, Listing[i])
  BY DEF Listing, News, mapInterviewFromApi, NoView
<1>5. ASSUME NEW c \in Client
      PROVE  PageSound(ui[c]) /\ InvitedSound(ui[c])
  <2>1. ui[c].list = Listing /\ ui[c].id = NoInterview
        /\ ui[c].moving = NoInterview
    BY DEF WorkflowInit, FirstPage
  <2>2. \A i \in Interview : i # NoInterview
    BY WorkflowAssumption
  <2>3. \A i \in Interview : Listing[i].listed => ViewSound(i, Listing[i])
    BY <1>2, <1>4, NewsSound
  <2>4. InvitedSound(ui[c])
    BY <1>4, <2>1 DEF InvitedSound, News, Label
  <2> QED
    BY <2>1, <2>2, <2>3, <2>4
       DEF PageSound, ListSound, CardSound, MovingSound
<1> QED
  BY <1>2, <1>3, <1>5 DEF WorkflowSound, OneClick, ClickSound

-----------------------------------------------------------------------------
(* What the user does to the page.                                         *)

(* A page with the same list, the same card or none, and the same interview *)
(* to be moved or none.                                                    *)
LEMMA SimilarPage ==
    ASSUME NEW old, NEW new, PageSound(old), InvitedSound(old),
           new.list = old.list,
           new.id # NoInterview =>
              new.id = old.id /\ Alike(new.view, old.view),
           new.moving \in {old.moving, NoInterview}
    PROVE  PageSound(new) /\ InvitedSound(new)
<1>1. NoInterview \notin Interview
  BY WorkflowAssumption
<1>2. InvitedSound(new) /\ ListSound(new)
  BY DEF PageSound, ListSound, InvitedSound
<1>3. CardSound(new)
  BY <1>1, AlikeSound DEF PageSound, CardSound, Alike
<1>4. MovingSound(new)
  BY <1>1 DEF PageSound, MovingSound, Alike
<1> QED
  BY <1>2, <1>3, <1>4 DEF PageSound

LEMMA OpenedSound ==
    ASSUME WorkflowTypes, WorkflowSound, NEW c \in Client, UseThePage(c)
    PROVE  PageSound(ui'[c]) /\ InvitedSound(ui'[c])
<1> DEFINE old == ui[c]
           new == ui'[c]
<1> SUFFICES PageSound(new) /\ InvitedSound(new)
  OBVIOUS
<1>1. PageSound(old) /\ InvitedSound(old)
  BY DEF WorkflowSound
<1>2. ui \in [Client -> Page] /\ old \in Page
  BY DEF WorkflowTypes, WorkflowTypeOK
<1>3. NoInterview \notin Interview
  BY WorkflowAssumption
<1>4. ASSUME NEW i \in Interview, openInterviewCard(c, i)
      PROVE  PageSound(new) /\ InvitedSound(new)
  <2> DEFINE v == ui[c].list[i]
             t == ui[c].list[i].comment
  <2>1. ui' = [ui EXCEPT ![c].shown = TRUE, ![c].id = i,
                         ![c].view = v, ![c].draft = t]
        /\ old.list[i].listed /\ v = old.list[i]
    BY <1>4 DEF openInterviewCard
  <2> HIDE DEF v, t
  <2>2. new = [old EXCEPT !.shown = TRUE, !.id = i, !.view = v, !.draft = t]
    BY <1>2, <2>1
  <2>3. new.list = old.list /\ new.id = i /\ new.view = old.list[i]
        /\ new.moving = old.moving
    <3> HIDE DEF new, old, View
    <3> QED
      BY <1>2, <2>1, <2>2 DEF Page
  <2> HIDE DEF new, old
  <2> QED
    BY <1>1, <2>1, <2>3
       DEF PageSound, ListSound, CardSound, MovingSound, InvitedSound, Alike
<1>5. ASSUME NEW i \in Interview, startEditInterview(c, i)
      PROVE  PageSound(new) /\ InvitedSound(new)
  <2>1. new.list = old.list /\ new.id = old.id /\ new.view = old.view
        /\ new.moving = old.moving
    <3> HIDE DEF View
    <3> QED
      BY <1>2, <1>5 DEF startEditInterview, Page
  <2> HIDE DEF new, old
  <2> QED
    BY <1>1, <2>1, SimilarPage DEF Alike
<1>6. CASE CloseCard(c)
  <2>1. new.list = old.list /\ new.id = NoInterview
        /\ new.moving = old.moving
    <3> HIDE DEF View, NoView
    <3> QED
      BY <1>2, <1>6 DEF CloseCard, Page
  <2> HIDE DEF new, old
  <2> QED
    BY <1>1, <2>1, SimilarPage
<1>7. CASE TypeComment(c)
  <2>1. PICK text \in Text :
           ui' = [ui EXCEPT ![c].draft = text, ![c].view.comment = text]
    BY <1>7 DEF TypeComment
  <2>2. new = [old EXCEPT !.draft = text,
                          !.view = [old.view EXCEPT !.comment = text]]
    BY <1>2, <2>1 DEF Page
  <2>3. new.list = old.list /\ new.id = old.id /\ new.moving = old.moving
        /\ new.view = [old.view EXCEPT !.comment = text]
    <3> HIDE DEF View, new, old
    <3> QED
      BY <1>2, <2>2 DEF Page
  <2>4. Alike(new.view, old.view)
    <3> HIDE DEF new, old
    <3> QED
      BY <1>2, <2>3 DEF Page, View, Alike
  <2> HIDE DEF new, old
  <2> QED
    BY <1>1, <2>3, <2>4, SimilarPage
<1>8. CASE cancelEditInterview(c)
  <2>1. new.list = old.list /\ new.id = old.id /\ new.view = old.view
        /\ new.moving = old.moving
    <3> HIDE DEF View
    <3> QED
      BY <1>2, <1>8 DEF cancelEditInterview, Page
  <2> HIDE DEF new, old
  <2> QED
    BY <1>1, <2>1, SimilarPage DEF Alike
<1>9. CASE handleReschedule(c)
  <2>1. new.list = old.list /\ new.id = old.id /\ new.view = old.view
        /\ new.moving = old.id /\ old.view.decision = "NextStage"
    <3> HIDE DEF View
    <3> QED
      BY <1>2, <1>9 DEF handleReschedule, Page
  <2> HIDE DEF new, old
  <2> QED
    BY <1>1, <2>1
       DEF PageSound, ListSound, CardSound, MovingSound, InvitedSound,
           Alike, ViewSound
<1>10. CASE CancelReschedule(c)
  <2>1. new.list = old.list /\ new.id = old.id /\ new.view = old.view
        /\ new.moving = NoInterview
    <3> HIDE DEF View
    <3> QED
      BY <1>2, <1>10 DEF CancelReschedule, Page
  <2> HIDE DEF new, old
  <2> QED
    BY <1>1, <2>1, SimilarPage DEF Alike
<1> QED
  BY <1>4, <1>5, <1>6, <1>7, <1>8, <1>9, <1>10 DEF UseThePage

LEMMA Patience ==
    ASSUME Alone, Patient
    PROVE  Idle
BY DEF Alone, Patient

LEMMA UseThePageSound ==
    ASSUME Alone, WorkflowTypes, WorkflowSound, NEW c \in Client,
           UseThePage(c)
    PROVE  WorkflowSound'
<1>1. /\ UNCHANGED <<book, score, click>> /\ Idle
  BY Patience
     DEF UseThePage, openInterviewCard, CloseCard, TypeComment,
         startEditInterview, cancelEditInterview, handleReschedule,
         CancelReschedule, UnchangedApi
<1>2. PageSound(ui'[c]) /\ InvitedSound(ui'[c])
  BY OpenedSound
<1>3. \A i \in Interview : ~Resetting(i)
  BY <1>1, ResetIdle
<1>4. PageSound(ui[c])' /\ InvitedSound(ui[c])'
  BY <1>1, <1>2, <1>3, PageStays, InvitedStays
<1>5. \A d \in Client : PageSound(ui[d])' /\ InvitedSound(ui[d])'
  BY <1>4 DEF Alone
<1>6. \A q \in Click : ~Running(q)'
  BY <1>1 DEF Idle, Running
<1>7. RowsSound'
  BY <1>1 DEF WorkflowSound, RowsSound
<1> QED
  BY <1>5, <1>6, <1>7 DEF WorkflowSound, OneClick, ClickSound

-----------------------------------------------------------------------------
(* A click that sends a request.                                           *)

LEMMA SendingSound ==
    ASSUME Alone, WorkflowTypes, WorkflowSound, Patient,
           NEW q \in Click, NEW c \in Client, NEW op, NEW i \in Interview,
           NEW decision, NEW scores, SentAs(q, c, op, i, decision, scores),
           op # "Load", op = "Schedule" => ~book[i].stored,
           FoundSound(q)'
    PROVE  WorkflowSound'
<1>1. Idle /\ \A j \in Interview : ~Resetting(j)
  BY Patience, ResetIdle
<1>2. /\ OnlyClick(q) /\ UNCHANGED <<book, score, ui>>
      /\ click'[q].step = "send" /\ click'[q].op = op /\ click'[q].id = i
      /\ click'[q].was = ui[c] /\ click'[q].client = c
  BY DEF SentAs
<1>3. PageKept(q)'
  <2>1. ui[c] \in Page
    BY DEF WorkflowTypes, WorkflowTypeOK
  <2> HIDE DEF View
  <2> QED
    BY <1>2, <2>1 DEF PageKept, Page
<1>4. ServedSound(q)' /\ DecisionSound(q)'
  BY <1>2 DEF ServedSound, DecisionSound
<1> QED
  BY <1>1, <1>2, <1>3, <1>4, SoundHeld

LEMMA ButtonSound ==
    ASSUME Alone, WorkflowTypes, WorkflowSound, NEW c \in Client,
           NEW q \in Click, ClickButton(q, c)
    PROVE  WorkflowSound'
<1> DEFINE page == ui[c]
<1>0. /\ PageSound(page) /\ InvitedSound(page) /\ page \in Page
      /\ OnCard(c) => page.id \in Interview
      /\ page.editing # NoInterview => page.editing \in Interview
      /\ page.view.scores \in Matrix /\ NoMatrix \in Matrix
      /\ "Pending" \in Decision
  BY BlankTypes
     DEF WorkflowSound, WorkflowTypes, WorkflowTypeOK, OnCard, Page, View,
         Decision
(* One request about the row alone.                                        *)
<1>1. ASSUME NEW op \in Ops \ {"none", "Load", "Star", "Decide"},
             NEW i \in Interview, Plain(q, c, op, i),
             op = "Schedule" => ~book[i].stored,
             op \in {"Comment", "Complete", "Cancel", "Reschedule"} =>
                page.id = i,
             op \in {"Comment", "Complete", "Cancel"} =>
                page.view.status = "Planned",
             op = "Complete" => Rated(page.view.scores) /\ Said(page) # "",
             op \in {"Archive", "Unarchive", "Edit", "Reschedule"} =>
                page.list[i].listed,
             op = "Delete" => page.list[i].listed \/ page.id = i,
             op = "Reschedule" => page.moving = i
      PROVE  WorkflowSound'
  <2>1. Patient /\ SentAs(q, c, op, i, "Pending", NoMatrix)
    BY <1>0, <1>1, Sent DEF Plain, Send
  <2>2. op = "Schedule" => page.id # i /\ page.moving # i
    BY <1>0, <1>1 DEF PageSound, CardSound, MovingSound, ViewSound
  <2>3. FoundSound(q)'
    <3>1. /\ click'[q].op = op /\ click'[q].id = i
          /\ click'[q].was = page /\ click'[q].scores = NoMatrix
      BY <2>1 DEF SentAs
    <3> HIDE DEF page
    <3> QED
      BY <1>1, <2>2, <3>1 DEF FoundSound
  <2> HIDE DEF page
  <2> QED
    BY <1>1, <2>1, <2>3, SendingSound
<1>2. CASE saveComment(q, c)
  <2>1. OnCard(c) /\ Plain(q, c, "Comment", page.id)
        /\ page.view.status = "Planned"
    BY <1>2 DEF saveComment
  <2> HIDE DEF page
  <2> QED
    BY <1>0, <1>1, <2>1 DEF Ops
<1>3. CASE handleStarClickInterview(q, c)
  <2>1. PICK k \in Competency, s \in Star :
           /\ page.view.scores[k] # NoScore
           /\ Send(q, c, "Star", page.id, "Pending",
                   [page.view.scores EXCEPT ![k] = s])
    BY <1>3 DEF handleStarClickInterview
  <2> DEFINE scores == [page.view.scores EXCEPT ![k] = s]
  <2>2. /\ OnCard(c) /\ page.view.status = "Planned" /\ Patient
        /\ page.id \in Interview
    BY <1>0, <1>3, <2>1 DEF handleStarClickInterview, Send
  <2>3. scores \in Matrix
    BY <1>0, WorkflowAssumption DEF Matrix
  <2>4. \A j \in Competency :
           /\ scores[j] = NoScore <=> page.view.scores[j] = NoScore
           /\ page.view.scores[j] \notin {0, NoScore} => scores[j] # 0
    BY <1>0, <2>1, WorkflowAssumption DEF Matrix
  <2> HIDE DEF scores
  <2>5. SentAs(q, c, "Star", page.id, "Pending", scores)
    BY <1>0, <2>1, <2>2, <2>3, Sent DEF scores, Ops
  <2>6. FoundSound(q)'
    <3>1. /\ click'[q].op = "Star" /\ click'[q].id = page.id
          /\ click'[q].was = page /\ click'[q].scores = scores
      BY <2>5 DEF SentAs
    <3> HIDE DEF page
    <3> QED
      BY <2>2, <2>4, <3>1 DEF FoundSound
  <2> HIDE DEF page
  <2> QED
    BY <2>2, <2>5, <2>6, SendingSound
<1>4. CASE ClickComplete(q, c)
  <2>1. OnCard(c) /\ Plain(q, c, "Complete", page.id)
        /\ page.view.status = "Planned"
        /\ Rated(page.view.scores) /\ Said(page) # ""
    BY <1>4 DEF ClickComplete, Actions
  <2> HIDE DEF page
  <2> QED
    BY <1>0, <1>1, <2>1 DEF Ops
<1>5. CASE ClickCancel(q, c)
  <2>1. OnCard(c) /\ Plain(q, c, "Cancel", page.id)
        /\ page.view.status = "Planned"
    BY <1>5 DEF ClickCancel, Actions
  <2> HIDE DEF page
  <2> QED
    BY <1>0, <1>1, <2>1 DEF Ops
<1>6. CASE ClickDecide(q, c)
  <2>1. PICK decision \in Decision \ {"Pending"} :
           Send(q, c, "Decide", page.id, decision, NoMatrix)
    BY <1>6 DEF ClickDecide
  <2>2. /\ OnCard(c) /\ page.view.status = "Completed"
        /\ page.view.decision = "Pending" /\ CanDecide(c) /\ Patient
        /\ page.id \in Interview
    BY <1>0, <1>6, <2>1 DEF ClickDecide, Actions, Send
  <2>3. SentAs(q, c, "Decide", page.id, decision, NoMatrix)
    BY <1>0, <2>1, <2>2, Sent DEF Ops
  <2>4. FoundSound(q)'
    <3>1. /\ click'[q].op = "Decide" /\ click'[q].id = page.id
          /\ click'[q].was = page /\ click'[q].scores = NoMatrix
          /\ click'[q].decision = decision /\ click'[q].client = c
      BY <2>3 DEF SentAs
    <3>2. CanDecide(click'[q].client)
      BY <2>2, <3>1
    <3> HIDE DEF page
    <3> QED
      BY <2>1, <2>2, <3>1, <3>2 DEF FoundSound
  <2> HIDE DEF page
  <2> QED
    BY <2>2, <2>3, <2>4, SendingSound
<1>7. CASE handleRescheduleSubmit(q, c)
  <2>1. OnCard(c) /\ Plain(q, c, "Reschedule", page.id)
        /\ page.moving = page.id /\ page.list[page.id].listed
    BY <1>7 DEF handleRescheduleSubmit
  <2> HIDE DEF page
  <2> QED
    BY <1>0, <1>1, <2>1 DEF Ops
<1>8. CASE saveEditInterview(q, c)
  <2>1. page.editing # NoInterview /\ Plain(q, c, "Edit", page.editing)
        /\ page.list[page.editing].listed
    BY <1>8 DEF saveEditInterview
  <2> HIDE DEF page
  <2> QED
    BY <1>0, <1>1, <2>1 DEF Ops
<1>9. ASSUME NEW i \in Interview,
             \/ handleArchiveInterview(q, c, i)
             \/ handleUnarchiveInterview(q, c, i)
             \/ handleDeleteInterview(q, c, i)
             \/ handleScheduleSubmit(q, c, i)
      PROVE  WorkflowSound'
  <2>1. CASE handleArchiveInterview(q, c, i)
    <3>1. Plain(q, c, "Archive", i) /\ page.list[i].listed
      BY <2>1 DEF handleArchiveInterview
    <3> HIDE DEF page
    <3> QED
      BY <1>1, <3>1 DEF Ops
  <2>2. CASE handleUnarchiveInterview(q, c, i)
    <3>1. Plain(q, c, "Unarchive", i) /\ page.list[i].listed
      BY <2>2 DEF handleUnarchiveInterview
    <3> HIDE DEF page
    <3> QED
      BY <1>1, <3>1 DEF Ops
  <2>3. CASE handleDeleteInterview(q, c, i)
    <3>1. Plain(q, c, "Delete", i) /\ (page.list[i].listed \/ page.id = i)
      BY <2>3 DEF handleDeleteInterview
    <3> HIDE DEF page
    <3> QED
      BY <1>1, <3>1 DEF Ops
  <2>4. CASE handleScheduleSubmit(q, c, i)
    <3>1. Plain(q, c, "Schedule", i) /\ ~book[i].stored
      BY <2>4 DEF handleScheduleSubmit
    <3> HIDE DEF page
    <3> QED
      BY <1>1, <3>1 DEF Ops
  <2> QED
    BY <1>9, <2>1, <2>2, <2>3, <2>4
<1>10. CASE loadData(q, c)
  <2>1. /\ OnlyClick(q) /\ UNCHANGED <<book, score, behind>>
        /\ click'[q].step = "send" /\ click'[q].client = c
        /\ click'[q].op = "Load" /\ click'[q].scores = NoMatrix
        /\ ui' = [ui EXCEPT ![c] = [page EXCEPT
              !.shown = FALSE, !.id = NoInterview, !.view = NoView,
              !.moving = NoInterview]]
    BY <1>10, Loading
  <2>2. Idle /\ \A i \in Interview : ~Resetting(i)
    BY <1>10, Patience, ResetIdle DEF loadData
  <2>3. ui'[c].list = page.list /\ ui'[c].id = NoInterview
        /\ ui'[c].moving = NoInterview
    <3>1. ui'[c] = [page EXCEPT
              !.shown = FALSE, !.id = NoInterview, !.view = NoView,
              !.moving = NoInterview]
      BY <2>1 DEF WorkflowTypes, WorkflowTypeOK
    <3> HIDE DEF View, NoView, page
    <3> QED
      BY <1>0, <3>1 DEF Page
  <2>4. PageSound(ui'[c]) /\ InvitedSound(ui'[c])
    <3> HIDE DEF page
    <3> QED
      BY <1>0, <2>3, SimilarPage
  <2>5. PageSound(ui[c])' /\ InvitedSound(ui[c])'
    BY <2>1, <2>2, <2>4, PageStays, InvitedStays
  <2>6. FoundSound(q)' /\ ServedSound(q)' /\ DecisionSound(q)'
    BY <2>1 DEF FoundSound, ServedSound, DecisionSound
  <2>7. PageKept(q)'
    BY <2>1, <2>3 DEF PageKept
  <2>8. RowsSound'
    BY <2>1 DEF WorkflowSound, RowsSound
  <2> QED
    BY <2>1, <2>2, <2>5, <2>6, <2>7, <2>8, SoundBy
<1> QED
  BY <1>2, <1>3, <1>4, <1>5, <1>6, <1>7, <1>8, <1>9, <1>10 DEF ClickButton

-----------------------------------------------------------------------------
(* The API serves a request.                                               *)

(* A row is written: what is shown of it has to be borne by what it now    *)
(* is; of the others nothing changes.                                      *)
LEMMA PageBorne ==
    ASSUME NEW page, NEW i \in Interview, PageSound(page),
           \A j \in Interview \ {i} :
               book'[j] = book[j] /\ score'[j] = score[j],
           page.list[i].listed => ViewSound(i, page.list[i])',
           page.id = i => ViewSound(i, page.view)',
           page.moving = i => book'[i].stored
    PROVE  PageSound(page)'
<1>1. \A v : \A j \in Interview \ {i} : ViewSound(j, v) => ViewSound(j, v)'
  BY DEF ViewSound
<1>2. ListSound(page)'
  BY <1>1 DEF PageSound, ListSound
<1>3. CardSound(page)'
  BY <1>1 DEF PageSound, CardSound, Alike
<1>4. MovingSound(page)'
  BY DEF PageSound, MovingSound
<1> QED
  BY <1>2, <1>3, <1>4 DEF PageSound

LEMMA RewrittenRow ==
    ASSUME WorkflowTypes, NEW q \in Click, NEW r \in Row,
           Running(q), click[q].op \notin {"Load", "Schedule", "Reschedule"}
    PROVE  LET s == Rewritten(q, r)
               op == click[q].op
           IN  /\ s.stored = r.stored
               /\ op = "Comment" => s.status = click[q].was.view.status
                                    /\ s.decision = r.decision
               /\ op = "Complete" => s.status = "Completed"
                                     /\ s.decision = r.decision
                                     /\ s.comment = Said(click[q].was)
               /\ op = "Cancel" => s.status = "Cancelled"
                                   /\ s.decision = "Pending"
               /\ op = "Decide" => s.status = "Completed"
                                   /\ s.decision = click[q].decision
               /\ op \in {"Star", "Archive", "Unarchive", "Edit", "Delete"}
                     => s.status = r.status /\ s.decision = r.decision
<1>1. Said(click[q].was) # Keep /\ click[q].decision # Keep
  <2>1. click[q].was \in Page /\ click[q].was.view \in View
        /\ click[q].decision \in Decision
    BY ClickTypes
  <2>2. click[q].was.draft \in Text /\ click[q].was.view.comment \in Text
    BY <2>1 DEF Page, View
  <2> QED
    BY <2>1, <2>2 DEF Said, Text, Decision, Keep
<1>2. click[q].op \in {"Comment", "Star", "Complete", "Cancel", "Decide",
                       "Archive", "Unarchive", "Edit", "Delete"}
  BY ClickTypes DEF WorkflowTypes, StepFits, Ops
<1> QED
  BY <1>1, <1>2
     DEF Rewritten, StatusSet, Decided, Archived, Given, Row, Keep

(* What Serve writes.                                                      *)
LEMMA ServedRow ==
    ASSUME WorkflowTypes, NEW q \in Click, Serve(q)
    PROVE  LET i == click[q].id IN
           /\ Running(q) /\ i \in Interview /\ book[i] \in Row
           /\ click[q].op \notin {"Load", "Schedule", "Reschedule"}
           /\ OnlyClick(q) /\ Carried(q) /\ UNCHANGED <<ui, behind>>
           /\ click[q].step = "send" /\ click'[q].step = "answer"
           /\ book' = [book EXCEPT ![i] = Rewritten(q, book[i])]
           /\ score' = [score EXCEPT ![i] =
                           Marked(score[i], click[q].scores)]
           /\ click'[q].answer =
                 mapInterviewFromApi(Rewritten(q, book[i]),
                                     Marked(score[i], click[q].scores))
           /\ book'[i] = Rewritten(q, book[i])
           /\ score'[i] = Marked(score[i], click[q].scores)
           /\ \A j \in Interview \ {i} :
                 book'[j] = book[j] /\ score'[j] = score[j]
<1>1. Running(q) /\ click[q].op \notin {"Load", "Schedule", "Reschedule"}
      /\ click[q].id \in Interview
  BY DEF Serve, Running, WorkflowTypes, StepFits
<1>2. /\ book \in [Interview -> Row] /\ score \in [Interview -> Matrix]
      /\ click[q].scores \in Matrix
  BY ClickTypes DEF WorkflowTypes, WorkflowTypeOK
<1>3. Rewritten(q, book[click[q].id]) \in Row
      /\ Marked(score[click[q].id], click[q].scores) \in Matrix
  BY <1>1, <1>2, RewrittenTypes, MarkedTypes DEF Serve
<1> HIDE DEF Row, Matrix
<1>4. /\ OnlyClick(q) /\ Carried(q) /\ click'[q].step = "answer"
      /\ book' = [book EXCEPT ![click[q].id] = Rewritten(q, book[click[q].id])]
      /\ score' = [score EXCEPT ![click[q].id] =
                      Marked(score[click[q].id], click[q].scores)]
      /\ click'[q].answer =
            mapInterviewFromApi(Rewritten(q, book[click[q].id]),
                            Marked(score[click[q].id], click[q].scores))
  BY <1>1, <1>3, Written DEF Serve, ClickSteps
<1> QED
  BY <1>1, <1>2, <1>4 DEF Serve

(* A view that was borne, of an interview whose card the button was on, is *)
(* borne by the row that the button makes.                                 *)
LEMMA ServedView ==
    ASSUME WorkflowTypes, NEW q \in Click, Serve(q), FoundSound(q),
           NEW i \in Interview, i = click[q].id,
           NEW v, ViewSound(i, v),
           click[q].op \in {"Comment", "Star", "Complete", "Cancel", "Decide"}
              => Alike(v, click[q].was.view)
    PROVE  ViewSound(i, v)'
<1> DEFINE op == click[q].op
<1>1. /\ i \in Interview /\ book[i] \in Row /\ score[i] \in Matrix
      /\ book'[i] = Rewritten(q, book[i])
      /\ score'[i] = Marked(score[i], click[q].scores)
      /\ Running(q) /\ op \notin {"Load", "Schedule", "Reschedule"}
  BY ServedRow DEF WorkflowTypes, WorkflowTypeOK
<1>2. op \in {"Comment", "Star", "Complete", "Cancel", "Decide", "Archive",
              "Unarchive", "Edit", "Delete"}
  BY <1>1, ClickTypes DEF WorkflowTypes, StepFits, Ops
<1>3. \A k \in Competency :
         /\ v.scores[k] = NoScore <=> score'[i][k] = NoScore
         /\ v.status = "Planned" /\ v.scores[k] \notin {0, NoScore} =>
               score'[i][k] # 0
  <2>1. CASE op = "Star"
    <3>1. \A k \in Competency :
             /\ click[q].scores[k] = NoScore <=> v.scores[k] = NoScore
             /\ v.scores[k] \notin {0, NoScore} => click[q].scores[k] # 0
      BY <2>1 DEF FoundSound, Alike
    <3> QED
      BY <1>1, <3>1 DEF ViewSound, Marked
  <2>2. CASE op # "Star"
    <3>1. score'[i] = score[i]
      BY <1>1, <2>2 DEF FoundSound, NoMatrix, Marked, Matrix
    <3> QED
      BY <3>1 DEF ViewSound
  <2> QED
    BY <2>1, <2>2
<1>4. /\ book'[i].stored = book[i].stored
      /\ op = "Comment" => book'[i].status = click[q].was.view.status
                           /\ book'[i].decision = book[i].decision
      /\ op = "Complete" => book'[i].status = "Completed"
                            /\ book'[i].decision = book[i].decision
      /\ op = "Cancel" => book'[i].decision = "Pending"
      /\ op = "Decide" => book'[i].status = "Completed"
      /\ op \in {"Star", "Archive", "Unarchive", "Edit", "Delete"} =>
            book'[i].status = book[i].status
            /\ book'[i].decision = book[i].decision
  BY <1>1, RewrittenRow
<1>5. /\ v.status = "Planned" =>
            v.decision = "Pending" /\ book'[i].decision = "Pending"
      /\ v.status = "Completed" /\ v.decision = "Pending" =>
            book'[i].status = "Completed"
  BY <1>2, <1>4 DEF FoundSound, ViewSound, Alike
<1>6. book'[i].stored
  BY <1>4 DEF ViewSound
<1> QED
  BY <1>3, <1>5, <1>6 DEF ViewSound

LEMMA ServeSound ==
    ASSUME Alone, WorkflowTypes, WorkflowSound, NEW q \in Click, Serve(q)
    PROVE  WorkflowSound'
<1> DEFINE op == click[q].op
           was == click[q].was
<1>1. PICK i \in Interview, c \in Client, page \in Page :
         i = click[q].id /\ c = click[q].client /\ page = ui[c]
  BY ServedRow, ClickTypes
<1>2. /\ Running(q) /\ op \notin {"Load", "Schedule", "Reschedule"}
      /\ OnlyClick(q) /\ Carried(q) /\ UNCHANGED <<ui, behind>>
      /\ click[q].step = "send" /\ click'[q].step = "answer"
      /\ book'[i] = Rewritten(q, book[i])
      /\ score'[i] = Marked(score[i], click[q].scores)
      /\ click'[q].answer = mapInterviewFromApi(book'[i], score'[i])
      /\ \A j \in Interview \ {i} :
            book'[j] = book[j] /\ score'[j] = score[j]
  BY <1>1, ServedRow
<1>3. /\ page = was /\ PageSound(page) /\ InvitedSound(page)
      /\ FoundSound(q) /\ PageKept(q) /\ RowsSound /\ OneClick
  BY <1>1, <1>2, PageFound
<1>4. book[i] \in Row /\ score[i] \in Matrix
  BY DEF WorkflowTypes, WorkflowTypeOK
<1>5. op \in {"Comment", "Star", "Complete", "Cancel", "Decide", "Archive",
              "Unarchive", "Edit", "Delete"}
  BY <1>2, ClickTypes DEF WorkflowTypes, StepFits, Ops
<1>6. /\ op \in {"Comment", "Star", "Complete", "Cancel", "Decide"} =>
            page.id = i
      /\ op \in {"Archive", "Unarchive", "Edit"} => page.list[i].listed
      /\ op = "Delete" => page.list[i].listed \/ page.id = i
  BY <1>1, <1>3 DEF FoundSound
<1>7. book[i].stored
  BY <1>3, <1>5, <1>6 DEF PageSound, ListSound, CardSound, ViewSound
<1>8. /\ book'[i].stored = book[i].stored
      /\ op = "Comment" => book'[i].status = was.view.status
                           /\ book'[i].decision = book[i].decision
      /\ op = "Complete" => book'[i].status = "Completed"
                            /\ book'[i].decision = book[i].decision
      /\ op = "Cancel" => book'[i].status = "Cancelled"
                          /\ book'[i].decision = "Pending"
      /\ op = "Decide" => book'[i].status = "Completed"
      /\ op \in {"Star", "Archive", "Unarchive", "Edit", "Delete"} =>
            book'[i].status = book[i].status
            /\ book'[i].decision = book[i].decision
  BY <1>2, <1>4, RewrittenRow
<1>9. /\ op \in {"Comment", "Complete", "Cancel"} =>
            was.view.status = "Planned" /\ was.view.decision = "Pending"
            /\ book[i].decision = "Pending"
      /\ op = "Decide" => was.view.decision = "Pending"
  BY <1>3, <1>6 DEF FoundSound, PageSound, CardSound, ViewSound
<1>10. RowsSound'
  <2>1. book'[i].status = "Planned" => book'[i].decision = "Pending"
    BY <1>3, <1>5, <1>8, <1>9 DEF RowsSound
  <2> QED
    BY <1>2, <1>3, <2>1 DEF RowsSound
<1>11. PageSound(ui[c])'
  <2>1. ASSUME page.list[i].listed
        PROVE  ViewSound(i, page.list[i])'
    <3>1. PICK v : v = page.list[i]
      OBVIOUS
    <3>2. ViewSound(i, v) /\ (page.id = i => Alike(v, was.view))
      BY <1>3, <2>1, <3>1 DEF PageSound, ListSound, CardSound, Alike
    <3>3. ViewSound(i, v)'
      BY <1>1, <1>3, <1>6, <3>2, ServedView
    <3> QED
      BY <3>1, <3>3
  <2>2. ASSUME page.id = i
        PROVE  ViewSound(i, page.view)'
    <3>1. PICK v : v = page.view
      OBVIOUS
    <3>2. ViewSound(i, v) /\ Alike(v, was.view)
      BY <1>3, <2>2, <3>1 DEF PageSound, CardSound, Alike
    <3>3. ViewSound(i, v)'
      BY <1>1, <1>3, <3>2, ServedView
    <3> QED
      BY <3>1, <3>3
  <2> HIDE DEF op, was
  <2>3. PageSound(page)'
    BY <1>2, <1>3, <1>7, <1>8, <2>1, <2>2, PageBorne
  <2>4. page = ui'[c]
    BY <1>1, <1>2
  <2> QED
    BY <2>3, <2>4
<1>12. InvitedSound(ui[c])'
  <2>1. \A j \in Interview : ~Resetting(j)
    BY <1>2, <1>3, ResetBy DEF Resets
  <2>2. ASSUME page.list[i].listed, page.list[i].decision = "NextStage"
        PROVE  book'[i].decision = "NextStage"
    <3>1. book[i].decision = "NextStage"
      BY <1>3, <2>1, <2>2 DEF InvitedSound
    <3>2. op \notin {"Comment", "Complete", "Cancel", "Decide"}
      BY <1>3, <1>6, <1>9, <2>2 DEF PageSound, CardSound, Alike
    <3> QED
      BY <1>5, <1>8, <3>1, <3>2
  <2>3. ui'[c] = page
    BY <1>1, <1>2
  <2>4. \A j \in Interview \ {i} :
           page.list[j].listed /\ page.list[j].decision = "NextStage" =>
              book'[j].decision = "NextStage"
    BY <1>2, <1>3, <2>1 DEF InvitedSound
  <2> QED
    BY <2>2, <2>3, <2>4 DEF InvitedSound
<1>13. FoundSound(q)' /\ PageKept(q)' /\ ServedSound(q)' /\ DecisionSound(q)'
  <2>1. FoundSound(q)'
    BY <1>2, <1>3 DEF FoundSound, Carried
  <2>2. PageKept(q)'
    BY <1>2, <1>3 DEF PageKept, Carried
  <2>3. News(i, click[q].answer)'
    BY <1>2, <1>7, <1>8 DEF News, mapInterviewFromApi
  <2>4. op = "Comment" => book'[i].status = "Planned"
    BY <1>8, <1>9
  <2>5. ServedSound(q)' /\ DecisionSound(q)'
    <3>1. click'[q].id = i /\ click'[q].op = op
      BY <1>1, <1>2 DEF Carried
    <3> QED
      BY <1>2, <2>3, <2>4, <3>1 DEF ServedSound, DecisionSound
  <2> QED
    BY <2>1, <2>2, <2>5
<1> QED
  BY <1>2, <1>10, <1>11, <1>12, <1>13, SoundBy

LEMMA ServeScheduleSound ==
    ASSUME Alone, WorkflowTypes, WorkflowSound, NEW q \in Click,
           ServeSchedule(q)
    PROVE  WorkflowSound'
<1>0. PICK m \in {NoMatrix, Zeros} : Write(q, NewRow, m, "answer")
  BY DEF ServeSchedule
<1>2. Running(q) /\ click[q].op = "Schedule" /\ click[q].step = "send"
      /\ UNCHANGED <<ui, behind>>
  BY DEF ServeSchedule, Running
<1>1. PICK i \in Interview, c \in Client, page \in Page :
         i = click[q].id /\ c = click[q].client /\ page = ui[c]
  BY <1>2, ClickTypes
<1>3. /\ OnlyClick(q) /\ Carried(q) /\ click'[q].step = "answer"
      /\ click'[q].answer = mapInterviewFromApi(NewRow, m)
      /\ book' = [book EXCEPT ![i] = NewRow]
      /\ score' = [score EXCEPT ![i] = m]
  <2>1. NewRow \in Row /\ m \in Matrix
    BY <1>0, RowTypes, BlankTypes
  <2> QED
    BY <1>0, <1>1, <1>2, <2>1, Written DEF ClickSteps
<1>4. /\ book'[i] = NewRow /\ score'[i] = m
      /\ \A j \in Interview \ {i} :
            book'[j] = book[j] /\ score'[j] = score[j]
  BY <1>3 DEF WorkflowTypes, WorkflowTypeOK
<1>5. /\ page = click[q].was /\ PageSound(page) /\ InvitedSound(page)
      /\ FoundSound(q) /\ PageKept(q) /\ RowsSound /\ OneClick
      /\ ~book[i].stored
  BY <1>1, <1>2, PageFound DEF ServedSound
<1>6. RowsSound'
  <2>1. NewRow.decision = "Pending"
    BY DEF NewRow
  <2> QED
    BY <1>4, <1>5, <2>1 DEF RowsSound
<1>7. ~page.list[i].listed /\ page.id # i /\ page.moving # i
  BY <1>5 DEF PageSound, ListSound, CardSound, MovingSound, ViewSound
<1>8. PageSound(ui[c])'
  <2>1. PageSound(page)'
    BY <1>4, <1>5, <1>7, PageBorne
  <2> QED
    BY <1>1, <1>2, <2>1
<1>9. InvitedSound(ui[c])'
  <2>1. \A j \in Interview : ~Resetting(j)
    BY <1>2, <1>5, ResetBy DEF Resets
  <2>2. \A j \in Interview :
           page.list[j].listed /\ page.list[j].decision = "NextStage" =>
              book'[j].decision = "NextStage"
    BY <1>4, <1>5, <1>7, <2>1 DEF InvitedSound
  <2> QED
    BY <1>1, <1>2, <2>2 DEF InvitedSound
<1>10. FoundSound(q)' /\ PageKept(q)' /\ ServedSound(q)' /\ DecisionSound(q)'
  <2>1. FoundSound(q)'
    BY <1>3, <1>5 DEF FoundSound, Carried
  <2>2. PageKept(q)'
    BY <1>2, <1>3, <1>5 DEF PageKept, Carried
  <2>3. click'[q].id = i /\ click'[q].op = "Schedule"
    BY <1>1, <1>2, <1>3 DEF Carried
  <2>4. News(i, click[q].answer)'
    <3>1. NewRow.stored
      BY DEF NewRow
    <3> QED
      BY <1>3, <1>4, <3>1 DEF News, mapInterviewFromApi
  <2> QED
    BY <1>3, <2>1, <2>2, <2>3, <2>4 DEF ServedSound, DecisionSound
<1> QED
  BY <1>2, <1>3, <1>6, <1>8, <1>9, <1>10, SoundBy

LEMMA ServeMoveSound ==
    ASSUME Alone, WorkflowTypes, WorkflowSound, NEW q \in Click, ServeMove(q)
    PROVE  WorkflowSound'
<1>1. Running(q) /\ click[q].op = "Reschedule" /\ click[q].step = "send"
      /\ UNCHANGED <<ui, behind>>
  BY DEF ServeMove, Running
<1>2. PICK i \in Interview, c \in Client, page \in Page :
         i = click[q].id /\ c = click[q].client /\ page = ui[c]
  BY <1>1, ClickTypes
<1>3. /\ book \in [Interview -> Row] /\ score \in [Interview -> Matrix]
  BY DEF WorkflowTypes, WorkflowTypeOK
<1>4. PICK row \in Row : /\ row = [book[i] EXCEPT !.comment = ""]
                       /\ Write(q, row, score[i], "reset")
  <2>1. [book[i] EXCEPT !.comment = ""] \in Row
    BY <1>3 DEF Row, Text
  <2> QED
    BY <1>2, <2>1 DEF ServeMove
<1>5. /\ OnlyClick(q) /\ Carried(q) /\ click'[q].step = "reset"
      /\ book' = [book EXCEPT ![i] = row]
      /\ score' = [score EXCEPT ![i] = score[i]]
  <2>1. score[i] \in Matrix /\ "reset" \in ClickSteps
    BY <1>3 DEF ClickSteps
  <2>2. Running(q) /\ click[q].op # "Load"
        /\ Write(q, row, score[i], "reset")
    BY <1>1, <1>4
  <2>3. /\ OnlyClick(q) /\ Carried(q) /\ click'[q].step = "reset"
        /\ book' = [book EXCEPT ![click[q].id] = row]
        /\ score' = [score EXCEPT ![click[q].id] = score[i]]
    BY <2>1, <2>2, Written
  <2> QED
    BY <1>2, <2>3
<1>6. /\ book'[i] = row /\ score'[i] = score[i]
      /\ \A j \in Interview \ {i} :
            book'[j] = book[j] /\ score'[j] = score[j]
  BY <1>3, <1>5
<1>7. /\ row.stored = book[i].stored /\ row.status = book[i].status
      /\ row.decision = book[i].decision
  BY <1>3, <1>4 DEF Row
<1>8. /\ page = click[q].was /\ PageSound(page) /\ InvitedSound(page)
      /\ FoundSound(q) /\ PageKept(q) /\ RowsSound /\ OneClick
  BY <1>1, <1>2, PageFound
<1>9. RowsSound'
  BY <1>6, <1>7, <1>8 DEF RowsSound
<1>10. PageSound(ui[c])'
  <2>1. \A v : ViewSound(i, v) => ViewSound(i, v)'
    BY <1>6, <1>7 DEF ViewSound
  <2>2. PageSound(page)'
    BY <1>6, <1>7, <1>8, <2>1, PageBorne
       DEF PageSound, ListSound, CardSound, MovingSound
  <2> QED
    BY <1>1, <1>2, <2>2
<1>11. InvitedSound(ui[c])'
  <2>1. \A j \in Interview : ~Resetting(j)
    BY <1>1, <1>8, ResetBy DEF Resets
  <2>2. \A j \in Interview : book'[j].decision = book[j].decision
    BY <1>6, <1>7
  <2> QED
    BY <1>1, <1>2, <1>8, <2>1, <2>2 DEF InvitedSound
<1>12. FoundSound(q)' /\ PageKept(q)' /\ ServedSound(q)' /\ DecisionSound(q)'
  <2>1. FoundSound(q)'
    BY <1>5, <1>8 DEF FoundSound, Carried
  <2>2. PageKept(q)'
    BY <1>1, <1>5, <1>8 DEF PageKept, Carried
  <2> QED
    BY <1>5, <2>1, <2>2 DEF ServedSound, DecisionSound
<1> QED
  BY <1>1, <1>5, <1>9, <1>10, <1>11, <1>12, SoundBy

(* What the page shows of an interview that is being moved: the list has   *)
(* it, invited to the next stage, and so has the card.                     *)
LEMMA MovedFound ==
    ASSUME WorkflowTypes, WorkflowSound, NEW q \in Click,
           click[q].step \in {"reset", "clear"}
    PROVE  LET i == click[q].id
               page == ui[click[q].client]
           IN  /\ Running(q) /\ click[q].op = "Reschedule"
               /\ i \in Interview /\ page = click[q].was
               /\ page.list[i].listed /\ page.id = i /\ page.moving = i
               /\ ViewSound(i, page.list[i]) /\ ViewSound(i, page.view)
               /\ Alike(page.view, page.list[i])
               /\ page.list[i].decision = "NextStage"
               /\ book[i].stored
<1>1. Running(q) /\ click[q].op = "Reschedule"
  BY DEF Running, WorkflowTypes, StepFits
<1>2. click[q].id \in Interview
  BY <1>1, ClickTypes
<1>3. PICK i \in Interview, page \in Page :
         i = click[q].id /\ page = ui[click[q].client]
  BY <1>2, ClickTypes
<1>4. /\ page = click[q].was /\ PageSound(page) /\ FoundSound(q)
  BY <1>1, <1>3, PageFound
<1>5. page.list[i].listed /\ page.id = i /\ page.moving = i
  BY <1>1, <1>3, <1>4 DEF FoundSound
<1>6. /\ ViewSound(i, page.list[i]) /\ ViewSound(i, page.view)
      /\ Alike(page.view, page.list[i])
      /\ page.list[i].decision = "NextStage" /\ book[i].stored
  BY <1>4, <1>5 DEF PageSound, ListSound, CardSound, MovingSound
<1> QED
  BY <1>1, <1>3, <1>4, <1>5, <1>6

(* The form to move the interview is closed or left open.                  *)
LEMMA FormPage ==
    ASSUME WorkflowTypes, NEW q \in Click, UNCHANGED ui \/ CloseForm(q)
    PROVE  LET old == ui[click[q].client]
               new == ui'[click[q].client]
           IN  /\ new.list = old.list /\ new.id = old.id
               /\ new.view = old.view
               /\ new.moving \in {old.moving, NoInterview}
               /\ CloseForm(q) =>
                     new = [old EXCEPT !.moving = NoInterview, !.text = NoText]
<1> DEFINE c == click[q].client
<1>1. ui \in [Client -> Page] /\ c \in Client /\ ui[c] \in Page
  BY ClickTypes DEF WorkflowTypes, WorkflowTypeOK
<1> HIDE DEF c
<1>2. ASSUME CloseForm(q)
      PROVE  ui'[c] = [ui[c] EXCEPT !.moving = NoInterview, !.text = NoText]
  <2>1. ui' = [ui EXCEPT ![c] = [ui[c] EXCEPT !.moving = NoInterview,
                                              !.text = NoText]]
    BY <1>2, FormClosed DEF c
  <2> QED
    BY <1>1, <2>1
<1>3. CASE UNCHANGED ui
  BY <1>2, <1>3 DEF c
<1>4. CASE CloseForm(q)
  <2>1. ui'[c].list = ui[c].list /\ ui'[c].id = ui[c].id
        /\ ui'[c].view = ui[c].view /\ ui'[c].moving = NoInterview
    <3> HIDE DEF View
    <3> QED
      BY <1>1, <1>2, <1>4 DEF Page
  <2> QED
    BY <1>2, <2>1 DEF c
<1> QED
  BY <1>3, <1>4

(* The handler that moves an interview writes its row and closes the form, *)
(* or leaves it open.                                                      *)
LEMMA MovedPage ==
    ASSUME WorkflowTypes, WorkflowSound, NEW q \in Click,
           click[q].step \in {"reset", "clear"},
           NEW i \in Interview, i = click[q].id,
           NEW c \in Client, c = click[q].client,
           UNCHANGED ui \/ CloseForm(q),
           \A j \in Interview \ {i} :
               book'[j] = book[j] /\ score'[j] = score[j],
           book'[i].stored = book[i].stored,
           \A k \in Competency :
               score'[i][k] = NoScore <=> score[i][k] = NoScore
    PROVE  PageSound(ui[c])'
<1>1. PICK old, new : old = ui[c] /\ new = ui'[c]
  OBVIOUS
<1>2. /\ old.list[i].listed /\ old.id = i
      /\ ViewSound(i, old.list[i]) /\ Alike(old.view, old.list[i])
      /\ old.list[i].decision = "NextStage" /\ book[i].stored
      /\ Running(q)
  BY <1>1, MovedFound
<1>3. /\ new.list = old.list /\ new.id = old.id /\ new.view = old.view
      /\ new.moving \in {old.moving, NoInterview}
  BY <1>1, FormPage
<1>4. PageSound(old) /\ InvitedSound(old)
  BY <1>1 DEF WorkflowSound
<1>5. PageSound(new)
  BY <1>3, <1>4, SimilarPage DEF Alike
<1>6. ASSUME NEW v, Alike(v, old.list[i])
      PROVE  ViewSound(i, v)'
  <2>1. ViewSound(i, v) /\ v.decision = "NextStage"
    BY <1>2, <1>6, AlikeSound DEF Alike
  <2> QED
    BY <2>1 DEF ViewSound
<1>7. PageSound(new)'
  <2>1. Alike(new.list[i], old.list[i]) /\ Alike(new.view, old.list[i])
    BY <1>2, <1>3 DEF Alike
  <2> QED
    BY <1>2, <1>5, <1>6, <2>1, PageBorne
<1> QED
  BY <1>1, <1>7

LEMMA ServeResetSound ==
    ASSUME Alone, WorkflowTypes, WorkflowSound, NEW q \in Click,
           ServeReset(q)
    PROVE  WorkflowSound'
<1>1. click[q].step = "reset" /\ UNCHANGED behind
      /\ (HasMatrix(q) => UNCHANGED ui) /\ (~HasMatrix(q) => CloseForm(q))
  BY DEF ServeReset
<1>2. PICK i \in Interview, c \in Client, page \in Page :
         i = click[q].id /\ c = click[q].client /\ page = ui[c]
  BY <1>1, MovedFound, ClickTypes
<1>3. /\ Running(q) /\ click[q].op = "Reschedule" /\ page = click[q].was
      /\ ViewSound(i, page.list[i]) /\ book[i].stored
  BY <1>1, <1>2, MovedFound
<1>4. /\ book \in [Interview -> Row] /\ score \in [Interview -> Matrix]
  BY DEF WorkflowTypes, WorkflowTypeOK
<1>5. PICK row \in Row, step \in ClickSteps :
         /\ row.stored = book[i].stored /\ row.status = "Planned"
         /\ row.decision = "Pending" /\ row.comment = ""
         /\ step = IF HasMatrix(q) THEN "clear" ELSE "reload"
         /\ Write(q, row, score[i], step)
  <2> DEFINE r == StatusSet(book[i], "Planned", "Pending", "")
             next == IF HasMatrix(q) THEN "clear" ELSE "reload"
  <2>1. /\ r \in Row /\ r.stored = book[i].stored /\ r.status = "Planned"
        /\ r.decision = "Pending" /\ r.comment = ""
    BY <1>4 DEF StatusSet, Given, Keep, Row, Status, Decision, Text
  <2>2. Write(q, r, score[i], next) /\ next \in ClickSteps
    BY <1>2 DEF ServeReset, ClickSteps
  <2> HIDE DEF r, next
  <2> QED
    BY <2>1, <2>2 DEF next
<1>6. /\ OnlyClick(q) /\ Carried(q) /\ click'[q].step = step
      /\ click'[q].lost = click[q].lost
      /\ book' = [book EXCEPT ![i] = row]
      /\ score' = [score EXCEPT ![i] = score[i]]
  <2>1. score[i] \in Matrix /\ Write(q, row, score[i], step)
        /\ click[q].op # "Load"
    BY <1>3, <1>4, <1>5
  <2>2. /\ OnlyClick(q) /\ Carried(q) /\ click'[q].step = step
        /\ click'[q].lost = click[q].lost
        /\ book' = [book EXCEPT ![click[q].id] = row]
        /\ score' = [score EXCEPT ![click[q].id] = score[i]]
    BY <1>3, <2>1, Written
  <2> QED
    BY <1>2, <2>2
<1>7. /\ book'[i] = row /\ score'[i] = score[i]
      /\ \A j \in Interview \ {i} :
            book'[j] = book[j] /\ score'[j] = score[j]
  BY <1>4, <1>6
<1>8. /\ InvitedSound(page) /\ FoundSound(q) /\ PageKept(q) /\ RowsSound
      /\ OneClick
  BY <1>2, <1>3, PageFound
<1>9. RowsSound'
  BY <1>5, <1>7, <1>8 DEF RowsSound
<1>10. PageSound(ui[c])'
  BY <1>1, <1>2, <1>5, <1>7, MovedPage
<1>11. click'[q].step \in {"clear", "reload"} /\ click'[q].id = i
       /\ click'[q].op = "Reschedule" /\ click'[q].client = c
       /\ click'[q].was = page
  BY <1>2, <1>3, <1>5, <1>6 DEF Carried
<1>12. ui'[c].list = page.list
       /\ (step = "clear" => ui'[c] = page)
       /\ (step = "reload" => ui'[c] = [page EXCEPT !.moving = NoInterview,
                                                     !.text = NoText])
  BY <1>1, <1>2, <1>5, FormPage
<1>13. InvitedSound(ui[c])'
  <2>1. Resetting(i)'
    BY <1>11 DEF Resetting, Resets
  <2>2. \A j \in Interview : ~Resetting(j)
    BY <1>1, <1>3, <1>8, ResetBy DEF Resets
  <2>3. \A j \in Interview \ {i} : book'[j] = book[j]
    BY <1>7
  <2> QED
    BY <1>8, <1>12, <2>1, <2>2, <2>3 DEF InvitedSound
<1>14. FoundSound(q)' /\ PageKept(q)' /\ ServedSound(q)' /\ DecisionSound(q)'
  <2>1. FoundSound(q)'
    BY <1>6, <1>8 DEF FoundSound, Carried
  <2>2. PageKept(q)'
    BY <1>5, <1>6, <1>11, <1>12 DEF PageKept
  <2>3. step = "reload" => \A k \in Competency : score'[i][k] = NoScore
    <3>1. step = "reload" => page.list[i].scores = NoMatrix
      BY <1>2, <1>3, <1>5 DEF HasMatrix
    <3> QED
      BY <1>3, <1>7, <3>1 DEF ViewSound, NoMatrix
  <2>4. ServedSound(q)'
    <3>1. /\ book'[i].status = "Planned" /\ book'[i].decision = "Pending"
          /\ book'[i].comment = ""
      BY <1>5, <1>7
    <3>2. click'[q].step # "clear" =>
             \A k \in Competency : score'[i][k] \in {0, NoScore}
      BY <1>6, <1>11, <2>3
    <3> QED
      BY <1>11, <3>1, <3>2 DEF ServedSound
  <2> QED
    BY <1>11, <2>1, <2>2, <2>4 DEF DecisionSound
<1> QED
  BY <1>2, <1>3, <1>6, <1>9, <1>10, <1>13, <1>14, SoundBy

LEMMA ServeClearSound ==
    ASSUME Alone, WorkflowTypes, WorkflowSound, NEW q \in Click,
           ServeClear(q)
    PROVE  WorkflowSound'
<1>1. click[q].step = "clear" /\ UNCHANGED behind /\ CloseForm(q)
  BY DEF ServeClear
<1>2. PICK i \in Interview, c \in Client, page \in Page :
         i = click[q].id /\ c = click[q].client /\ page = ui[c]
  BY <1>1, MovedFound, ClickTypes
<1>3. /\ Running(q) /\ click[q].op = "Reschedule" /\ page = click[q].was
      /\ ViewSound(i, page.list[i]) /\ book[i].stored
  BY <1>1, <1>2, MovedFound
<1>4. /\ book \in [Interview -> Row] /\ score \in [Interview -> Matrix]
  BY DEF WorkflowTypes, WorkflowTypeOK
<1>5. PICK m \in Matrix :
         /\ Write(q, book[i], m, "reload")
         /\ \A k \in Competency : m[k] \in {0, NoScore}
               /\ (m[k] = NoScore <=> score[i][k] = NoScore)
  <2> DEFINE zeros == [k \in Competency |->
                IF page.list[i].scores[k] = NoScore THEN NoScore ELSE 0]
             new == Marked(score[i], zeros)
  <2>1. Write(q, book[i], new, "reload")
    BY <1>2, <1>3 DEF ServeClear
  <2>2. zeros \in Matrix
    BY DEF Matrix
  <2>3. \A k \in Competency : new[k] =
           IF page.list[i].scores[k] = NoScore THEN score[i][k] ELSE 0
    BY WorkflowAssumption DEF Marked
  <2>4. \A k \in Competency : new[k] \in {0, NoScore}
           /\ (new[k] = NoScore <=> score[i][k] = NoScore)
    BY <1>3, <2>3, WorkflowAssumption DEF ViewSound
  <2> HIDE DEF zeros
  <2>5. new \in Matrix
    BY <1>4, <2>2, MarkedTypes
  <2> HIDE DEF new
  <2> QED
    BY <2>1, <2>4, <2>5
<1>6. /\ OnlyClick(q) /\ Carried(q) /\ click'[q].step = "reload"
      /\ click'[q].lost = click[q].lost
      /\ book' = [book EXCEPT ![i] = book[i]]
      /\ score' = [score EXCEPT ![i] = m]
  <2>1. book[i] \in Row /\ Write(q, book[i], m, "reload")
        /\ click[q].op # "Load" /\ "reload" \in ClickSteps
    BY <1>3, <1>4, <1>5 DEF ClickSteps
  <2>2. /\ OnlyClick(q) /\ Carried(q) /\ click'[q].step = "reload"
        /\ click'[q].lost = click[q].lost
        /\ book' = [book EXCEPT ![click[q].id] = book[i]]
        /\ score' = [score EXCEPT ![click[q].id] = m]
    BY <1>3, <2>1, Written
  <2> QED
    BY <1>2, <2>2
<1>7. /\ book' = book /\ score'[i] = m
      /\ \A j \in Interview \ {i} :
            book'[j] = book[j] /\ score'[j] = score[j]
  BY <1>4, <1>6
<1>8. /\ InvitedSound(page) /\ FoundSound(q) /\ PageKept(q) /\ RowsSound
      /\ OneClick /\ ServedSound(q)
  BY <1>2, <1>3, PageFound
<1>9. RowsSound'
  BY <1>7, <1>8 DEF RowsSound
<1>10. PageSound(ui[c])'
  BY <1>1, <1>2, <1>5, <1>7, MovedPage
<1>11. click'[q].step = "reload" /\ click'[q].id = i
       /\ click'[q].op = "Reschedule" /\ click'[q].client = c
       /\ click'[q].was = page
  BY <1>2, <1>3, <1>6 DEF Carried
<1>12. ui'[c].list = page.list
       /\ ui'[c] = [page EXCEPT !.moving = NoInterview, !.text = NoText]
  BY <1>1, <1>2, FormPage
<1>13. InvitedSound(ui[c])'
  <2>1. Resetting(i)'
    BY <1>11 DEF Resetting, Resets
  <2>2. \A j \in Interview : Resetting(j) => j = i
    BY <1>2, <1>3, <1>8, ResetBy DEF Resets
  <2> QED
    BY <1>7, <1>8, <1>12, <2>1, <2>2 DEF InvitedSound
<1>14. FoundSound(q)' /\ PageKept(q)' /\ ServedSound(q)' /\ DecisionSound(q)'
  <2>1. FoundSound(q)'
    BY <1>6, <1>8 DEF FoundSound, Carried
  <2>2. PageKept(q)'
    BY <1>11, <1>12 DEF PageKept
  <2>3. ServedSound(q)'
    <3>1. /\ book[i].status = "Planned" /\ book[i].decision = "Pending"
          /\ book[i].comment = ""
      BY <1>1, <1>2, <1>3, <1>8 DEF ServedSound
    <3> QED
      BY <1>5, <1>7, <1>11, <3>1 DEF ServedSound
  <2> QED
    BY <1>11, <2>1, <2>2, <2>3 DEF DecisionSound
<1> QED
  BY <1>2, <1>3, <1>6, <1>9, <1>10, <1>13, <1>14, SoundBy

LEMMA ListingNews == \A i \in Interview : Listing[i].listed => News(i, Listing[i])
BY DEF Listing, News, mapInterviewFromApi, NoView

LEMMA ServeListSound ==
    ASSUME Alone, WorkflowTypes, WorkflowSound, NEW q \in Click, ServeList(q)
    PROVE  WorkflowSound'
<1>1. /\ OnlyClick(q) /\ Carried(q) /\ UNCHANGED <<book, score, ui, behind>>
      /\ click'[q].step = "list" /\ click'[q].list = Listing
      /\ click'[q].lost = click[q].lost
  BY Listed
<1>2. /\ Running(q)
      /\ \/ click[q].step = "send" /\ click[q].op = "Load"
         \/ click[q].step = "reload" /\ click[q].op = "Reschedule"
  BY DEF ServeList, Running, WorkflowTypes, StepFits
<1>3. FoundSound(q) /\ PageKept(q) /\ ServedSound(q) /\ OneClick
  BY <1>2, PageFound
<1>4. \A i \in Interview : Resetting(i) => Resets(q, i)'
  BY <1>1, <1>2, <1>3, ResetBy DEF Resets, Carried
<1>5. FoundSound(q)'
  BY <1>1, <1>3 DEF FoundSound, Carried
<1>6. PageKept(q)'
  BY <1>1, <1>2, <1>3 DEF PageKept, Carried
<1>7. ServedSound(q)'
  <2>1. Listing' = Listing
    BY <1>1 DEF Listing
  <2> QED
    BY <1>1, <1>2, <1>3, <2>1 DEF ServedSound, Carried
<1>8. DecisionSound(q)'
  BY <1>1 DEF DecisionSound
<1> QED
  BY <1>1, <1>2, <1>4, <1>5, <1>6, <1>7, <1>8, SoundHeld

-----------------------------------------------------------------------------
(* Decisions.                                                              *)

(* A list that is like another has the same interviews of a candidate, as  *)
(* far as they are concluded and turned down.                              *)
LEMMA SameCandidates ==
    ASSUME NEW l, NEW w, NEW i,
           \A j \in Interview : l[j].listed = w[j].listed /\ Alike(l[j], w[j])
    PROVE  /\ OfSameCandidate(l, i) = OfSameCandidate(w, i)
           /\ \A j \in Interview :
                 /\ Concluded(l[j]) <=> Concluded(w[j])
                 /\ TurnedDown(l[j]) <=> TurnedDown(w[j])
BY DEF OfSameCandidate, Concluded, TurnedDown, Alike

LEMMA SettleSound ==
    ASSUME Alone, WorkflowTypes, WorkflowSound, NEW q \in Click, Settle(q)
    PROVE  WorkflowSound'
<1>1. /\ Running(q) /\ click[q].step = "answer"
      /\ click[q].op \in Decisions
  BY DEF Settle, Running
<1>2. PICK i \in Interview, was \in [Interview -> View], a \in View :
         i = click[q].id /\ was = click[q].was.list /\ a = click[q].answer
  BY <1>1, ClickTypes DEF Decisions
<1>3. PICK news, also :
         news = Put(was, i, a) /\ also = AlsoArchived(q, news)
  OBVIOUS
<1>4. PICK l : l = MarkAll(news, also)
  OBVIOUS
<1>5. /\ OnlyClick(q) /\ Carried(q) /\ UNCHANGED <<book, score, ui, behind>>
      /\ click'[q].step = "archive"
      /\ click'[q].todo = {j \in also : ~news[j].archived}
      /\ click'[q].list = l /\ click'[q].answer = a
      /\ news \in [Interview -> View] /\ also \subseteq Interview
  BY <1>2, <1>3, <1>4, Settled
<1>6. FoundSound(q) /\ PageKept(q) /\ ServedSound(q) /\ OneClick
  BY <1>1, PageFound
<1>7. \A j \in Interview : ~Resetting(j)
  BY <1>1, <1>6, ResetBy DEF Resets
<1>8. FoundSound(q)'
  BY <1>5, <1>6 DEF FoundSound, Carried
<1>9. PageKept(q)'
  BY <1>1, <1>5, <1>6 DEF PageKept, Carried
<1>10. ServedSound(q)'
  BY <1>1, <1>2, <1>5, <1>6 DEF ServedSound, News, Carried
<1>11. DecisionSound(q)'
  <2>1. was \in [Interview -> View]
    BY <1>2, ClickTypes
  <2>2. a.listed = TRUE
    BY <1>1, <1>2, <1>6 DEF ServedSound, News
  <2>3. /\ \A j \in Interview \ {i} : news[j] = was[j]
        /\ was[i].listed => news[i] = a
        /\ ~was[i].listed => news = was
    BY <1>3, <2>1, PutTypes
  <2>4. \A j \in Interview : was[j].listed \in BOOLEAN
    BY <2>1 DEF View
  <2>5. \A j \in Interview : news[j].listed = was[j].listed
    BY <2>2, <2>3, <2>4
  <2>6. \A j \in Interview :
           /\ l[j].listed = news[j].listed
           /\ Alike(l[j], news[j])
           /\ j \in also => l[j].archived
    BY <1>4, <1>5, MarkAllTypes
  <2>7. /\ OfSameCandidate(l, i) = OfSameCandidate(news, i)
        /\ \A j \in Interview :
              /\ Concluded(l[j]) <=> Concluded(news[j])
              /\ TurnedDown(l[j]) <=> TurnedDown(news[j])
    BY <2>6, SameCandidates
  <2>8. also \subseteq OfSameCandidate(news, i)
    BY <1>2, <1>3 DEF AlsoArchived
  <2>9. /\ \A j \in Interview : l[j].listed = was[j].listed
        /\ \A j \in Interview \ {i} : Alike(l[j], was[j])
        /\ was[i].listed => Alike(l[i], a)
    BY <2>3, <2>5, <2>6
  <2>10. click'[q].todo \subseteq {j \in OfSameCandidate(l, i) : l[j].archived}
    BY <1>5, <2>6, <2>7, <2>8
  <2>11. Takes(q) => \A j \in OfSameCandidate(l, i) \ {i} : l[j].archived
    BY <1>2, <1>3, <2>6, <2>7 DEF AlsoArchived, OfSameCandidate
  <2>12. TurnsDown(q)
            /\ (\A j \in OfSameCandidate(l, i) :
                   Concluded(l[j]) /\ TurnedDown(l[j]))
            => \A j \in OfSameCandidate(l, i) : l[j].archived
    <3>1. ASSUME TurnsDown(q), \A j \in OfSameCandidate(l, i) :
                    Concluded(l[j]) /\ TurnedDown(l[j])
          PROVE  also = OfSameCandidate(news, i)
      <4>1. ~Takes(q)
        BY <3>1 DEF Takes, TurnsDown
      <4>2. \A j \in OfSameCandidate(news, i) :
               Concluded(news[j]) /\ TurnedDown(news[j])
        BY <2>7, <3>1 DEF OfSameCandidate
      <4> QED
        BY <1>2, <1>3, <3>1, <4>1, <4>2 DEF AlsoArchived
    <3> QED
      BY <2>6, <2>7, <3>1 DEF OfSameCandidate
  <2>13. /\ click'[q].id = i /\ click'[q].was.list = was
         /\ Takes(q)' <=> Takes(q)
         /\ TurnsDown(q)' <=> TurnsDown(q)
    BY <1>2, <1>5 DEF Carried, Takes, TurnsDown
  <2> QED
    BY <1>5, <2>9, <2>10, <2>11, <2>12, <2>13 DEF DecisionSound
<1> QED
  BY <1>1, <1>5, <1>7, <1>8, <1>9, <1>10, <1>11, SoundHeld

-----------------------------------------------------------------------------
(* The page shows an answer.                                               *)

(* What is shown of one interview is renewed.                              *)
LEMMA PageRenewed ==
    ASSUME NEW old, NEW new, NEW i \in Interview, PageSound(old),
           \A j \in Interview \ {i} : new.list[j] = old.list[j],
           new.list[i].listed => ViewSound(i, new.list[i]),
           new.id = i => ViewSound(i, new.view),
           new.id = i /\ new.list[i].listed => Alike(new.view, new.list[i]),
           \A j \in Interview \ {i} :
               new.id = j => old.id = j /\ new.view = old.view,
           new.moving = old.moving,
           old.moving = i /\ new.list[i].listed =>
               new.list[i].decision = "NextStage",
           old.moving = i /\ new.id = i => new.view.decision = "NextStage"
    PROVE  PageSound(new)
<1>1. ListSound(new)
  BY DEF PageSound, ListSound
<1>2. CardSound(new)
  BY DEF PageSound, CardSound
<1>3. MovingSound(new)
  BY DEF PageSound, MovingSound
<1> QED
  BY <1>1, <1>2, <1>3 DEF PageSound

(* A handler ends by showing a page that is sound.                         *)
LEMMA ShowSound ==
    ASSUME Alone, WorkflowTypes, WorkflowSound, NEW q \in Click,
           Running(q), NEW page \in Page, Show(q, page), PageSound(page),
           \A i \in Interview :
               page.list[i].listed /\ page.list[i].decision = "NextStage" =>
                   book[i].decision = "NextStage"
    PROVE  WorkflowSound'
<1>1. PICK c \in Client : c = click[q].client
  BY ClickTypes
<1>2. /\ OnlyClick(q) /\ UNCHANGED <<book, score>>
      /\ click'[q].step = "done"
      /\ ui' = [ui EXCEPT ![c] = page]
  BY <1>1, ShowTypes
<1>3. ui'[c] = page
  BY <1>2 DEF WorkflowTypes, WorkflowTypeOK
<1>4. PageSound(ui[c])'
  <2>1. PageSound(page)'
    BY <1>2, PageStays
  <2> QED
    BY <1>3, <2>1
<1>5. InvitedSound(ui[c])'
  BY <1>2, <1>3 DEF InvitedSound
<1>6. RowsSound'
  BY <1>2 DEF WorkflowSound, RowsSound
<1>7. ~Running(q)'
  BY <1>2 DEF Running
<1> QED
  BY <1>2, <1>4, <1>5, <1>6, <1>7, SoundBy

(* What each operation shows.                                              *)
LEMMA ShownFields ==
    ASSUME WorkflowTypes, NEW q \in Click, click[q].step = "answer",
           click[q].op \notin Decisions
    PROVE  LET i == click[q].id
               op == click[q].op
               was == click[q].was
               old == ui[click[q].client]
               a == click[q].answer
               new == Shown(q)
           IN  /\ new.moving = old.moving
               /\ op = "Comment" =>
                     /\ new.list = Put(was.list, i, [was.list[i] EXCEPT
                                                       !.comment = was.draft])
                     /\ new.id = i
                     /\ new.view = [was.view EXCEPT !.comment = was.draft]
               /\ op \in {"Star", "Archive", "Unarchive", "Edit"} =>
                     new.list = Put(was.list, i, a)
               /\ op = "Star" => new.id = i /\ new.view = a
               /\ op \in {"Archive", "Unarchive", "Edit"} =>
                     IF was.id = i THEN new.id = i /\ new.view = a
                     ELSE new.id = old.id /\ new.view = old.view
               /\ op = "Delete" =>
                     /\ new.list = [was.list EXCEPT ![i] = NoView]
                     /\ IF was.id = i THEN new.id = NoInterview
                        ELSE new.id = old.id /\ new.view = old.view
               /\ op = "Schedule" =>
                     /\ new.list = [was.list EXCEPT ![i] = a]
                     /\ new.id = old.id /\ new.view = old.view
<1> DEFINE i == click[q].id
           a == click[q].answer
           was == click[q].was
           old == ui[click[q].client]
           put == Put(was.list, i, a)
           page == [old EXCEPT !.list = put]
           said == [was.view EXCEPT !.comment = was.draft]
           commented == Put(was.list, i, [was.list[i] EXCEPT
                                            !.comment = was.draft])
           removed == [was.list EXCEPT ![i] = NoView]
           added == [was.list EXCEPT ![i] = a]
           gone == [page EXCEPT !.list = removed]
           op == click[q].op
           new == Shown(q)
<1>1. old \in Page
      /\ op \in {"Comment", "Star", "Archive", "Unarchive", "Edit", "Delete",
                 "Schedule"}
  BY ClickTypes DEF Running, WorkflowTypes, StepFits, Decisions, Ops
<1>2. page.list = put /\ page.id = old.id /\ page.view = old.view
      /\ page.moving = old.moving /\ page = [old EXCEPT !.list = put]
  <2> HIDE DEF old, put, View
  <2> QED
    BY <1>1 DEF Page
<1>3. DOMAIN page = DOMAIN old
  OBVIOUS
<1>4. /\ op = "Comment" =>
            new = [page EXCEPT !.id = i, !.view = said, !.list = commented]
      /\ op = "Star" => new = [page EXCEPT !.id = i, !.view = a]
      /\ op \in {"Archive", "Unarchive"} => new = Selected(page, was, i, a)
      /\ op = "Edit" => new = [Selected(page, was, i, a) EXCEPT
                                 !.editing = NoInterview, !.text = NoText]
      /\ op = "Delete" => new = IF was.id # i THEN gone
                   ELSE [gone EXCEPT !.shown = FALSE, !.id = NoInterview,
                                     !.view = NoView]
      /\ op = "Schedule" => new = [page EXCEPT !.list = added]
  <2> HIDE DEF page, put, said, commented, removed, added
  <2> QED
    BY DEF Shown, page, put, said, commented, removed, added
<1> HIDE DEF page, put, said, commented, removed, added, old, a, was, i, op,
             new, NoView
<1>5. DOMAIN page = {"list", "shown", "id", "view", "draft", "editing",
                     "text", "moving"}
  BY <1>1, <1>3 DEF Page
<1>6. CASE op = "Comment"
  <2>1. new.list = commented /\ new.id = i /\ new.view = said
        /\ new.moving = old.moving
    BY <1>2, <1>4, <1>5, <1>6
  <2> QED
    BY <1>6, <2>1 DEF commented, said, was, i, op, new, old
<1>7. CASE op = "Star"
  <2>1. new.list = put /\ new.id = i /\ new.view = a
        /\ new.moving = old.moving
    BY <1>2, <1>4, <1>5, <1>7
  <2> QED
    BY <1>7, <2>1 DEF put, a, was, i, op, new, old
<1>8. CASE op \in {"Archive", "Unarchive", "Edit"}
  <2> DEFINE chosen == Selected(page, was, i, a)
  <2>1. /\ chosen.list = put /\ chosen.moving = old.moving
        /\ IF was.id = i THEN chosen.id = i /\ chosen.view = a
           ELSE chosen.id = old.id /\ chosen.view = old.view
        /\ DOMAIN chosen = DOMAIN page
    BY <1>2, <1>5 DEF Selected
  <2> HIDE DEF chosen
  <2>2. new = chosen \/ new = [chosen EXCEPT !.editing = NoInterview,
                                             !.text = NoText]
    BY <1>4, <1>8 DEF chosen
  <2>3. /\ new.list = chosen.list /\ new.moving = chosen.moving
        /\ new.id = chosen.id /\ new.view = chosen.view
    BY <1>5, <2>1, <2>2
  <2> QED
    BY <1>8, <2>1, <2>3 DEF put, a, was, i, op, new, old
<1>9. CASE op = "Delete"
  <2>1. /\ gone.list = removed /\ gone.id = old.id /\ gone.view = old.view
        /\ gone.moving = old.moving /\ DOMAIN gone = DOMAIN page
    BY <1>2, <1>5
  <2> HIDE DEF gone
  <2>2. /\ new.list = removed /\ new.moving = old.moving
        /\ IF was.id = i THEN new.id = NoInterview
           ELSE new.id = old.id /\ new.view = old.view
    BY <1>4, <1>5, <1>9, <2>1
  <2> QED
    BY <1>9, <2>2 DEF removed, was, i, op, new, old
<1>10. CASE op = "Schedule"
  <2>1. new.list = added /\ new.id = old.id /\ new.view = old.view
        /\ new.moving = old.moving
    BY <1>2, <1>4, <1>5, <1>10
  <2> QED
    BY <1>10, <2>1 DEF added, a, was, i, op, new, old
<1> QED
  BY <1>1, <1>6, <1>7, <1>8, <1>9, <1>10 DEF op

LEMMA ShowAnswerSound ==
    ASSUME Alone, WorkflowTypes, WorkflowSound, NEW q \in Click,
           ShowAnswer(q)
    PROVE  WorkflowSound'
<1>1. /\ Running(q) /\ click[q].step = "answer"
      /\ click[q].op \notin Decisions /\ Show(q, Shown(q))
  BY DEF ShowAnswer, Running
<1>2. PICK op : op = click[q].op
  OBVIOUS
<1>3. op \in {"Comment", "Star", "Archive", "Unarchive", "Edit", "Delete",
              "Schedule"}
  BY <1>1, <1>2, ClickTypes
     DEF Running, WorkflowTypes, StepFits, Decisions, Ops
<1>4. PICK i \in Interview, old \in Page, new \in Page, a \in View :
         /\ i = click[q].id /\ old = ui[click[q].client]
         /\ new = Shown(q) /\ a = click[q].answer
  BY <1>1, <1>2, <1>3, ClickTypes, ShownTypes
<1>5. /\ PageSound(old) /\ InvitedSound(old) /\ FoundSound(q)
      /\ old = click[q].was /\ RowsSound /\ OneClick /\ News(i, a)
  BY <1>1, <1>2, <1>3, <1>4, PageFound DEF ServedSound
<1>6. ViewSound(i, a)
  BY <1>5, NewsSound
<1>7. \A j \in Interview : old.list[j].listed
                           /\ old.list[j].decision = "NextStage" =>
                              book[j].decision = "NextStage"
  BY <1>1, <1>5, ResetBy DEF InvitedSound, Resets
<1>8. old.list \in [Interview -> View] /\ old.view \in View
      /\ old.draft \in Text
  BY <1>4 DEF Page
<1>9. /\ a.decision = "NextStage" => book[i].decision = "NextStage"
      /\ book[i].decision = "NextStage" => a.decision = "NextStage"
  BY <1>5 DEF News, Label
<1>15. /\ new.moving = old.moving
       /\ op = "Comment" =>
             /\ new.list = Put(old.list, i, [old.list[i] EXCEPT
                                               !.comment = old.draft])
             /\ new.id = i
             /\ new.view = [old.view EXCEPT !.comment = old.draft]
       /\ op \in {"Star", "Archive", "Unarchive", "Edit"} =>
             new.list = Put(old.list, i, a)
       /\ op = "Star" => new.id = i /\ new.view = a
       /\ op \in {"Archive", "Unarchive", "Edit"} =>
             IF old.id = i THEN new.id = i /\ new.view = a
             ELSE new.id = old.id /\ new.view = old.view
       /\ op = "Delete" =>
             /\ new.list = [old.list EXCEPT ![i] = NoView]
             /\ IF old.id = i THEN new.id = NoInterview
                ELSE new.id = old.id /\ new.view = old.view
       /\ op = "Schedule" =>
             /\ new.list = [old.list EXCEPT ![i] = a]
             /\ new.id = old.id /\ new.view = old.view
  <2>1. click[q].was = old
    BY <1>5
  <2> QED
    BY <1>1, <1>2, <1>4, <2>1, ShownFields
<1>16. \A v \in View :
          /\ \A j \in Interview \ {i} : Put(old.list, i, v)[j] = old.list[j]
          /\ old.list[i].listed => Put(old.list, i, v)[i] = v
          /\ ~old.list[i].listed => Put(old.list, i, v) = old.list
  BY <1>8, PutTypes
<1> SUFFICES PageSound(new)
             /\ \A j \in Interview :
                   new.list[j].listed /\ new.list[j].decision = "NextStage" =>
                      book[j].decision = "NextStage"
  BY <1>1, <1>4, ShowSound
<1>10. CASE op = "Comment"
  <2> DEFINE noted == [old.list[i] EXCEPT !.comment = old.draft]
             said == [old.view EXCEPT !.comment = old.draft]
  <2>1. /\ noted \in View /\ noted.listed = old.list[i].listed
        /\ Alike(noted, old.list[i]) /\ Alike(said, old.view)
    BY <1>8 DEF View, Alike
  <2> HIDE DEF noted, said
  <2>2. /\ new.moving = old.moving /\ new.list = Put(old.list, i, noted)
        /\ new.id = i /\ new.view = said
    BY <1>10, <1>15 DEF noted, said
  <2>3. old.id = i /\ old.view.status = "Planned"
    BY <1>2, <1>4, <1>5, <1>10 DEF FoundSound
  <2>4. /\ \A j \in Interview \ {i} : new.list[j] = old.list[j]
        /\ new.list[i].listed => old.list[i].listed
        /\ Alike(new.list[i], old.list[i])
    BY <1>16, <2>1, <2>2 DEF Alike
  <2>5. PageSound(new)
    <3>1. new.list[i].listed => ViewSound(i, new.list[i])
      BY <1>5, <2>4, AlikeSound DEF PageSound, ListSound
    <3>2. ViewSound(i, old.view) /\
          (old.list[i].listed => Alike(old.view, old.list[i]))
      BY <1>5, <2>3 DEF PageSound, CardSound
    <3>3. ViewSound(i, new.view)
          /\ (new.list[i].listed => Alike(new.view, new.list[i]))
      BY <2>1, <2>2, <2>4, <3>2, AlikeSound DEF Alike
    <3>4. old.moving # i
      BY <1>5, <2>3, <3>2 DEF PageSound, MovingSound, ViewSound
    <3> QED
      BY <1>5, <2>2, <2>4, <3>1, <3>3, <3>4, PageRenewed
  <2> QED
    BY <1>7, <2>4, <2>5 DEF Alike
<1>11. CASE op = "Star"
  <2>1. /\ new.moving = old.moving /\ new.list = Put(old.list, i, a)
        /\ new.id = i /\ new.view = a
    BY <1>11, <1>15
  <2>2. old.id = i /\ old.view.status = "Planned"
    BY <1>2, <1>4, <1>5, <1>11 DEF FoundSound
  <2>3. /\ \A j \in Interview \ {i} : new.list[j] = old.list[j]
        /\ new.list[i].listed => new.list[i] = a
    BY <1>16, <2>1
  <2>4. old.moving # i
    BY <1>5, <2>2 DEF PageSound, CardSound, MovingSound, ViewSound
  <2>5. PageSound(new)
    BY <1>5, <1>6, <2>1, <2>3, <2>4, PageRenewed DEF Alike
  <2> QED
    BY <1>7, <1>9, <2>3, <2>5
<1>12. CASE op \in {"Archive", "Unarchive", "Edit"}
  <2>1. /\ new.moving = old.moving /\ new.list = Put(old.list, i, a)
        /\ IF old.id = i THEN new.id = i /\ new.view = a
           ELSE new.id = old.id /\ new.view = old.view
    BY <1>12, <1>15
  <2>2. old.list[i].listed
    BY <1>2, <1>4, <1>5, <1>12 DEF FoundSound
  <2>3. /\ \A j \in Interview \ {i} : new.list[j] = old.list[j]
        /\ new.list[i] = a
    BY <1>16, <2>1, <2>2
  <2>4. old.moving = i => a.decision = "NextStage"
    BY <1>5, <1>7, <1>9, <2>2 DEF PageSound, MovingSound
  <2>5. PageSound(new)
    <3>1. new.id = i => new.view = a
      BY <2>1
    <3>2. \A j \in Interview \ {i} :
             new.id = j => old.id = j /\ new.view = old.view
      BY <2>1
    <3> QED
      BY <1>5, <1>6, <2>1, <2>3, <2>4, <3>1, <3>2, PageRenewed DEF Alike
  <2> QED
    BY <1>7, <1>9, <2>3, <2>5
<1>13. CASE op = "Delete"
  <2>1. /\ new.moving = old.moving
        /\ new.list = [old.list EXCEPT ![i] = NoView]
        /\ IF old.id = i THEN new.id = NoInterview
           ELSE new.id = old.id /\ new.view = old.view
    BY <1>13, <1>15
  <2>2. NoView.listed = FALSE
    BY DEF NoView
  <2> HIDE DEF NoView
  <2>3. /\ \A j \in Interview \ {i} : new.list[j] = old.list[j]
        /\ new.list[i].listed = FALSE
    BY <1>8, <2>1, <2>2
  <2>4. new.id # i /\ \A j \in Interview \ {i} :
           new.id = j => old.id = j /\ new.view = old.view
    BY <2>1, WorkflowAssumption
  <2>5. PageSound(new)
    <3>1. ~new.list[i].listed
      BY <2>3
    <3> QED
      BY <1>5, <2>1, <2>3, <2>4, <3>1
         DEF PageSound, ListSound, CardSound, MovingSound
  <2> QED
    BY <1>7, <2>3, <2>5
<1>14. CASE op = "Schedule"
  <2>1. /\ new.moving = old.moving
        /\ new.list = [old.list EXCEPT ![i] = a]
        /\ new.id = old.id /\ new.view = old.view
    BY <1>14, <1>15
  <2>2. old.id # i /\ old.moving # i
    BY <1>2, <1>4, <1>5, <1>14 DEF FoundSound
  <2>3. /\ \A j \in Interview \ {i} : new.list[j] = old.list[j]
        /\ new.list[i] = a
    BY <1>8, <2>1
  <2>4. PageSound(new)
    <3>1. new.id # i /\ \A j \in Interview \ {i} :
             new.id = j => old.id = j /\ new.view = old.view
      BY <2>1, <2>2
    <3>2. ViewSound(i, new.list[i])
      BY <1>6, <2>3
    <3> QED
      BY <1>5, <2>1, <2>2, <2>3, <3>1, <3>2
         DEF PageSound, ListSound, CardSound, MovingSound
  <2> QED
    BY <1>7, <1>9, <2>3, <2>4
<1> QED
  BY <1>3, <1>10, <1>11, <1>12, <1>13, <1>14

LEMMA ShowListSound ==
    ASSUME Alone, WorkflowTypes, WorkflowSound, NEW q \in Click, ShowList(q)
    PROVE  WorkflowSound'
<1>1. /\ Running(q) /\ click[q].step = "list" /\ Show(q, ListPage(q))
  BY DEF ShowList, ListPage, Running
<1>2. PICK old \in Page, new \in Page :
         old = ui[click[q].client] /\ new = ListPage(q)
  BY <1>1, ClickTypes, EndPageTypes
<1>3. /\ PageSound(old) /\ RowsSound /\ click[q].list = Listing
      /\ old.moving = NoInterview
      /\ click[q].op \in {"Load", "Reschedule"}
  <2>1. PageSound(old) /\ RowsSound /\ PageKept(q) /\ ServedSound(q)
    BY <1>1, <1>2, PageFound
  <2>2. click[q].op \in {"Load", "Reschedule"}
    BY <1>1 DEF WorkflowTypes, StepFits
  <2>3. old.moving = NoInterview
    <3>1. click[q].was \in Page
      BY ClickTypes
    <3> HIDE DEF View
    <3> QED
      BY <1>1, <1>2, <2>1, <2>2, <3>1 DEF PageKept, Page
  <2> QED
    BY <1>1, <2>1, <2>2, <2>3 DEF ServedSound
<1>4. \A i \in Interview :
         Listing[i].listed => News(i, Listing[i]) /\ ViewSound(i, Listing[i])
  BY <1>3, ListingNews, NewsSound
<1>5. /\ new.list = Listing /\ new.moving = NoInterview
      /\ \/ new.id = old.id /\ new.view = old.view
            /\ (click[q].op = "Reschedule" => ~Listing[click[q].id].listed)
         \/ new.id = click[q].id /\ new.view = Listing[click[q].id]
            /\ Listing[click[q].id].listed
  <2> DEFINE l == Listing
             i == click[q].id
             page == [old EXCEPT !.list = l]
  <2>1. new = IF click[q].op = "Reschedule" /\ l[i].listed
              THEN [page EXCEPT !.id = i, !.view = l[i]] ELSE page
    BY <1>2, <1>3 DEF ListPage
  <2> HIDE DEF l, i
  <2>2. /\ page.list = l /\ page.id = old.id /\ page.view = old.view
        /\ page.moving = old.moving
        /\ DOMAIN page = {"list", "shown", "id", "view", "draft", "editing",
                          "text", "moving"}
    <3> HIDE DEF View
    <3> QED
      BY <1>2 DEF Page
  <2> HIDE DEF page
  <2>3. CASE click[q].op = "Reschedule" /\ l[i].listed
    BY <1>3, <2>1, <2>2, <2>3 DEF l, i
  <2>4. CASE ~(click[q].op = "Reschedule" /\ l[i].listed)
    BY <1>3, <2>1, <2>2, <2>4 DEF l, i
  <2> QED
    BY <2>3, <2>4
<1>6. PageSound(new)
  <2>1. ListSound(new)
    BY <1>4, <1>5 DEF ListSound
  <2>2. MovingSound(new)
    BY <1>5, WorkflowAssumption DEF MovingSound
  <2>3. CardSound(new)
    <3>1. SUFFICES ASSUME NEW i \in Interview, new.id = i
                   PROVE  /\ ViewSound(i, new.view)
                          /\ new.list[i].listed => Alike(new.view, new.list[i])
      BY DEF CardSound
    <3>2. CASE new.id = old.id /\ new.view = old.view
               /\ (click[q].op = "Reschedule" => ~Listing[click[q].id].listed)
      <4>1. ViewSound(i, new.view)
        BY <1>3, <3>1, <3>2 DEF PageSound, CardSound
      <4>2. click[q].op = "Reschedule" /\ click[q].id = i
        <5>1. FoundSound(q) /\ PageKept(q)
          BY <1>1, PageFound
        <5>2. click[q].op # "Load"
          BY <1>2, <3>1, <3>2, <5>1, WorkflowAssumption DEF PageKept
        <5>3. old.id = click[q].was.id
          <6>1. click[q].was \in Page
            BY ClickTypes
          <6> HIDE DEF View
          <6> QED
            BY <1>1, <1>2, <5>1, <5>2, <6>1 DEF PageKept, Page
        <5> QED
          BY <1>3, <3>1, <3>2, <5>1, <5>2, <5>3 DEF FoundSound
      <4> QED
        BY <1>5, <3>2, <4>1, <4>2
    <3>3. CASE new.id = click[q].id /\ new.view = Listing[click[q].id]
               /\ Listing[click[q].id].listed
      BY <1>4, <1>5, <3>1, <3>3 DEF Alike
    <3> QED
      BY <1>5, <3>2, <3>3
  <2> QED
    BY <2>1, <2>2, <2>3 DEF PageSound
<1>7. \A i \in Interview :
         new.list[i].listed /\ new.list[i].decision = "NextStage" =>
            book[i].decision = "NextStage"
  BY <1>4, <1>5 DEF News, Label
<1> QED
  BY <1>1, <1>2, <1>6, <1>7, ShowSound

(* One of the interviews that a decision archives, or the request for it   *)
(* lost.                                                                   *)
LEMMA OtherSound ==
    ASSUME Alone, WorkflowTypes, WorkflowSound, NEW q \in Click,
           ArchiveOther(q) \/ LoseOther(q)
    PROVE  WorkflowSound'
<1>1. click[q].step = "archive" /\ Running(q) /\ UNCHANGED <<score, ui>>
  BY DEF ArchiveOther, LoseOther, Running, UnchangedApi
<1>2. PICK j \in click[q].todo, lost \in BOOLEAN :
         /\ \/ click' = [click EXCEPT ![q].todo = @ \ {j}]
               /\ lost = click[q].lost
            \/ click' = [click EXCEPT ![q].todo = @ \ {j}, ![q].lost = TRUE]
               /\ lost = TRUE
         /\ book' \in {book, [book EXCEPT ![j] = Archived(@, TRUE)]}
  BY ClickTypes DEF ArchiveOther, LoseOther, UnchangedApi
<1>3. /\ OnlyClick(q) /\ Carried(q) /\ click'[q].step = "archive"
      /\ click'[q].todo = click[q].todo \ {j}
      /\ click'[q].list = click[q].list /\ click'[q].answer = click[q].answer
  BY <1>1, <1>2, OneLess
<1>4. \A i \in Interview :
         /\ book'[i].stored = book[i].stored
         /\ book'[i].status = book[i].status
         /\ book'[i].decision = book[i].decision
  <2>1. book \in [Interview -> Row] /\ j \in Interview
    BY <1>2, ClickTypes DEF WorkflowTypes, WorkflowTypeOK
  <2>2. /\ Archived(book[j], TRUE).stored = book[j].stored
        /\ Archived(book[j], TRUE).status = book[j].status
        /\ Archived(book[j], TRUE).decision = book[j].decision
    BY <2>1 DEF Archived, Row
  <2> QED
    BY <1>2, <2>1, <2>2
<1>5. PICK c \in Client, page \in Page : c = click[q].client /\ page = ui[c]
  BY ClickTypes
<1>6. /\ PageSound(page) /\ InvitedSound(page) /\ FoundSound(q)
      /\ PageKept(q) /\ ServedSound(q) /\ DecisionSound(q) /\ RowsSound
      /\ OneClick
  BY <1>1, <1>5, PageFound
<1>7. RowsSound'
  BY <1>4, <1>6 DEF RowsSound
<1>8. PageSound(ui[c])'
  <2>1. \A v : \A i \in Interview : ViewSound(i, v) => ViewSound(i, v)'
    BY <1>1, <1>4 DEF ViewSound
  <2>2. ListSound(page)' /\ CardSound(page)'
    BY <1>6, <2>1 DEF PageSound, ListSound, CardSound, Alike
  <2>3. MovingSound(page)'
    BY <1>4, <1>6 DEF PageSound, MovingSound
  <2>4. PageSound(page)'
    BY <2>2, <2>3 DEF PageSound
  <2> QED
    BY <1>1, <1>5, <2>4
<1>9. InvitedSound(ui[c])'
  <2>1. \A i \in Interview : ~Resetting(i)
    BY <1>1, <1>6, ResetBy DEF Resets
  <2> QED
    BY <1>1, <1>4, <1>5, <1>6, <2>1 DEF InvitedSound
<1>10. FoundSound(q)'
  BY <1>3, <1>6 DEF FoundSound, Carried
<1>11. PageKept(q)'
  BY <1>1, <1>3, <1>6 DEF PageKept, Carried
<1>12. ServedSound(q)'
  <2>1. click[q].id \in Interview
    BY <1>1, ClickTypes DEF WorkflowTypes, StepFits, Decisions
  <2>2. News(click[q].id, click[q].answer)
    BY <1>1, <1>6 DEF ServedSound
  <2> QED
    BY <1>1, <1>3, <1>4, <2>1, <2>2 DEF ServedSound, News, Label, Carried
<1>13. DecisionSound(q)'
  <2>1. (Takes(q)' <=> Takes(q)) /\ (TurnsDown(q)' <=> TurnsDown(q))
    BY <1>3 DEF Carried, Takes, TurnsDown
  <2> QED
    BY <1>1, <1>3, <1>6, <2>1 DEF DecisionSound, Carried
<1> QED
  BY <1>1, <1>3, <1>7, <1>8, <1>9, <1>10, <1>11, <1>12, <1>13, SoundBy

LEMMA ShowDecisionSound ==
    ASSUME Alone, WorkflowTypes, WorkflowSound, NEW q \in Click,
           ShowDecision(q)
    PROVE  WorkflowSound'
<1>1. /\ Running(q) /\ click[q].step = "archive" /\ Show(q, DecisionPage(q))
      /\ click[q].op \in Decisions
  BY DEF ShowDecision, DecisionPage, Running, WorkflowTypes, StepFits
<1>2. PICK i \in Interview, old \in Page, new \in Page, a \in View,
        l \in [Interview -> View] :
         /\ i = click[q].id /\ old = ui[click[q].client]
         /\ new = DecisionPage(q) /\ a = click[q].answer
         /\ l = click[q].list
  BY <1>1, ClickTypes, EndPageTypes DEF Decisions
<1>3. /\ PageSound(old) /\ InvitedSound(old) /\ FoundSound(q)
      /\ old = click[q].was /\ RowsSound /\ OneClick /\ News(i, a)
      /\ DecisionSound(q)
  <2>1. click[q].op # "Load"
    BY <1>1 DEF Decisions
  <2> QED
    BY <1>1, <1>2, <2>1, PageFound DEF ServedSound
<1>4. ViewSound(i, a)
  BY <1>3, NewsSound
<1>5. /\ \A j \in Interview : l[j].listed = old.list[j].listed
      /\ \A j \in Interview \ {i} :
            old.list[j].listed => Alike(l[j], old.list[j])
      /\ old.list[i].listed => Alike(l[i], a)
  BY <1>1, <1>2, <1>3 DEF DecisionSound
<1>6. old.id = i
  BY <1>1, <1>2, <1>3 DEF FoundSound, Decisions
<1>7. new.list = l /\ new.id = i /\ new.view = a /\ new.moving = old.moving
  <2> DEFINE page == [old EXCEPT !.list = l]
  <2>1. new = [page EXCEPT !.id = i, !.view = a]
    BY <1>2, <1>3, <1>6 DEF DecisionPage, Selected
  <2>2. page.list = l /\ page.moving = old.moving
        /\ DOMAIN page = {"list", "shown", "id", "view", "draft", "editing",
                          "text", "moving"}
    <3> HIDE DEF View
    <3> QED
      BY <1>2 DEF Page
  <2> HIDE DEF page
  <2> QED
    BY <2>1, <2>2
<1>8. old.moving # i
  <2>1. old.view.decision = "Pending"
    BY <1>1, <1>2, <1>3, <1>6
       DEF FoundSound, Decisions, PageSound, CardSound, ViewSound
  <2> QED
    BY <1>3, <1>6, <2>1 DEF PageSound, MovingSound
<1>9. PageSound(new)
  <2>1. ListSound(new)
    BY <1>3, <1>4, <1>5, <1>7, AlikeSound DEF PageSound, ListSound
  <2>2. CardSound(new)
    BY <1>4, <1>5, <1>7 DEF CardSound, Alike
  <2>3. MovingSound(new)
    BY <1>3, <1>5, <1>7, <1>8 DEF PageSound, MovingSound, Alike
  <2> QED
    BY <2>1, <2>2, <2>3 DEF PageSound
<1>10. \A j \in Interview :
          new.list[j].listed /\ new.list[j].decision = "NextStage" =>
             book[j].decision = "NextStage"
  <2>1. \A j \in Interview : ~Resetting(j)
    BY <1>1, <1>3, ResetBy DEF Resets
  <2>2. a.decision = "NextStage" => book[i].decision = "NextStage"
    BY <1>3 DEF News, Label
  <2> QED
    BY <1>3, <1>5, <1>7, <2>1, <2>2 DEF InvitedSound, Alike
<1> QED
  BY <1>1, <1>2, <1>9, <1>10, ShowSound

-----------------------------------------------------------------------------
(* Errors.                                                                 *)

LEMMA LoseSound ==
    ASSUME Alone, WorkflowTypes, WorkflowSound, NEW q \in Click,
           Refuse(q) \/ Lose(q)
    PROVE  WorkflowSound'
<1>1. /\ Running(q) /\ click[q].step \in {"send", "reset", "answer"}
      /\ Done(q) /\ UNCHANGED <<book, score, ui>>
  BY DEF Refuse, Lose, Running, UnchangedApi
<1>2. OnlyClick(q) /\ ~Running(q)'
  BY <1>1, Ended DEF Running
<1>3. OneClick
  BY DEF WorkflowSound
<1>4. \A i \in Interview : ~Resetting(i)
  BY <1>1, <1>3, ResetBy DEF Resets
<1> QED
  BY <1>1, <1>2, <1>4, SoundHeld

LEMMA LoseClearSound ==
    ASSUME Alone, WorkflowTypes, WorkflowSound, NEW q \in Click,
           LoseClear(q)
    PROVE  WorkflowSound'
<1>1. /\ OnlyClick(q) /\ Carried(q) /\ UNCHANGED <<book, score, behind>>
      /\ click[q].step = "clear" /\ click'[q].step = "reload"
      /\ click'[q].lost = TRUE /\ CloseForm(q)
  BY Uncleared
<1>2. PICK i \in Interview, c \in Client, page \in Page :
         i = click[q].id /\ c = click[q].client /\ page = ui[c]
  BY <1>1, MovedFound, ClickTypes
<1>3. /\ Running(q) /\ click[q].op = "Reschedule" /\ page = click[q].was
  BY <1>1, <1>2, MovedFound
<1>4. /\ InvitedSound(page) /\ FoundSound(q) /\ RowsSound
      /\ OneClick /\ ServedSound(q)
  BY <1>2, <1>3, PageFound
<1>5. RowsSound'
  BY <1>1, <1>4 DEF RowsSound
<1>6. PageSound(ui[c])'
  BY <1>1, <1>2, MovedPage
<1>7. /\ click'[q].id = i /\ click'[q].op = "Reschedule"
      /\ click'[q].client = c /\ click'[q].was = page
  BY <1>1, <1>2, <1>3 DEF Carried
<1>8. ui'[c].list = page.list
      /\ ui'[c] = [page EXCEPT !.moving = NoInterview, !.text = NoText]
  BY <1>1, <1>2, FormPage
<1>9. InvitedSound(ui[c])'
  <2>1. Resetting(i)'
    BY <1>1, <1>7 DEF Resetting, Resets
  <2>2. \A j \in Interview : Resetting(j) => j = i
    BY <1>2, <1>3, <1>4, ResetBy DEF Resets
  <2> QED
    BY <1>1, <1>4, <1>8, <2>1, <2>2 DEF InvitedSound
<1>10. FoundSound(q)'
  BY <1>1, <1>4 DEF FoundSound, Carried
<1>11. PageKept(q)'
  BY <1>1, <1>7, <1>8 DEF PageKept
<1>12. ServedSound(q)'
  <2>1. /\ book[i].status = "Planned" /\ book[i].decision = "Pending"
        /\ book[i].comment = ""
    BY <1>1, <1>2, <1>3, <1>4 DEF ServedSound
  <2> QED
    BY <1>1, <1>7, <2>1 DEF ServedSound
<1>13. DecisionSound(q)'
  BY <1>1 DEF DecisionSound
<1> QED
  BY <1>1, <1>2, <1>3, <1>5, <1>6, <1>9, <1>10, <1>11, <1>12, <1>13, SoundBy

LEMMA LoseListSound ==
    ASSUME Alone, WorkflowTypes, WorkflowSound, NEW q \in Click, LoseList(q)
    PROVE  WorkflowSound'
<1>1. PICK old, new \in Page :
         /\ old = ui[click[q].client] /\ new = [old EXCEPT !.list = NoList]
         /\ Show(q, new) /\ old \in Page
  BY ClickTypes, EndPageTypes DEF LoseList
<1>2. Running(q)
  BY DEF LoseList, Running
<1>3. PageSound(old)
  BY <1>1, <1>2, PageFound
<1>4. /\ new.list = NoList /\ new.id = old.id /\ new.view = old.view
      /\ new.moving = old.moving
  <2> HIDE DEF View, NoList
  <2> QED
    BY <1>1 DEF Page
<1>5. \A i \in Interview : ~new.list[i].listed
  <2>1. \A i \in Interview : NoList[i].listed = FALSE
    BY DEF NoList, NoView
  <2> HIDE DEF NoList
  <2> QED
    BY <1>4, <2>1
<1>6. PageSound(new)
  BY <1>3, <1>4, <1>5 DEF PageSound, ListSound, CardSound, MovingSound
<1> QED
  BY <1>1, <1>2, <1>5, <1>6, ShowSound

LEMMA SoundStep ==
    ASSUME Alone, WorkflowTypes, WorkflowSound,
           [WorkflowNext]_workflowVars
    PROVE  WorkflowSound'
<1>1. CASE UNCHANGED workflowVars
  <2>1. UNCHANGED <<book, score, ui, click>>
    BY <1>1 DEF workflowVars
  <2>2. \A i \in Interview : Resetting(i) => Resetting(i)'
    BY <2>1 DEF Resetting, Resets
  <2>3. ASSUME NEW c \in Client
        PROVE  PageSound(ui[c])' /\ InvitedSound(ui[c])'
    <3>1. PageSound(ui'[c]) /\ InvitedSound(ui'[c])
      BY <2>1 DEF WorkflowSound
    <3> QED
      BY <2>1, <2>2, <3>1, PageStays, InvitedStays
  <2>4. ASSUME NEW q \in Click
        PROVE  ClickSound(q)'
    <3>1. Listing' = Listing
      BY <2>1 DEF Listing
    <3>2. ClickSound(q)
      BY DEF WorkflowSound
    <3> QED
      BY <2>1, <3>1, <3>2
         DEF ClickSound, Running, FoundSound, PageKept, ServedSound,
             DecisionSound, News, Takes, TurnsDown
  <2> QED
    BY <2>1, <2>3, <2>4 DEF WorkflowSound, OneClick, RowsSound, Running
<1>2. ASSUME NEW q \in Click, Handle(q)
      PROVE  WorkflowSound'
  BY <1>2, ServeSound, ServeScheduleSound, ServeMoveSound, ServeResetSound,
     ServeClearSound, ServeListSound, SettleSound, ShowAnswerSound,
     ShowListSound, OtherSound, ShowDecisionSound, LoseSound,
     LoseClearSound, LoseListSound
     DEF Handle
<1> QED
  BY <1>1, <1>2, UseThePageSound, ButtonSound DEF WorkflowNext


(***************************************************************************)
(* What the page offers, the tables bear: whatever a lone user who waits   *)
(* for answers still sees after lost requests, no button of the page makes *)
(* a request that would leave an interview in a state of no use.           *)
(***************************************************************************)
LEMMA SoundAlways ==
    ASSUME Alone
    PROVE  WorkflowSpec => [](WorkflowTypes /\ WorkflowSound)
<1>1. WorkflowInit => WorkflowTypes /\ WorkflowSound
  BY TypesInit, SoundInit
<1>2. WorkflowTypes /\ WorkflowSound /\ [WorkflowNext]_workflowVars
        => (WorkflowTypes /\ WorkflowSound)'
  BY TypesStep, SoundStep
<1> QED
  BY <1>1, <1>2, PTL DEF WorkflowSpec

(***************************************************************************)
(* Rescheduling starts an interview afresh, though handleRescheduleSubmit  *)
(* takes three requests and the last of them clears the scores that the    *)
(* list showed, not those that are stored.                                 *)
(***************************************************************************)
THEOREM RescheduledAlways ==
    ASSUME Alone
    PROVE  WorkflowSpec => RescheduledAfresh
<1> DEFINE Afresh ==
        \A q \in Click :
          LET i == click[q].id IN
          Ends(q, "list") /\ click[q].op = "Reschedule" =>
              /\ book[i].status = "Planned" /\ book[i].decision = "Pending"
              /\ book[i].comment = ""
              /\ \A k \in Competency : score[i][k] \in {0, NoScore}
<1>1. WorkflowTypes /\ WorkflowSound => [Afresh]_workflowVars
  BY DEF WorkflowSound, ClickSound, ServedSound, Running, Ends
<1>2. WorkflowSpec => [][Afresh]_workflowVars
  <2> HIDE DEF Afresh
  <2> QED
    BY <1>1, SoundAlways, PTL DEF WorkflowSpec
<1> QED
  BY <1>2 DEF RescheduledAfresh

-----------------------------------------------------------------------------
(* Completion.                                                             *)

(* Buttons write no row: requests do.                                      *)
LEMMA ButtonsWriteNothing ==
    ASSUME NEW c \in Client,
           UseThePage(c) \/ \E q \in Click : ClickButton(q, c)
    PROVE  UNCHANGED <<book, score, behind>>
<1>1. CASE UseThePage(c)
  BY <1>1 DEF UseThePage, openInterviewCard, CloseCard, TypeComment,
              startEditInterview, cancelEditInterview, handleReschedule,
              CancelReschedule, UnchangedApi
<1>2. ASSUME NEW q \in Click, ClickButton(q, c)
      PROVE  UNCHANGED <<book, score, behind>>
  BY <1>2 DEF ClickButton, saveComment, handleStarClickInterview,
              ClickComplete, ClickCancel, ClickDecide,
              handleRescheduleSubmit, saveEditInterview,
              handleArchiveInterview, handleUnarchiveInterview,
              handleDeleteInterview, handleScheduleSubmit, loadData, Plain,
              Send, UnchangedApi
<1> QED
  BY <1>1, <1>2

(* An interview is completed by the one request of an operation.           *)
LEMMA ServedAlone ==
    ASSUME WorkflowTypes, NEW q \in Click, Handle(q), NEW i \in Interview,
           book[i].status = "Planned", book'[i].status = "Completed"
    PROVE  Serve(q) /\ click[q].id = i
<1>1. book \in [Interview -> Row]
  BY DEF WorkflowTypes, WorkflowTypeOK
<1>2. ASSUME ServeSchedule(q)
      PROVE  FALSE
  <2>1. NewRow.status = "Planned"
    BY DEF NewRow
  <2> HIDE DEF NewRow
  <2> QED
    BY <1>1, <1>2, <2>1 DEF ServeSchedule, Write
<1>3. ASSUME ServeMove(q)
      PROVE  FALSE
  BY <1>1, <1>3 DEF ServeMove, Write, Row
<1>4. ASSUME ServeReset(q)
      PROVE  FALSE
  BY <1>1, <1>4 DEF ServeReset, Write, StatusSet, Row
<1>5. ASSUME ServeClear(q)
      PROVE  FALSE
  BY <1>1, <1>5 DEF ServeClear, Write
<1>6. ASSUME ArchiveOther(q)
      PROVE  FALSE
  BY <1>1, <1>6 DEF ArchiveOther, Archived, Row
<1>7. Serve(q)
  BY <1>2, <1>3, <1>4, <1>5, <1>6
     DEF Handle, ServeList, ShowAnswer, ShowList, Settle, ShowDecision,
         Refuse, Lose, LoseClear, LoseOther, LoseList, Show, UnchangedApi
<1> QED
  BY <1>7, ServedRow

LEMMA CompletedStep ==
    ASSUME WorkflowTypes, WorkflowSound, [WorkflowNext]_workflowVars,
           NEW i \in Interview,
           book[i].status = "Planned", book'[i].status = "Completed"
    PROVE  Rated(score[i]) /\ book'[i].comment # ""
<1>1. PICK q \in Click : Serve(q) /\ click[q].id = i
  <2>1. book' # book
    OBVIOUS
  <2>2. \A c \in Client : ~UseThePage(c)
                         /\ ~\E q \in Click : ClickButton(q, c)
    BY <2>1, ButtonsWriteNothing
  <2>3. PICK q \in Click : Handle(q)
    BY <2>1, <2>2 DEF WorkflowNext, workflowVars
  <2> QED
    BY <2>3, ServedAlone
<1> DEFINE op == click[q].op
<1>2. PICK was \in Page : was = click[q].was
  BY ClickTypes
<1>3. /\ Running(q) /\ book[i] \in Row /\ book'[i] = Rewritten(q, book[i])
      /\ op \notin {"Load", "Schedule", "Reschedule"}
  BY <1>1, <1>2, ServedRow
<1>4. op \in {"Comment", "Star", "Complete", "Cancel", "Decide", "Archive",
              "Unarchive", "Edit", "Delete"}
  BY <1>2, <1>3, ClickTypes DEF WorkflowTypes, StepFits, Ops
<1>5. /\ op = "Comment" => book'[i].status = was.view.status
      /\ op = "Complete" => book'[i].comment = Said(was)
      /\ op = "Cancel" => book'[i].status = "Cancelled"
      /\ op \in {"Star", "Archive", "Unarchive", "Edit", "Delete"} =>
            book'[i].status = book[i].status
  BY <1>2, <1>3, RewrittenRow
<1>6. FoundSound(q) /\ PageSound(was)
  BY <1>1, <1>2, <1>3, PageFound DEF Serve
<1>7. op = "Complete"
  <2>1. op # "Comment"
    BY <1>2, <1>5, <1>6 DEF FoundSound
  <2>2. op # "Decide"
    BY <1>1, <1>2, <1>6 DEF FoundSound, PageSound, CardSound, ViewSound
  <2> QED
    BY <1>4, <1>5, <2>1, <2>2
<1>8. /\ was.id = i /\ was.view.status = "Planned"
      /\ Rated(was.view.scores) /\ Said(was) # ""
  BY <1>1, <1>2, <1>6, <1>7 DEF FoundSound
<1>9. \A k \in Competency :
         /\ was.view.scores[k] \notin {0, NoScore} => score[i][k] # 0
         /\ was.view.scores[k] = NoScore <=> score[i][k] = NoScore
  BY <1>6, <1>8 DEF PageSound, CardSound, ViewSound
<1>10. \A k \in Competency : score[i][k] \in 0 .. 5 \cup {NoScore}
  BY DEF WorkflowTypes, WorkflowTypeOK, Matrix
<1>11. Rated(score[i])
  <2>1. \E k \in Competency : score[i][k] # NoScore
    BY <1>8, <1>9 DEF Rated
  <2>2. ASSUME NEW k \in Competency, score[i][k] # NoScore
        PROVE  score[i][k] > 0
    <3>1. was.view.scores[k] \in 0 .. 5 \cup {NoScore}
      BY <1>2 DEF Page, View, Matrix
    <3>2. was.view.scores[k] # 0
      <4>1. was.view.scores[k] > 0
        BY <1>8, <1>9, <2>2 DEF Rated
      <4>2. was.view.scores[k] \in 0 .. 5
        BY <1>9, <2>2, <3>1
      <4> QED
        BY <4>1, <4>2
    <3>3. score[i][k] # 0
      BY <1>9, <2>2, <3>2
    <3> QED
      BY <1>10, <2>2, <3>3
  <2> QED
    BY <2>1, <2>2 DEF Rated
<1> QED
  BY <1>5, <1>7, <1>8, <1>11

(***************************************************************************)
(* An interview is completed with every competency scored and a comment,   *)
(* though it is the page that looks, at its own copy of the scores, and    *)
(* the API that completes.                                                 *)
(***************************************************************************)
THEOREM CompletedAlways ==
    ASSUME Alone
    PROVE  WorkflowSpec => CompletedProperly
<1> DEFINE Properly ==
        \A i \in Interview :
          book[i].status = "Planned" /\ book'[i].status = "Completed"
            => Rated(score[i]) /\ book'[i].comment # ""
<1>1. WorkflowTypes /\ WorkflowSound /\ [WorkflowNext]_workflowVars
        => [Properly]_workflowVars
  BY CompletedStep
<1>2. WorkflowSpec => [][Properly]_workflowVars
  <2> HIDE DEF Properly
  <2> QED
    BY <1>1, SoundAlways, PTL DEF WorkflowSpec
<1> QED
  BY <1>2 DEF CompletedProperly

-----------------------------------------------------------------------------
(* What is shown is what is stored.                                        *)

LEMMA ListingStays ==
    ASSUME UNCHANGED <<book, score>>
    PROVE  Listing' = Listing
BY DEF Listing

LEMMA CurrentInit ==
    ASSUME WorkflowInit
    PROVE  ListCurrent
<1>1. \A q \in Click : ~Running(q)
  BY NoClickTypes DEF WorkflowInit, Running, ClickSteps
<1>2. \A c \in Client : ui[c].list = Listing
  BY DEF WorkflowInit, FirstPage
<1> QED
  BY <1>1, <1>2 DEF ListCurrent

(* The user alone, of whom a click is.                                     *)
LEMMA CurrentBy ==
    ASSUME Alone, WorkflowTypes, WorkflowSound, NEW q \in Click,
           NEW c \in Client, OnlyClick(q), Running(q) \/ Idle,
           c \notin behind' =>
              /\ ~Running(q)' => ui'[c].list = Listing'
              /\ Running(q)' => Told(q)'
    PROVE  ListCurrent'
<1>1. \A p \in Click \ {q} : ~Running(p)'
  BY OneClickStep DEF WorkflowSound
<1>2. Idle' => ~Running(q)'
  BY DEF Idle
<1>3. \A d \in Client : d = c
  BY DEF Alone
<1> QED
  BY <1>1, <1>2, <1>3 DEF ListCurrent

LEMMA UseThePageCurrent ==
    ASSUME Alone, WorkflowTypes, ListCurrent, NEW c \in Client,
           UseThePage(c)
    PROVE  ListCurrent'
<1>1. UNCHANGED <<book, score, click, behind>> /\ Idle
  BY Patience
     DEF UseThePage, openInterviewCard, CloseCard, TypeComment,
         startEditInterview, cancelEditInterview, handleReschedule,
         CancelReschedule, UnchangedApi
<1>2. ui'[c].list = ui[c].list
  <2>1. ui \in [Client -> Page]
    BY DEF WorkflowTypes, WorkflowTypeOK
  <2> HIDE DEF View
  <2>2. ASSUME NEW i \in Interview, openInterviewCard(c, i)
        PROVE  ui'[c].list = ui[c].list
    BY <2>1, <2>2 DEF openInterviewCard, Page
  <2>3. ASSUME NEW i \in Interview, startEditInterview(c, i)
        PROVE  ui'[c].list = ui[c].list
    BY <2>1, <2>3 DEF startEditInterview, Page
  <2>4. CASE CloseCard(c)
    BY <2>1, <2>4 DEF CloseCard, Page
  <2>5. CASE TypeComment(c)
    BY <2>1, <2>5 DEF TypeComment, Page
  <2>6. CASE cancelEditInterview(c)
    BY <2>1, <2>6 DEF cancelEditInterview, Page
  <2>7. CASE handleReschedule(c) \/ CancelReschedule(c)
    BY <2>1, <2>7 DEF handleReschedule, CancelReschedule, Page
  <2> QED
    BY <2>2, <2>3, <2>4, <2>5, <2>6, <2>7 DEF UseThePage
<1>3. Listing' = Listing
  BY <1>1, ListingStays
<1>4. \A q \in Click : ~Running(q)'
  BY <1>1 DEF Idle, Running
<1> QED
  BY <1>1, <1>2, <1>3, <1>4 DEF ListCurrent, Alone

LEMMA ButtonCurrent ==
    ASSUME Alone, WorkflowTypes, WorkflowSound, ListCurrent,
           NEW c \in Client, NEW q \in Click, ClickButton(q, c)
    PROVE  ListCurrent'
<1>1. /\ OnlyClick(q) /\ Idle /\ UNCHANGED <<book, score, behind>>
      /\ click'[q].step = "send" /\ click'[q].client = c
      /\ ui'[c].list = ui[c].list
  <2>1. CASE loadData(q, c)
    <3>1. ui[c] \in Page /\ ui \in [Client -> Page]
      BY DEF WorkflowTypes, WorkflowTypeOK
    <3>2. ui'[c] = [ui[c] EXCEPT !.shown = FALSE, !.id = NoInterview,
                                 !.view = NoView, !.moving = NoInterview]
      BY <2>1, <3>1, Loading
    <3>3. ui'[c].list = ui[c].list
      <4> HIDE DEF View, NoView
      <4> QED
        BY <3>1, <3>2 DEF Page
    <3>4. Idle
      BY <2>1, Patience DEF loadData
    <3> QED
      BY <2>1, <3>3, <3>4, Loading
  <2>2. ASSUME NEW op \in Ops \ {"none", "Load"}, NEW i \in Interview,
               NEW decision \in Decision, NEW scores \in Matrix,
               Send(q, c, op, i, decision, scores)
        PROVE  /\ OnlyClick(q) /\ Idle /\ UNCHANGED <<book, score, behind>>
               /\ click'[q].step = "send" /\ click'[q].client = c
               /\ ui'[c].list = ui[c].list
    <3>1. SentAs(q, c, op, i, decision, scores)
      BY <2>2, Sent
    <3>2. Idle
      BY <2>2, Patience DEF Send
    <3> QED
      BY <3>1, <3>2 DEF SentAs
  <2> QED
    BY <2>1, <2>2, ButtonKinds
<1>2. c \notin behind => ui[c].list = Listing
  BY <1>1 DEF ListCurrent
<1>3. Listing' = Listing
  BY <1>1, ListingStays
<1>4. c \notin behind' => Told(q)'
  BY <1>1, <1>2, <1>3 DEF Told
<1>5. Running(q)'
  BY <1>1 DEF Running
<1> QED
  BY <1>1, <1>4, <1>5, CurrentBy

(* One row is written, and stays in the list or out of it.                 *)
LEMMA WrittenListing ==
    ASSUME NEW i \in Interview,
           \A j \in Interview \ {i} :
               book'[j] = book[j] /\ score'[j] = score[j]
    PROVE  Listing' = [Listing EXCEPT ![i] =
                 IF book'[i].stored /\ ~book'[i].deleted
                 THEN mapInterviewFromApi(book'[i], score'[i]) ELSE NoView]
BY DEF Listing

LEMMA PutListing ==
    ASSUME NEW i \in Interview,
           \A j \in Interview \ {i} :
               book'[j] = book[j] /\ score'[j] = score[j],
           book'[i].stored = book[i].stored,
           book'[i].deleted = book[i].deleted
    PROVE  Put(Listing, i, mapInterviewFromApi(book'[i], score'[i]))
              = Listing'
<1> DEFINE a == mapInterviewFromApi(book'[i], score'[i])
           there == book[i].stored /\ ~book[i].deleted
<1>1. Listing' = [Listing EXCEPT ![i] = IF there THEN a ELSE NoView]
  BY WrittenListing
<1>2. Listing[i].listed <=> there
  BY DEF Listing, mapInterviewFromApi, NoView
<1>3. ~there => Listing[i] = NoView
  BY DEF Listing
<1>4. Listing = [j \in Interview |-> Listing[j]]
  BY DEF Listing
<1> HIDE DEF a, there
<1>5. Put(Listing, i, a) = IF there THEN [Listing EXCEPT ![i] = a]
                                    ELSE Listing
  BY <1>2 DEF Put
<1>6. ~there => [Listing EXCEPT ![i] = NoView] = Listing
  BY <1>3, <1>4
<1> QED
  BY <1>1, <1>5, <1>6 DEF a

(* What a handler found in the list is stored.                             *)
LEMMA FoundCurrent ==
    ASSUME WorkflowTypes, WorkflowSound, ListCurrent, NEW q \in Click,
           click[q].step = "send", click[q].op # "Load",
           click[q].client \notin behind
    PROVE  click[q].was.list = Listing
<1>1. Running(q) /\ click[q].client \in Client
  BY ClickTypes DEF Running
<1>2. ui[click[q].client] = click[q].was
  BY <1>1, PageFound
<1> QED
  BY <1>1, <1>2 DEF ListCurrent, Told

LEMMA RewrittenMarks ==
    ASSUME WorkflowTypes, NEW q \in Click, NEW r \in Row,
           Running(q), click[q].op \notin {"Load", "Schedule", "Reschedule"}
    PROVE  LET s == Rewritten(q, r)
               op == click[q].op
           IN  /\ s.stored = r.stored
               /\ op # "Delete" => s.deleted = r.deleted
               /\ op = "Delete" => s.deleted = TRUE
               /\ op = "Comment" =>
                     /\ s.comment = click[q].was.draft
                     /\ s.archived = r.archived
                     /\ s.decision = r.decision
                     /\ s.status = click[q].was.view.status
<1>1. click[q].was.draft \in Text
  BY ClickTypes
<1>2. click[q].was.draft # Keep
  BY <1>1 DEF Text, Keep
<1>3. click[q].op \in {"Comment", "Star", "Complete", "Cancel", "Decide",
                       "Archive", "Unarchive", "Edit", "Delete"}
  BY ClickTypes DEF WorkflowTypes, StepFits, Ops
<1> QED
  BY <1>2, <1>3
     DEF Rewritten, StatusSet, Decided, Archived, Given, Row

(* The matrix of a request that has no scores.                             *)
LEMMA Unmarked ==
    ASSUME NEW m \in Matrix
    PROVE  Marked(m, NoMatrix) = m
BY DEF Marked, NoMatrix, Matrix

LEMMA ServeCurrent ==
    ASSUME Alone, WorkflowTypes, WorkflowSound, ListCurrent,
           NEW q \in Click, Serve(q)
    PROVE  ListCurrent'
<1> DEFINE op == click[q].op
<1>1. PICK i \in Interview, c \in Client :
         i = click[q].id /\ c = click[q].client
  BY ServedRow, ClickTypes
<1>2. /\ Running(q) /\ op \notin {"Load", "Schedule", "Reschedule"}
      /\ OnlyClick(q) /\ Carried(q) /\ UNCHANGED <<ui, behind>>
      /\ click[q].step = "send" /\ click'[q].step = "answer"
      /\ book'[i] = Rewritten(q, book[i])
      /\ score'[i] = Marked(score[i], click[q].scores)
      /\ click'[q].answer = mapInterviewFromApi(book'[i], score'[i])
      /\ \A j \in Interview \ {i} :
            book'[j] = book[j] /\ score'[j] = score[j]
  BY <1>1, ServedRow
<1>3. /\ book[i] \in Row /\ score[i] \in Matrix
      /\ click[q].was \in Page
  BY ClickTypes DEF WorkflowTypes, WorkflowTypeOK
<1>4. /\ book'[i].stored = book[i].stored
      /\ op # "Delete" => book'[i].deleted = book[i].deleted
      /\ op = "Delete" => book'[i].deleted = TRUE
      /\ op = "Comment" =>
            /\ book'[i].comment = click[q].was.draft
            /\ book'[i].archived = book[i].archived
            /\ book'[i].decision = book[i].decision
            /\ book'[i].status = click[q].was.view.status
  BY <1>2, <1>3, RewrittenMarks
<1>5. ASSUME c \notin behind'
      PROVE  ToShow(q)' = Listing'
  <2>1. click[q].was.list = Listing
    BY <1>1, <1>2, <1>5, FoundCurrent
  <2>2. PICK was \in Page : was = click[q].was
    BY <1>3
  <2>3. /\ click'[q].op = op /\ click'[q].id = i /\ click'[q].was = was
        /\ was.list = Listing
    BY <1>1, <1>2, <2>1, <2>2 DEF Carried
  <2>4. CASE op \notin {"Comment", "Delete", "Schedule"}
    <3>1. Put(Listing, i, mapInterviewFromApi(book'[i], score'[i]))
            = Listing'
      BY <1>2, <1>4, <2>4, PutListing
    <3> QED
      BY <1>2, <2>3, <2>4, <3>1 DEF ToShow
  <2>5. CASE op = "Delete"
    <3>1. Listing' = [Listing EXCEPT ![i] = NoView]
      BY <1>2, <1>4, <2>5, WrittenListing
    <3> QED
      BY <2>3, <2>5, <3>1 DEF ToShow
  <2>6. CASE op = "Comment"
    <3>1. /\ FoundSound(q) /\ PageSound(was)
      BY <1>1, <1>2, <2>2, PageFound
    <3>2. was.id = i /\ was.view.status = "Planned"
      BY <1>1, <2>2, <2>6, <3>1 DEF FoundSound
    <3>3. Listing[i].listed => Alike(was.view, Listing[i])
      BY <2>3, <3>1, <3>2 DEF PageSound, CardSound
    <3>4. score'[i] = score[i]
      BY <1>2, <1>3, <2>6, <3>1, Unmarked DEF FoundSound
    <3> DEFINE noted == [Listing[i] EXCEPT !.comment = was.draft]
    <3>5. ASSUME Listing[i].listed
          PROVE  mapInterviewFromApi(book'[i], score'[i]) = noted
      <4>1. Listing[i] = mapInterviewFromApi(book[i], score[i])
        BY <3>5 DEF Listing, NoView
      <4>2. book[i].status = "Planned"
        BY <3>2, <3>3, <3>5, <4>1 DEF Alike, mapInterviewFromApi
      <4>3. /\ book'[i].status = book[i].status
            /\ book'[i].decision = book[i].decision
            /\ book'[i].comment = was.draft
            /\ book'[i].archived = book[i].archived
        BY <1>4, <2>2, <2>6, <3>2, <4>2
      <4>4. noted = [mapInterviewFromApi(book[i], score[i]) EXCEPT
                        !.comment = was.draft]
        BY <4>1
      <4>5. Label(book'[i]) = Label(book[i])
        BY <4>3 DEF Label
      <4>6. mapInterviewFromApi(book'[i], score'[i]) =
            [listed |-> TRUE, status |-> book[i].status,
             decision |-> Label(book[i]), comment |-> was.draft,
             archived |-> book[i].archived, scores |-> score[i]]
        BY <3>4, <4>3, <4>5 DEF mapInterviewFromApi
      <4> HIDE DEF noted
      <4> QED
        BY <4>4, <4>6 DEF mapInterviewFromApi
    <3>6. Put(Listing, i, mapInterviewFromApi(book'[i], score'[i]))
            = Listing'
      BY <1>2, <1>4, <2>6, PutListing
    <3> HIDE DEF noted
    <3>7. Put(Listing, i, noted) = Listing'
      BY <3>5, <3>6 DEF Put
    <3> QED
      BY <2>3, <2>6, <3>7 DEF ToShow, noted
  <2> QED
    BY <1>2, <2>4, <2>5, <2>6
<1>6. c \notin behind' => Told(q)'
  BY <1>2, <1>5 DEF Told
<1>7. Running(q)'
  BY <1>2 DEF Running
<1> QED
  BY <1>2, <1>6, <1>7, CurrentBy

LEMMA ServeScheduleCurrent ==
    ASSUME Alone, WorkflowTypes, WorkflowSound, ListCurrent,
           NEW q \in Click, ServeSchedule(q)
    PROVE  ListCurrent'
<1>1. PICK m \in {NoMatrix, Zeros} : Write(q, NewRow, m, "answer")
  BY DEF ServeSchedule
<1>2. Running(q) /\ click[q].op = "Schedule" /\ click[q].step = "send"
      /\ UNCHANGED <<ui, behind>>
  BY DEF ServeSchedule, Running
<1>3. PICK i \in Interview, c \in Client :
         i = click[q].id /\ c = click[q].client
  BY <1>2, ClickTypes
<1>4. /\ OnlyClick(q) /\ Carried(q) /\ click'[q].step = "answer"
      /\ click'[q].answer = mapInterviewFromApi(NewRow, m)
      /\ book' = [book EXCEPT ![i] = NewRow]
      /\ score' = [score EXCEPT ![i] = m]
  <2>1. NewRow \in Row /\ m \in Matrix
    BY <1>1, RowTypes, BlankTypes
  <2> QED
    BY <1>1, <1>2, <1>3, <2>1, Written DEF ClickSteps
<1>5. /\ book'[i] = NewRow /\ score'[i] = m
      /\ \A j \in Interview \ {i} :
            book'[j] = book[j] /\ score'[j] = score[j]
  BY <1>4 DEF WorkflowTypes, WorkflowTypeOK
<1>6. Listing' = [Listing EXCEPT ![i] = mapInterviewFromApi(NewRow, m)]
  <2>1. NewRow.stored /\ ~NewRow.deleted
    BY DEF NewRow
  <2> QED
    BY <1>5, <2>1, WrittenListing
<1>7. c \notin behind' => Told(q)'
  <2> SUFFICES ASSUME c \notin behind'
               PROVE  ToShow(q)' = Listing'
    BY <1>4 DEF Told
  <2>1. click[q].was.list = Listing
    BY <1>2, <1>3, FoundCurrent
  <2>2. click'[q].op = "Schedule" /\ click'[q].id = i
        /\ click'[q].was.list = Listing
    BY <1>2, <1>3, <1>4, <2>1 DEF Carried
  <2> QED
    BY <1>4, <1>6, <2>2 DEF ToShow
<1>8. Running(q)'
  BY <1>4 DEF Running
<1> QED
  BY <1>2, <1>4, <1>7, <1>8, CurrentBy

(* A handler in the midst of its requests, or one that an answer was lost  *)
(* to, has nothing to tell.                                                *)
LEMMA SilentCurrent ==
    ASSUME Alone, WorkflowTypes, WorkflowSound, NEW q \in Click,
           OnlyClick(q), Running(q),
           click[q].client \notin behind' =>
              click'[q].step \in {"reset", "clear", "reload", "list"}
    PROVE  ListCurrent'
<1>1. PICK c \in Client : c = click[q].client
  BY ClickTypes
<1>2. c \notin behind' => Running(q)' /\ Told(q)'
  BY <1>1 DEF Running, Told
<1> QED
  BY <1>2, CurrentBy

LEMMA MoveCurrent ==
    ASSUME Alone, WorkflowTypes, WorkflowSound, NEW q \in Click,
           \/ ServeMove(q) \/ ServeReset(q) \/ ServeClear(q)
           \/ ServeList(q) \/ LoseClear(q)
    PROVE  ListCurrent'
<1>1. CASE ServeList(q)
  <2>1. Running(q)
    BY <1>1 DEF ServeList, Running
  <2> QED
    BY <1>1, <2>1, Listed, SilentCurrent
<1>2. CASE LoseClear(q)
  BY <1>2, Uncleared, SilentCurrent DEF Running
<1>3. CASE ServeMove(q) \/ ServeReset(q) \/ ServeClear(q)
  <2>1. /\ Running(q) /\ click[q].op = "Reschedule"
        /\ click[q].id \in Interview
    BY <1>3, ClickTypes
       DEF ServeMove, ServeReset, ServeClear, Running, WorkflowTypes,
           StepFits
  <2>2. PICK r \in Row, m \in Matrix, step \in {"reset", "clear", "reload"} :
           Write(q, r, m, step)
    <3> DEFINE i == click[q].id
               cleared == [k \in Competency |->
                    IF click[q].was.list[i].scores[k] = NoScore THEN NoScore
                                                                ELSE 0]
    <3>1. book[i] \in Row /\ score[i] \in Matrix
      BY <2>1 DEF WorkflowTypes, WorkflowTypeOK
    <3>2. cleared \in Matrix
      BY DEF Matrix
    <3>3. /\ [book[i] EXCEPT !.comment = ""] \in Row
          /\ StatusSet(book[i], "Planned", "Pending", "") \in Row
          /\ Marked(score[i], cleared) \in Matrix
      <4>1. /\ [book[i] EXCEPT !.comment = ""] \in Row
            /\ StatusSet(book[i], "Planned", "Pending", "") \in Row
        BY <3>1 DEF Row, StatusSet, Given, Keep, Status, Decision, Text
      <4> QED
        BY <3>1, <3>2, <4>1, MarkedTypes
    <3> HIDE DEF Row, Matrix
    <3>4. CASE ServeMove(q)
      BY <3>1, <3>3, <3>4 DEF ServeMove
    <3>5. CASE ServeReset(q)
      BY <3>1, <3>3, <3>5 DEF ServeReset
    <3>6. CASE ServeClear(q)
      BY <3>1, <3>3, <3>6 DEF ServeClear
    <3> QED
      BY <1>3, <3>4, <3>5, <3>6
  <2>3. OnlyClick(q) /\ click'[q].step = step
    BY <2>1, <2>2, Written DEF ClickSteps
  <2> QED
    BY <2>1, <2>3, SilentCurrent
<1> QED
  BY <1>1, <1>2, <1>3

LEMMA LoseCurrent ==
    ASSUME Alone, WorkflowTypes, WorkflowSound, ListCurrent,
           NEW q \in Click,
           \/ Refuse(q) \/ Lose(q) \/ LoseOther(q) \/ LoseList(q)
    PROVE  ListCurrent'
<1>1. Running(q)
  BY DEF Refuse, Lose, LoseOther, LoseList, Running
<1>2. CASE Refuse(q)
  <2>1. PICK c \in Client : c = click[q].client
    BY ClickTypes
  <2>2. OnlyClick(q) /\ click'[q].step = "done"
    BY <1>2, Ended DEF Refuse
  <2>3. UNCHANGED <<ui, behind>> /\ Listing' = Listing
    BY <1>2, ListingStays DEF Refuse, UnchangedApi
  <2>4. c \notin behind => ui[c].list = Listing
    BY <1>1, <1>2, <2>1 DEF ListCurrent, Told, Refuse
  <2> QED
    BY <1>1, <2>1, <2>2, <2>3, <2>4, CurrentBy DEF Running
<1>3. CASE Lose(q)
  <2>1. OnlyClick(q)
    BY <1>3, Ended DEF Lose
  <2> QED
    BY <1>1, <1>3, <2>1, SilentCurrent DEF Lose
<1>4. CASE LoseOther(q)
  <2>1. PICK j \in click[q].todo :
           click' = [click EXCEPT ![q].todo = @ \ {j}, ![q].lost = TRUE]
    BY <1>4 DEF LoseOther
  <2>2. OnlyClick(q)
    BY <2>1, OneLess
  <2> QED
    BY <1>1, <1>4, <2>2, SilentCurrent DEF LoseOther
<1>5. CASE LoseList(q)
  <2>1. OnlyClick(q)
    BY <1>5, Ended DEF LoseList, Show
  <2> QED
    BY <1>1, <1>5, <2>1, SilentCurrent DEF LoseList
<1> QED
  BY <1>2, <1>3, <1>4, <1>5

(* A handler that ends by showing what is stored.                          *)
LEMMA EndCurrent ==
    ASSUME Alone, WorkflowTypes, WorkflowSound, NEW q \in Click, Running(q),
           NEW page \in Page, Show(q, page),
           click[q].client \notin behind' => page.list = Listing
    PROVE  ListCurrent'
<1>1. PICK c \in Client : c = click[q].client
  BY ClickTypes
<1>2. /\ OnlyClick(q) /\ UNCHANGED <<book, score>>
      /\ click'[q].step = "done" /\ ui' = [ui EXCEPT ![c] = page]
  BY <1>1, ShowTypes
<1>3. ui'[c] = page /\ Listing' = Listing
  BY <1>2, ListingStays DEF WorkflowTypes, WorkflowTypeOK
<1> QED
  BY <1>1, <1>2, <1>3, CurrentBy DEF Running

LEMMA ShowAnswerCurrent ==
    ASSUME Alone, WorkflowTypes, WorkflowSound, ListCurrent,
           NEW q \in Click, ShowAnswer(q)
    PROVE  ListCurrent'
<1>1. /\ Running(q) /\ click[q].step = "answer"
      /\ click[q].op \notin Decisions /\ Show(q, Shown(q))
      /\ UNCHANGED behind
  BY DEF ShowAnswer, Running
<1>2. click[q].op \in {"Comment", "Star", "Archive", "Unarchive", "Edit",
                       "Delete", "Schedule"}
  BY <1>1, ClickTypes
     DEF Running, WorkflowTypes, StepFits, Decisions, Ops
<1>3. Shown(q).list = ToShow(q)
  BY <1>1, <1>2, ShownFields DEF ToShow
<1>4. click[q].client \notin behind => ToShow(q) = Listing
  BY <1>1, ClickTypes DEF ListCurrent, Told
<1> QED
  BY <1>1, <1>3, <1>4, ShownTypes, EndCurrent

LEMMA ShowListCurrent ==
    ASSUME Alone, WorkflowTypes, WorkflowSound, NEW q \in Click, ShowList(q)
    PROVE  ListCurrent'
<1>1. Running(q) /\ click[q].step = "list" /\ Show(q, ListPage(q))
  BY DEF ShowList, Running, ListPage
<1>2. click[q].list = Listing
  BY <1>1, PageFound DEF ServedSound
<1>3. ListPage(q).list = click[q].list
  <2> DEFINE l == click[q].list
             i == click[q].id
             page == [ui[click[q].client] EXCEPT !.list = l]
  <2>1. ui[click[q].client] \in Page
    BY ClickTypes
  <2> HIDE DEF l, i
  <2>2. page.list = l
        /\ DOMAIN page = {"list", "shown", "id", "view", "draft", "editing",
                          "text", "moving"}
    <3> HIDE DEF View
    <3> QED
      BY <2>1 DEF Page
  <2> HIDE DEF page
  <2>3. [page EXCEPT !.id = i, !.view = l[i]].list = l
    BY <2>2
  <2> QED
    BY <2>2, <2>3 DEF ListPage, page, l, i
<1> QED
  BY <1>1, <1>2, <1>3, EndPageTypes, EndCurrent

LEMMA SettleCurrent ==
    ASSUME Alone, WorkflowTypes, WorkflowSound, ListCurrent,
           NEW q \in Click, Settle(q)
    PROVE  ListCurrent'
<1>1. /\ Running(q) /\ click[q].step = "answer"
      /\ click[q].op \in Decisions
  BY DEF Settle, Running
<1>2. PICK news, also :
         /\ news = Put(click[q].was.list, click[q].id, click[q].answer)
         /\ also = AlsoArchived(q, news)
  OBVIOUS
<1>3. PICK c \in Client : c = click[q].client
  BY ClickTypes
<1>4. /\ OnlyClick(q) /\ UNCHANGED <<book, score, ui, behind>>
      /\ click'[q].step = "archive"
      /\ click'[q].todo = {j \in also : ~news[j].archived}
      /\ click'[q].list = MarkAll(news, also)
      /\ news \in [Interview -> View] /\ also \subseteq Interview
  BY <1>2, Settled
<1>5. Listing' = Listing
  BY <1>4, ListingStays
<1>6. ASSUME c \notin behind
      PROVE  Told(q)'
  <2>1. news = Listing
    <3>1. ToShow(q) = Listing
      BY <1>1, <1>3, <1>6 DEF ListCurrent, Told
    <3> QED
      BY <1>1, <1>2, <3>1 DEF ToShow, Decisions
  <2>2. MarkAll(news, also) = MarkAll(news, {j \in also : ~news[j].archived})
    <3>1. ASSUME NEW j \in Interview, j \in also, news[j].archived
          PROVE  [news[j] EXCEPT !.archived = TRUE] = news[j]
      <4>1. news[j] \in View /\ news[j].archived = TRUE
        BY <1>4, <3>1 DEF View
      <4> QED
        BY <4>1 DEF View
    <3> QED
      BY <3>1 DEF MarkAll
  <2> QED
    BY <1>4, <1>5, <2>1, <2>2 DEF Told
<1>7. Running(q)'
  BY <1>4 DEF Running
<1> QED
  BY <1>1, <1>3, <1>4, <1>6, <1>7, CurrentBy

(* One more of them is archived, and shown so in the list that will be.    *)
(* Two views that differ in the archive mark alone.                        *)
LEMMA Remarked ==
    ASSUME NEW l, NEW s, NEW d, NEW c, NEW a, NEW m, NEW mark
    PROVE  [[listed |-> l, status |-> s, decision |-> d, comment |-> c,
             archived |-> a, scores |-> m] EXCEPT !.archived = mark]
           = [listed |-> l, status |-> s, decision |-> d, comment |-> c,
              archived |-> mark, scores |-> m]
OBVIOUS

LEMMA ArchivedView ==
    ASSUME NEW r, NEW s, NEW m, NEW mark, s.status = r.status,
           s.decision = r.decision, s.comment = r.comment, s.archived = mark
    PROVE  mapInterviewFromApi(s, m)
              = [mapInterviewFromApi(r, m) EXCEPT !.archived = mark]
<1>1. PICK l : l = TRUE
  OBVIOUS
<1>2. PICK a : a = r.archived
  OBVIOUS
<1>3. Label(s) = Label(r)
  BY DEF Label
<1>4. mapInterviewFromApi(s, m) =
      [listed |-> l, status |-> r.status, decision |-> Label(r),
       comment |-> r.comment, archived |-> mark, scores |-> m]
  BY <1>1, <1>3 DEF mapInterviewFromApi
<1>5. mapInterviewFromApi(r, m) =
      [listed |-> l, status |-> r.status, decision |-> Label(r),
       comment |-> r.comment, archived |-> a, scores |-> m]
  BY <1>1, <1>2 DEF mapInterviewFromApi
<1> QED
  BY <1>4, <1>5, Remarked

LEMMA ArchivedListing ==
    ASSUME WorkflowTypes, NEW j \in Interview, Listing[j].listed,
           UNCHANGED score, book' = [book EXCEPT ![j] = Archived(@, TRUE)],
           NEW todo, j \in todo
    PROVE  MarkAll(Listing', todo \ {j}) = MarkAll(Listing, todo)
<1>1. book \in [Interview -> Row]
  BY DEF WorkflowTypes, WorkflowTypeOK
<1>2. /\ book'[j] = Archived(book[j], TRUE) /\ book[j] \in Row
      /\ \A i \in Interview \ {j} : book'[i] = book[i]
  BY <1>1
<1>3. book[j].stored /\ ~book[j].deleted
  BY DEF Listing, NoView
<1>4. Listing[j] = mapInterviewFromApi(book[j], score[j])
  BY <1>3 DEF Listing
<1>5. /\ Archived(book[j], TRUE).stored = book[j].stored
      /\ Archived(book[j], TRUE).deleted = book[j].deleted
      /\ Archived(book[j], TRUE).status = book[j].status
      /\ Archived(book[j], TRUE).decision = book[j].decision
      /\ Archived(book[j], TRUE).comment = book[j].comment
      /\ Archived(book[j], TRUE).archived = TRUE
  BY <1>2 DEF Archived, Row
<1>6. /\ book'[j].stored = book[j].stored
      /\ book'[j].deleted = book[j].deleted
      /\ book'[j].status = book[j].status
      /\ book'[j].decision = book[j].decision
      /\ book'[j].comment = book[j].comment
      /\ book'[j].archived = TRUE
  BY <1>2, <1>5
<1>7. Listing' = [Listing EXCEPT ![j] =
                     mapInterviewFromApi(book'[j], score'[j])]
  BY <1>2, <1>3, <1>6, WrittenListing
<1>8. mapInterviewFromApi(book'[j], score'[j])
         = [Listing[j] EXCEPT !.archived = TRUE]
  <2>1. PICK r, t, m, mark :
           r = book[j] /\ t = book'[j] /\ m = score[j] /\ mark = TRUE
    OBVIOUS
  <2>2. /\ t.status = r.status /\ t.decision = r.decision
        /\ t.comment = r.comment /\ t.archived = mark
    BY <1>6, <2>1
  <2>3. mapInterviewFromApi(t, m)
           = [mapInterviewFromApi(r, m) EXCEPT !.archived = mark]
    BY <2>2, ArchivedView
  <2> QED
    BY <1>4, <2>1, <2>3
<1>9. DOMAIN Listing = Interview
  BY DEF Listing
<1> QED
  BY <1>7, <1>8, <1>9 DEF MarkAll

LEMMA ArchiveOtherCurrent ==
    ASSUME Alone, MayArchive, WorkflowTypes, WorkflowSound, ListCurrent,
           NEW q \in Click, ArchiveOther(q)
    PROVE  ListCurrent'
<1>1. Running(q) /\ click[q].step = "archive"
      /\ UNCHANGED <<score, ui, behind>>
  BY DEF ArchiveOther, Running
<1>2. PICK c \in Client : c = click[q].client
  BY ClickTypes
<1>3. PICK j \in click[q].todo :
         /\ book' = [book EXCEPT ![j] = Archived(@, TRUE)]
         /\ click' = [click EXCEPT ![q].todo = @ \ {j}]
  BY <1>2 DEF ArchiveOther, MayArchive
<1>4. /\ OnlyClick(q) /\ click'[q].step = "archive"
      /\ click'[q].todo = click[q].todo \ {j}
      /\ click'[q].list = click[q].list
  BY <1>1, <1>3, ClickTypes, OneLess
<1>5. ASSUME c \notin behind
      PROVE  Told(q)'
  <2>1. click[q].list = MarkAll(Listing, click[q].todo)
    BY <1>1, <1>2, <1>5 DEF ListCurrent, Told
  <2>2. j \in Interview /\ click[q].list[j].listed
    BY <1>1, <1>3, PageFound DEF DecisionSound, OfSameCandidate
  <2>3. Listing[j].listed
    <3>1. Listing \in [Interview -> View]
      BY ListingTypes DEF WorkflowTypes, WorkflowTypeOK
    <3>2. MarkAll(Listing, click[q].todo)[j].listed = Listing[j].listed
      BY <2>2, <3>1, MarkAllTypes
    <3> QED
      BY <2>1, <2>2, <3>2
  <2>4. MarkAll(Listing', click[q].todo \ {j})
           = MarkAll(Listing, click[q].todo)
    BY <1>1, <1>3, <2>2, <2>3, ArchivedListing
  <2> QED
    BY <1>4, <2>1, <2>4 DEF Told
<1>6. Running(q)'
  BY <1>4 DEF Running
<1> QED
  BY <1>1, <1>2, <1>4, <1>5, <1>6, CurrentBy

(* When nothing is left to be archived, the list to be shown is stored.    *)
LEMMA AllArchived ==
    ASSUME WorkflowTypes, ListCurrent, NEW q \in Click,
           click[q].step = "archive", click[q].todo = {},
           click[q].client \notin behind
    PROVE  click[q].list = Listing
<1>1. click[q].list = MarkAll(Listing, {})
  BY ClickTypes DEF ListCurrent, Told, Running
<1>2. MarkAll(Listing, {}) = Listing
  BY DEF MarkAll, Listing
<1> QED
  BY <1>1, <1>2

LEMMA ShowDecisionCurrent ==
    ASSUME Alone, WorkflowTypes, WorkflowSound, ListCurrent,
           NEW q \in Click, ShowDecision(q)
    PROVE  ListCurrent'
<1>1. /\ Running(q) /\ click[q].step = "archive" /\ click[q].todo = {}
      /\ Show(q, DecisionPage(q)) /\ UNCHANGED behind
  BY DEF ShowDecision, DecisionPage, Running
<1>2. DecisionPage(q).list = click[q].list
  <2> DEFINE l == click[q].list
             page == [ui[click[q].client] EXCEPT !.list = l]
  <2>1. ui[click[q].client] \in Page
    BY ClickTypes
  <2> HIDE DEF l
  <2>2. page.list = l
        /\ DOMAIN page = {"list", "shown", "id", "view", "draft", "editing",
                          "text", "moving"}
    <3> HIDE DEF View
    <3> QED
      BY <2>1 DEF Page
  <2> HIDE DEF page
  <2> QED
    BY <2>2 DEF DecisionPage, Selected, page, l
<1>3. click[q].client \notin behind => click[q].list = Listing
  BY <1>1, AllArchived
<1> QED
  BY <1>1, <1>2, <1>3, EndPageTypes, EndCurrent

LEMMA CurrentStep ==
    ASSUME Alone, MayArchive, WorkflowTypes, WorkflowSound, ListCurrent,
           [WorkflowNext]_workflowVars
    PROVE  ListCurrent'
<1>1. CASE UNCHANGED workflowVars
  <2>1. UNCHANGED <<book, score, ui, click, behind>>
    BY <1>1 DEF workflowVars
  <2>2. Listing' = Listing
    BY <2>1, ListingStays
  <2> QED
    BY <2>1, <2>2 DEF ListCurrent, Told, Running, Idle, ToShow
<1>2. ASSUME NEW q \in Click, Handle(q)
      PROVE  ListCurrent'
  BY <1>2, ServeCurrent, ServeScheduleCurrent, MoveCurrent, LoseCurrent,
     ShowAnswerCurrent, ShowListCurrent, SettleCurrent,
     ArchiveOtherCurrent, ShowDecisionCurrent
     DEF Handle
<1> QED
  BY <1>1, <1>2, UseThePageCurrent, ButtonCurrent DEF WorkflowNext

LEMMA CurrentAlways ==
    ASSUME Alone, MayArchive
    PROVE  WorkflowSpec => [](WorkflowTypes /\ WorkflowSound /\ ListCurrent)
<1>1. WorkflowInit => WorkflowTypes /\ WorkflowSound /\ ListCurrent
  BY TypesInit, SoundInit, CurrentInit
<1>2. WorkflowTypes /\ WorkflowSound /\ ListCurrent
        /\ [WorkflowNext]_workflowVars
        => (WorkflowTypes /\ WorkflowSound /\ ListCurrent)'
  BY TypesStep, SoundStep, CurrentStep
<1> QED
  BY <1>1, <1>2, PTL DEF WorkflowSpec

(***************************************************************************)
(* What a lone user sees is what is stored, although the page makes up its *)
(* list and its card itself, from answers and from guesses, on a copy that *)
(* is as old as the click.                                                 *)
(***************************************************************************)
THEOREM ScreenCurrentAlways ==
    ASSUME Alone, MayArchive
    PROVE  WorkflowSpec => []ScreenCurrent
<1>1. WorkflowTypes /\ WorkflowSound /\ ListCurrent => ScreenCurrent
  <2> SUFFICES ASSUME WorkflowSound, ListCurrent, Idle,
                      NEW c \in Client \ behind
               PROVE  /\ ui[c].list = Listing
                      /\ \A i \in Interview :
                            ui[c].id = i /\ Listing[i].listed =>
                               /\ ui[c].view.status = Listing[i].status
                               /\ ui[c].view.decision = Listing[i].decision
                               /\ ui[c].view.scores = Listing[i].scores
    BY DEF ScreenCurrent
  <2>1. ui[c].list = Listing
    BY DEF ListCurrent
  <2>2. CardSound(ui[c])
    BY DEF WorkflowSound, PageSound
  <2> QED
    BY <2>1, <2>2 DEF CardSound, Alike
<1> QED
  BY <1>1, CurrentAlways, PTL

-----------------------------------------------------------------------------
(* What a decision archives.                                               *)

LEMMA EndsArchived ==
    ASSUME WorkflowTypes, WorkflowSound, ListCurrent,
           [WorkflowNext]_workflowVars, NEW q \in Click, Ends(q, "archive")
    PROVE  click[q].todo = {} /\ click[q].list = Listing
<1>1. click[q].step = "archive" /\ click'[q].step = "done"
      /\ click[q].client \notin behind
  BY DEF Ends
<1>2. click[q].todo = {}
  <2>1. ASSUME NEW c \in Client, UseThePage(c)
        PROVE  FALSE
    BY <1>1, <2>1
       DEF UseThePage, openInterviewCard, CloseCard, TypeComment,
           startEditInterview, cancelEditInterview, handleReschedule,
           CancelReschedule
  <2>2. ASSUME NEW c \in Client, NEW p \in Click, ClickButton(p, c)
        PROVE  FALSE
    <3>1. click[p].step = "new" /\ OnlyClick(p)
      <4>1. CASE loadData(p, c)
        BY <4>1, Loading
      <4>2. ASSUME NEW op \in Ops \ {"none", "Load"}, NEW i \in Interview,
                   NEW decision \in Decision, NEW scores \in Matrix,
                   Send(p, c, op, i, decision, scores)
            PROVE  click[p].step = "new" /\ OnlyClick(p)
        <5>1. SentAs(p, c, op, i, decision, scores)
          BY <4>2, Sent
        <5> QED
          BY <5>1 DEF SentAs
      <4> QED
        BY <2>2, <4>1, <4>2, ButtonKinds
    <3>2. p # q
      BY <1>1, <3>1
    <3> QED
      BY <1>1, <3>1, <3>2 DEF OnlyClick, WorkflowTypes, WorkflowTypeOK
  <2>3. PICK p \in Click : Handle(p)
    BY <1>1, <2>1, <2>2 DEF WorkflowNext, workflowVars
  <2>4. Running(p)
    BY <2>3
       DEF Handle, Serve, ServeSchedule, ServeMove, ServeReset, ServeClear,
           ServeList, ShowAnswer, ShowList, Settle, ArchiveOther,
           ShowDecision, Refuse, Lose, LoseClear, LoseOther, LoseList,
           Running
  <2>5. p = q
    BY <1>1, <2>4 DEF WorkflowSound, OneClick, Running
  <2>6. ~ArchiveOther(q) /\ ~LoseOther(q)
    <3>1. ASSUME ArchiveOther(q) \/ LoseOther(q)
          PROVE  FALSE
      <4>1. PICK j \in click[q].todo, lost \in BOOLEAN :
               \/ click' = [click EXCEPT ![q].todo = @ \ {j}]
                  /\ lost = click[q].lost
               \/ click' = [click EXCEPT ![q].todo = @ \ {j},
                                         ![q].lost = TRUE]
                  /\ lost = TRUE
        BY <3>1, ClickTypes DEF ArchiveOther, LoseOther
      <4>2. click'[q].step = click[q].step
        BY <4>1, OneLess
      <4> QED
        BY <1>1, <4>2
    <3> QED
      BY <3>1
  <2> QED
    BY <1>1, <2>3, <2>5, <2>6
       DEF Handle, Serve, ServeSchedule, ServeMove, ServeReset, ServeClear,
           ServeList, ShowAnswer, ShowList, Settle, ShowDecision, Refuse,
           Lose, LoseClear, LoseList
<1> QED
  BY <1>1, <1>2, AllArchived

(* What the list to be shown says to be archived is.                       *)
LEMMA ArchivedEnd ==
    ASSUME WorkflowTypes, WorkflowSound, ListCurrent,
           [WorkflowNext]_workflowVars, NEW q \in Click, Ends(q, "archive")
    PROVE  LET i == click[q].id
               all == OfSameCandidate(Listing, i)
           IN  /\ Takes(q) => \A j \in all \ {i} : book[j].archived
               /\ TurnsDown(q)
                     /\ (\A j \in all : Concluded(Listing[j])
                                        /\ TurnedDown(Listing[j]))
                     => \A j \in all : book[j].archived
<1>1. click[q].list = Listing
  BY EndsArchived
<1>2. Running(q) /\ click[q].step = "archive"
  BY DEF Ends, Running
<1>3. \A j \in Interview :
         Listing[j].listed => Listing[j].archived = book[j].archived
  BY DEF Listing, NoView, mapInterviewFromApi
<1>4. DecisionSound(q)
  BY <1>2, PageFound
<1> QED
  BY <1>1, <1>2, <1>3, <1>4 DEF DecisionSound, OfSameCandidate

(***************************************************************************)
(* Once a candidate is hired or kept in reserve, the candidate's other     *)
(* interviews are archived: those that handleDecision picks from the list  *)
(* of the click, and there are no others.                                  *)
(***************************************************************************)
THEOREM OthersArchivedAlways ==
    ASSUME Alone, MayArchive
    PROVE  WorkflowSpec => OthersArchived
<1> DEFINE Others ==
        \A q \in Click : Ends(q, "archive") /\ Takes(q) =>
          \A j \in Interview \ {click[q].id} :
              CandidateOf[j] = CandidateOf[click[q].id] /\ Listing[j].listed
                => book[j].archived
<1>1. WorkflowTypes /\ WorkflowSound /\ ListCurrent
        /\ [WorkflowNext]_workflowVars => [Others]_workflowVars
  BY ArchivedEnd DEF OfSameCandidate
<1>2. WorkflowSpec => [][Others]_workflowVars
  <2> HIDE DEF Others
  <2> QED
    BY <1>1, CurrentAlways, PTL DEF WorkflowSpec
<1> QED
  BY <1>2 DEF OthersArchived

(***************************************************************************)
(* Once the last open interview of a candidate is turned down or           *)
(* cancelled, all of the candidate's interviews are archived.              *)
(***************************************************************************)
THEOREM TurnedDownAlways ==
    ASSUME Alone, MayArchive
    PROVE  WorkflowSpec => TurnedDownArchived
<1> DEFINE TurnedAway ==
        \A q \in Click :
          LET all == OfSameCandidate(Listing, click[q].id) IN
          (/\ Ends(q, "archive") /\ TurnsDown(q)
           /\ \A j \in all : Concluded(Listing[j]) /\ TurnedDown(Listing[j]))
            => \A j \in all : book[j].archived
<1>1. WorkflowTypes /\ WorkflowSound /\ ListCurrent
        /\ [WorkflowNext]_workflowVars => [TurnedAway]_workflowVars
  BY ArchivedEnd
<1>2. WorkflowSpec => [][TurnedAway]_workflowVars
  <2> HIDE DEF TurnedAway
  <2> QED
    BY <1>1, CurrentAlways, PTL DEF WorkflowSpec
<1> QED
  BY <1>2 DEF TurnedDownArchived

-----------------------------------------------------------------------------
(***************************************************************************)
(* The book of interviews, for any browsers, clicks and faults: nothing is *)
(* known of an interview, to a page or to a handler, but that there is     *)
(* one, and that is enough, for rows are never removed.                    *)
(***************************************************************************)
ListKnown(l) == \A i \in Interview : l[i].listed => book[i].stored

PageKnown(page) ==
    /\ ListKnown(page.list)
    /\ \A i \in Interview : page.id = i => book[i].stored

(* The request that plans an interview has not been served.                *)
Plans(q) == click[q].step = "send" /\ click[q].op = "Schedule"

ClickKnown(q) ==
    Running(q) =>
        /\ click[q].op # "Load" =>
              /\ PageKnown(click[q].was)
              /\ book[click[q].id].stored <=> ~Plans(q)
        /\ click[q].op # "Star" => click[q].scores = NoMatrix
        /\ click[q].step \in {"list", "archive"} => ListKnown(click[q].list)
        /\ click[q].step = "archive" =>
              \A j \in click[q].todo : book[j].stored

PlansApart ==
    \A p, q \in Click :
        Plans(p) /\ Plans(q) /\ click[p].id = click[q].id => p = q

Known == /\ \A c \in Client : PageKnown(ui[c])
         /\ \A q \in Click : ClickKnown(q)
         /\ PlansApart

(* No row goes away, and none appears that another click is about to plan. *)
Grows(q) ==
    /\ \A i \in Interview : book[i].stored => book'[i].stored
    /\ \A i \in Interview : book'[i].stored =>
          book[i].stored \/ (Plans(q) /\ click[q].id = i)

LEMMA KnownInit == WorkflowInit => Known
<1> SUFFICES ASSUME WorkflowInit
             PROVE  Known
  OBVIOUS
<1>1. ListKnown(Listing)
  BY DEF ListKnown, Listing, NoView
<1>2. \A c \in Client : PageKnown(ui[c])
  <2>1. ASSUME NEW c \in Client
        PROVE  PageKnown(ui[c])
    <3>1. ui[c].list = Listing /\ ui[c].id = NoInterview
      <4> HIDE DEF Listing, NoList, NoView
      <4> QED
        BY DEF WorkflowInit, FirstPage
    <3> QED
      BY <1>1, <3>1, WorkflowAssumption DEF PageKnown
  <2> QED
    BY <2>1
<1>3. \A q \in Click : click[q].step = "new"
  BY NoClickTypes DEF WorkflowInit, ClickSteps
<1> QED
  BY <1>2, <1>3 DEF Known, ClickKnown, PlansApart, Plans, Running

(* What is known stays known.                                              *)
LEMMA KnownStays ==
    ASSUME \A i \in Interview : book[i].stored => book'[i].stored, NEW page,
           PageKnown(page)
    PROVE  PageKnown(page)'
BY DEF PageKnown, ListKnown

(* One click takes a step.                                                 *)
LEMMA KnownBy ==
    ASSUME WorkflowTypes, Known, NEW q \in Click, OnlyClick(q), Grows(q),
           \A c \in Client : PageKnown(ui[c])',
           ClickKnown(q)', ~Plans(q)'
    PROVE  Known'
<1>1. click \in [Click -> ClickState]
  BY DEF WorkflowTypes, WorkflowTypeOK
<1>2. ASSUME NEW p \in Click, p # q
      PROVE  click'[p] = click[p] /\ ClickKnown(p)' /\ (Plans(p)' <=> Plans(p))
  <2>1. click'[p] = click[p]
    BY <1>1, <1>2 DEF OnlyClick
  <2>2. SUFFICES ASSUME Running(p)
                 PROVE  ClickKnown(p)'
    BY <2>1 DEF ClickKnown, Running, Plans
  <2>3. /\ click[p].op # "Load" =>
              /\ PageKnown(click[p].was)
              /\ book[click[p].id].stored <=> ~Plans(p)
        /\ click[p].op # "Star" => click[p].scores = NoMatrix
        /\ click[p].step \in {"list", "archive"} => ListKnown(click[p].list)
        /\ click[p].step = "archive" =>
              \A j \in click[p].todo : book[j].stored
    BY <2>2 DEF Known, ClickKnown
  <2>4. click[p].todo \subseteq Interview
    BY ClickTypes
  <2>5. click[p].op # "Load" => click[p].id \in Interview
    BY <2>2, ClickTypes
  <2>6. /\ click[p].op # "Load" => PageKnown(click[p].was)'
        /\ click[p].step \in {"list", "archive"} => ListKnown(click[p].list)'
    BY <2>1, <2>3 DEF PageKnown, ListKnown, Grows
  <2>7. click[p].step = "archive" =>
           \A j \in click[p].todo : book'[j].stored
    BY <2>3, <2>4 DEF Grows
  <2>8. ASSUME click[p].op # "Load"
        PROVE  book'[click[p].id].stored <=> ~Plans(p)
    <3>1. CASE Plans(p)
      <4>1. ~book[click[p].id].stored
        BY <2>3, <2>8, <3>1
      <4>2. ~(Plans(q) /\ click[q].id = click[p].id)
        BY <1>2, <3>1 DEF Known, PlansApart
      <4> QED
        BY <2>5, <2>8, <3>1, <4>1, <4>2 DEF Grows
    <3>2. CASE ~Plans(p)
      BY <2>3, <2>5, <2>8, <3>2 DEF Grows
    <3> QED
      BY <3>1, <3>2
  <2> QED
    BY <2>1, <2>3, <2>6, <2>7, <2>8 DEF ClickKnown, Plans
<1>3. PlansApart'
  BY <1>2 DEF Known, PlansApart, Plans
<1> QED
  BY <1>2, <1>3 DEF Known

(* The page alone, and buttons.                                            *)
LEMMA UseThePageKnown ==
    ASSUME WorkflowTypes, Known, NEW c \in Client, UseThePage(c)
    PROVE  Known'
<1>1. UNCHANGED <<book, score, click, behind>>
  BY DEF UseThePage, openInterviewCard, CloseCard, TypeComment,
         startEditInterview, cancelEditInterview, handleReschedule,
         CancelReschedule, UnchangedApi
<1>2. ui \in [Client -> Page] /\ ui[c] \in Page
  BY DEF WorkflowTypes, WorkflowTypeOK
<1>3. \A d \in Client \ {c} : ui'[d] = ui[d]
  <2> HIDE DEF Page
  <2> QED
    BY <1>2 DEF UseThePage, openInterviewCard, CloseCard, TypeComment,
         startEditInterview, cancelEditInterview, handleReschedule,
         CancelReschedule
<1>4. /\ ui'[c].list = ui[c].list
      /\ \/ ui'[c].id \in {ui[c].id, NoInterview}
         \/ \E i \in Interview : ui'[c].id = i /\ ui[c].list[i].listed
  <2> HIDE DEF NoView, View
  <2>1. ASSUME NEW i \in Interview, openInterviewCard(c, i)
        PROVE  /\ ui'[c].list = ui[c].list
               /\ ui'[c].id = i /\ ui[c].list[i].listed
    BY <1>2, <2>1 DEF openInterviewCard, Page
  <2>2. ASSUME CloseCard(c)
        PROVE  ui'[c].list = ui[c].list /\ ui'[c].id = NoInterview
    BY <1>2, <2>2 DEF CloseCard, Page
  <2>3. ASSUME TypeComment(c)
        PROVE  ui'[c].list = ui[c].list /\ ui'[c].id = ui[c].id
    <3>1. PICK text \in Text :
             ui' = [ui EXCEPT ![c].draft = text, ![c].view.comment = text]
      BY <2>3 DEF TypeComment
    <3> DEFINE v == [ui[c].view EXCEPT !.comment = text]
    <3>2. ui' = [ui EXCEPT ![c].draft = text, ![c].view = v]
      BY <1>2, <3>1 DEF Page
    <3> HIDE DEF v
    <3> QED
      BY <1>2, <3>2 DEF Page
  <2>6. ASSUME cancelEditInterview(c)
        PROVE  ui'[c].list = ui[c].list /\ ui'[c].id = ui[c].id
    BY <1>2, <2>6 DEF cancelEditInterview, Page
  <2>4. ASSUME handleReschedule(c) \/ CancelReschedule(c)
        PROVE  ui'[c].list = ui[c].list /\ ui'[c].id = ui[c].id
    BY <1>2, <2>4 DEF handleReschedule, CancelReschedule, Page
  <2>5. ASSUME NEW i \in Interview, startEditInterview(c, i)
        PROVE  ui'[c].list = ui[c].list /\ ui'[c].id = ui[c].id
    BY <1>2, <2>5 DEF startEditInterview, Page
  <2> QED
    BY <2>1, <2>2, <2>3, <2>4, <2>5, <2>6 DEF UseThePage
<1>5. PageKnown(ui[c])'
  BY <1>1, <1>4, WorkflowAssumption DEF Known, PageKnown, ListKnown
<1>6. \A d \in Client : PageKnown(ui[d])'
  BY <1>1, <1>3, <1>5 DEF Known, PageKnown, ListKnown
<1> QED
  BY <1>1, <1>6
     DEF Known, ClickKnown, PageKnown, ListKnown, PlansApart, Plans, Running

(* What a button asks for is known to be there, or not to be, in time.     *)
LEMMA SendKnown ==
    ASSUME WorkflowTypes, Known, NEW q \in Click, NEW c \in Client,
           NEW op \in Ops \ {"none", "Load"}, NEW i \in Interview,
           NEW decision \in Decision, NEW scores \in Matrix,
           Send(q, c, op, i, decision, scores),
           op # "Star" => scores = NoMatrix,
           book[i].stored <=> op # "Schedule",
           op = "Schedule" => \A p \in Click : click[p].id # i
    PROVE  Known'
<1>1. SentAs(q, c, op, i, decision, scores)
  <2> HIDE DEF Ops, Decision, Matrix
  <2> QED
    BY Sent
<1>2. /\ OnlyClick(q) /\ UNCHANGED <<book, score, ui, behind>>
      /\ click[q].step = "new" /\ click'[q].step = "send"
      /\ click'[q].op = op /\ click'[q].id = i
      /\ click'[q].scores = scores /\ click'[q].was = ui[c]
  BY <1>1 DEF SentAs
<1>4. ClickKnown(q)'
  <2>1. PageKnown(ui[c])'
    BY <1>2 DEF Known, PageKnown, ListKnown
  <2> QED
    BY <1>2, <2>1 DEF ClickKnown, Plans, PageKnown, ListKnown
<1>5. \A d \in Client : PageKnown(ui[d])'
  BY <1>2 DEF Known, PageKnown, ListKnown
<1>6. click \in [Click -> ClickState]
  BY DEF WorkflowTypes, WorkflowTypeOK
<1>7. \A p \in Click \ {q} : click'[p] = click[p]
  BY <1>2, <1>6 DEF OnlyClick
<1>8. \A p \in Click \ {q} : ClickKnown(p)'
  BY <1>2, <1>7 DEF Known, ClickKnown, PageKnown, ListKnown, Plans, Running
<1>9. PlansApart'
  BY <1>2, <1>7 DEF Known, PlansApart, Plans
<1> QED
  BY <1>4, <1>5, <1>8, <1>9 DEF Known

LEMMA ButtonKnown ==
    ASSUME WorkflowTypes, Known, NEW c \in Client, NEW q \in Click,
           ClickButton(q, c)
    PROVE  Known'
<1>1. /\ ui \in [Client -> Page] /\ ui[c] \in Page
      /\ ui[c].view.scores \in Matrix
  BY DEF WorkflowTypes, WorkflowTypeOK, Page, View
<1>2. NoMatrix \in Matrix /\ "Pending" \in Decision
  BY BlankTypes DEF Decision
<1>3. /\ \A i \in Interview : ui[c].list[i].listed => book[i].stored
      /\ OnCard(c) => ui[c].id \in Interview /\ book[ui[c].id].stored
      /\ ui[c].editing # NoInterview => ui[c].editing \in Interview
  BY <1>1 DEF Known, PageKnown, ListKnown, OnCard, Page
<1>4. ASSUME NEW op \in Ops \ {"none", "Load"}, NEW i \in Interview,
             Plain(q, c, op, i), book[i].stored <=> op # "Schedule",
             op = "Schedule" => \A p \in Click : click[p].id # i
      PROVE  Known'
  <2> HIDE DEF Ops, Decision, Matrix, NoMatrix
  <2> QED
    BY <1>2, <1>4, SendKnown DEF Plain
<1>5. CASE loadData(q, c)
  <2>1. /\ OnlyClick(q) /\ UNCHANGED <<book, score>>
        /\ click'[q].step = "send" /\ click'[q].op = "Load"
        /\ click'[q].scores = NoMatrix
        /\ ui' = [ui EXCEPT ![c] = [ui[c] EXCEPT
                 !.shown = FALSE, !.id = NoInterview, !.view = NoView,
                 !.moving = NoInterview]]
    BY <1>5, Loading
  <2>2. ClickKnown(q)' /\ ~Plans(q)' /\ Grows(q)
    BY <2>1 DEF ClickKnown, Plans, Grows
  <2>3. PageKnown(ui[c])'
    <3>1. ui'[c].list = ui[c].list /\ ui'[c].id = NoInterview
      <4> HIDE DEF NoView, View
      <4> QED
        BY <1>1, <2>1 DEF Page
    <3> QED
      BY <2>1, <3>1, WorkflowAssumption DEF Known, PageKnown, ListKnown
  <2>4. \A d \in Client \ {c} : ui'[d] = ui[d]
    BY <1>1, <2>1
  <2>5. \A d \in Client : PageKnown(ui[d])'
    BY <2>1, <2>3, <2>4 DEF Known, PageKnown, ListKnown
  <2> QED
    BY <2>1, <2>2, <2>5, KnownBy
<1>6. CASE handleStarClickInterview(q, c)
  <2>1. PICK k \in Competency, s \in Star :
           Send(q, c, "Star", ui[c].id, "Pending",
                [ui[c].view.scores EXCEPT ![k] = s])
    BY <1>6 DEF handleStarClickInterview
  <2>2. [ui[c].view.scores EXCEPT ![k] = s] \in Matrix
    BY <1>1, WorkflowAssumption DEF Matrix
  <2>3. OnCard(c) /\ "Star" \in Ops \ {"none", "Load"}
    BY <1>6 DEF handleStarClickInterview, Ops
  <2> HIDE DEF Matrix, Decision, Ops
  <2> QED
    BY <1>2, <1>3, <2>1, <2>2, <2>3, SendKnown
<1>7. CASE ClickDecide(q, c)
  <2>1. PICK decision \in Decision \ {"Pending"} :
           Send(q, c, "Decide", ui[c].id, decision, NoMatrix)
    BY <1>7 DEF ClickDecide
  <2>2. OnCard(c) /\ "Decide" \in Ops \ {"none", "Load"}
    BY <1>7 DEF ClickDecide, Actions, Ops
  <2> HIDE DEF Matrix, NoMatrix, Decision, Ops
  <2> QED
    BY <1>2, <1>3, <2>1, <2>2, SendKnown
<1>8. CASE \/ saveComment(q, c) \/ ClickComplete(q, c)
           \/ ClickCancel(q, c) \/ handleRescheduleSubmit(q, c)
           \/ \E i \in Interview : handleDeleteInterview(q, c, i)
  <2>1. \E op \in Ops \ {"none", "Load", "Schedule"}, i \in Interview :
           Plain(q, c, op, i) /\ book[i].stored
    BY <1>3, <1>8
       DEF saveComment, ClickComplete, ClickCancel, handleRescheduleSubmit,
           handleDeleteInterview, Actions, Ops
  <2> QED
    BY <1>4, <2>1
<1>9. CASE \/ saveEditInterview(q, c)
           \/ \E i \in Interview : \/ handleArchiveInterview(q, c, i)
                                   \/ handleUnarchiveInterview(q, c, i)
  <2>1. \E op \in Ops \ {"none", "Load", "Schedule"}, i \in Interview :
           Plain(q, c, op, i) /\ book[i].stored
    BY <1>3, <1>9
       DEF saveEditInterview, handleArchiveInterview,
           handleUnarchiveInterview, Ops
  <2> QED
    BY <1>4, <2>1
<1>10. CASE \E i \in Interview : handleScheduleSubmit(q, c, i)
  BY <1>4, <1>10 DEF handleScheduleSubmit, Ops
<1> QED
  BY <1>5, <1>6, <1>7, <1>8, <1>9, <1>10 DEF ClickButton

-----------------------------------------------------------------------------
(* Handlers.                                                               *)

(* A request is served on the row of the click's interview.                *)
LEMMA WrittenKnown ==
    ASSUME WorkflowTypes, Known, NEW q \in Click, Running(q),
           click[q].op # "Load", NEW r \in Row, NEW m \in Matrix,
           NEW step \in ClickSteps \ {"send", "list", "archive"},
           Write(q, r, m, step), r.stored, UNCHANGED ui \/ CloseForm(q)
    PROVE  Known'
<1>1. /\ OnlyClick(q) /\ Carried(q) /\ click[q].id \in Interview
      /\ click'[q].step = step
      /\ book' = [book EXCEPT ![click[q].id] = r]
  <2> HIDE DEF Row, Matrix, ClickSteps
  <2> QED
    BY Written
<1>2. book \in [Interview -> Row] /\ ui \in [Client -> Page]
  BY DEF WorkflowTypes, WorkflowTypeOK
<1>3. Grows(q)
  BY <1>1, <1>2 DEF Grows, Known, ClickKnown
<1>4. \A c \in Client : PageKnown(ui[c])'
  <2>1. ASSUME NEW c \in Client
        PROVE  ui'[c].list = ui[c].list /\ ui'[c].id = ui[c].id
    BY <1>2 DEF CloseForm, Page
  <2> QED
    BY <1>3, <2>1 DEF Known, PageKnown, ListKnown, Grows
<1>5. ClickKnown(q)' /\ ~Plans(q)'
  <2>1. /\ PageKnown(click[q].was)
        /\ click[q].op # "Star" => click[q].scores = NoMatrix
    BY DEF Known, ClickKnown
  <2>2. PageKnown(click[q].was)'
    BY <1>1, <1>3, <2>1 DEF PageKnown, ListKnown, Grows, Carried
  <2>3. book'[click[q].id].stored
    BY <1>1, <1>2
  <2> QED
    BY <1>1, <2>1, <2>2, <2>3 DEF Carried, ClickKnown, Plans
<1> QED
  BY <1>1, <1>3, <1>4, <1>5, KnownBy

(* A handler ends.                                                         *)
LEMMA EndKnown ==
    ASSUME WorkflowTypes, Known, NEW q \in Click, OnlyClick(q),
           UNCHANGED <<book, score>>, click'[q].step = "done",
           \/ UNCHANGED ui
           \/ \E page \in Page : PageKnown(page)
                  /\ ui' = [ui EXCEPT ![click[q].client] = page]
    PROVE  Known'
<1>1. ClickKnown(q)' /\ ~Plans(q)' /\ Grows(q)
  BY DEF ClickKnown, Plans, Running, Grows
<1>2. \A c \in Client : PageKnown(ui'[c])
  BY DEF Known, WorkflowTypes, WorkflowTypeOK
<1>3. \A c \in Client : PageKnown(ui[c])'
  BY <1>2 DEF PageKnown, ListKnown
<1> QED
  BY <1>1, <1>3, KnownBy

LEMMA ShownKnown ==
    ASSUME WorkflowTypes, Known, NEW q \in Click, ShowAnswer(q)
    PROVE  PageKnown(Shown(q))
<1> DEFINE i == click[q].id
           was == click[q].was
           old == ui[click[q].client]
           new == Shown(q)
<1>1. /\ i \in Interview /\ was.list \in [Interview -> View]
      /\ click[q].client \in Client
      /\ click[q].op \in {"Comment", "Star", "Archive", "Unarchive", "Edit",
                          "Delete", "Schedule"}
  BY ClickTypes
     DEF ShowAnswer, Running, WorkflowTypes, StepFits, Decisions, Ops
<1>2. PageKnown(was) /\ PageKnown(old) /\ book[i].stored
  BY <1>1 DEF ShowAnswer, Known, ClickKnown, Running, Plans
<1>3. \A j \in Interview \ {i} : new.list[j].listed => was.list[j].listed
  BY <1>1, ShownFields DEF ShowAnswer, Put, NoView
<1>4. new.id \in {i, old.id, NoInterview}
  BY <1>1, ShownFields DEF ShowAnswer
<1> HIDE DEF was, old, new
<1> QED
  BY <1>2, <1>3, <1>4, WorkflowAssumption DEF PageKnown, ListKnown, new

LEMMA HandleKnown ==
    ASSUME WorkflowTypes, Known, NEW q \in Click, Handle(q)
    PROVE  Known'
<1>0. /\ book \in [Interview -> Row] /\ score \in [Interview -> Matrix]
      /\ ui \in [Client -> Page] /\ click[q].client \in Client
      /\ click[q].was.list \in [Interview -> View]
      /\ click[q].scores \in Matrix
      /\ click[q].list \in [Interview -> View]
  BY ClickTypes DEF WorkflowTypes, WorkflowTypeOK
<1>1. PageKnown(ui[click[q].client])
  BY <1>0 DEF Known
<1> HIDE DEF Row, Matrix, View, Page, ClickState
<1>2. CASE Serve(q)
  <2> DEFINE r == Rewritten(q, book[click[q].id])
             m == Marked(score[click[q].id], click[q].scores)
  <2>1. /\ Running(q) /\ click[q].id \in Interview
        /\ click[q].op \notin {"Load", "Schedule", "Reschedule"}
    BY <1>2 DEF Serve, Running, WorkflowTypes, StepFits
  <2>2. r \in Row /\ m \in Matrix
    BY <1>0, <1>2, <2>1, RewrittenTypes, MarkedTypes DEF Serve
  <2>3. r.stored
    <3>1. r.stored = book[click[q].id].stored
      BY <1>0, <2>1, RewrittenRow
    <3> HIDE DEF r
    <3> QED
      BY <2>1, <3>1 DEF Known, ClickKnown, Plans
  <2>4. Write(q, r, m, "answer") /\ UNCHANGED ui
    BY <1>2 DEF Serve
  <2> HIDE DEF r, m
  <2> QED
    BY <2>1, <2>2, <2>3, <2>4, WrittenKnown DEF ClickSteps
<1>3. CASE ServeSchedule(q)
  <2>1. Running(q) /\ click[q].op # "Load"
    BY <1>3 DEF ServeSchedule, Running
  <2>2. PICK m \in {NoMatrix, Zeros} : Write(q, NewRow, m, "answer")
    BY <1>3 DEF ServeSchedule
  <2>3. NewRow \in Row /\ m \in Matrix /\ NewRow.stored
    BY <2>2, RowTypes, BlankTypes DEF NewRow
  <2> HIDE DEF NewRow
  <2> QED
    BY <1>3, <2>1, <2>2, <2>3, WrittenKnown DEF ServeSchedule, ClickSteps
<1>4. CASE ServeMove(q)
  <2> DEFINE r == [book[click[q].id] EXCEPT !.comment = ""]
  <2>1. Running(q) /\ click[q].op = "Reschedule" /\ click[q].id \in Interview
    BY <1>4 DEF ServeMove, Running, WorkflowTypes, StepFits
  <2>2. book[click[q].id].stored
    BY <2>1 DEF Known, ClickKnown, Plans
  <2>3. r \in Row /\ r.stored
    <3>1. book[click[q].id] \in Row
      BY <1>0, <2>1
    <3> QED
      BY <2>2, <3>1 DEF Row, Text
  <2>4. Write(q, r, score[click[q].id], "reset") /\ UNCHANGED ui
    BY <1>4 DEF ServeMove
  <2> HIDE DEF r
  <2> QED
    BY <1>0, <2>1, <2>3, <2>4, WrittenKnown DEF ClickSteps
<1>5. CASE ServeReset(q)
  <2> DEFINE r == StatusSet(book[click[q].id], "Planned", "Pending", "")
             next == IF HasMatrix(q) THEN "clear" ELSE "reload"
  <2>1. Running(q) /\ click[q].op = "Reschedule" /\ click[q].id \in Interview
    BY <1>5 DEF ServeReset, Running, WorkflowTypes, StepFits
  <2>2. book[click[q].id].stored
    BY <2>1 DEF Known, ClickKnown, Plans
  <2>3. r \in Row /\ r.stored
    <3>1. book[click[q].id] \in Row
      BY <1>0, <2>1
    <3> QED
      BY <2>2, <3>1 DEF StatusSet, Given, Keep, Row, Status, Decision, Text
  <2>4. Write(q, r, score[click[q].id], next)
        /\ (UNCHANGED ui \/ CloseForm(q))
    BY <1>5 DEF ServeReset
  <2>5. next \in ClickSteps \ {"send", "list", "archive"}
    BY DEF ClickSteps
  <2> HIDE DEF r, next
  <2> QED
    BY <1>0, <2>1, <2>3, <2>4, <2>5, WrittenKnown
<1>6. CASE ServeClear(q)
  <2> DEFINE zeros == [k \in Competency |->
                IF click[q].was.list[click[q].id].scores[k] = NoScore
                THEN NoScore ELSE 0]
             m == Marked(score[click[q].id], zeros)
  <2>1. Running(q) /\ click[q].op = "Reschedule" /\ click[q].id \in Interview
    BY <1>6 DEF ServeClear, Running, WorkflowTypes, StepFits
  <2>2. book[click[q].id].stored /\ book[click[q].id] \in Row
    BY <1>0, <2>1 DEF Known, ClickKnown, Plans
  <2>3. m \in Matrix
    <3>1. zeros \in Matrix
      BY DEF Matrix
    <3> QED
      BY <1>0, <2>1, <3>1, MarkedTypes
  <2>4. Write(q, book[click[q].id], m, "reload") /\ CloseForm(q)
    BY <1>6 DEF ServeClear
  <2> HIDE DEF m
  <2> QED
    BY <2>1, <2>2, <2>3, <2>4, WrittenKnown DEF ClickSteps
<1>7. CASE ServeList(q)
  <2>1. /\ OnlyClick(q) /\ Carried(q) /\ UNCHANGED <<book, score, ui>>
        /\ click'[q].step = "list" /\ click'[q].list = Listing
    BY <1>7, Listed
  <2>2. ListKnown(Listing)
    BY DEF ListKnown, Listing, NoView
  <2> HIDE DEF Listing
  <2>3. Grows(q) /\ \A c \in Client : PageKnown(ui[c])'
    BY <2>1 DEF Grows, Known, PageKnown, ListKnown
  <2>4. ClickKnown(q)' /\ ~Plans(q)'
    BY <1>7, <2>1, <2>2
       DEF ServeList, Known, ClickKnown, Plans, PageKnown, ListKnown,
           Carried, Running, WorkflowTypes, StepFits
  <2> QED
    BY <2>1, <2>3, <2>4, KnownBy
<1>8. CASE Settle(q)
  <2> DEFINE news == Put(click[q].was.list, click[q].id, click[q].answer)
             also == AlsoArchived(q, news)
  <2>1. /\ OnlyClick(q) /\ Carried(q) /\ UNCHANGED <<book, score, ui>>
        /\ click'[q].step = "archive"
        /\ click'[q].todo = {j \in also : ~news[j].archived}
        /\ click'[q].list = MarkAll(news, also)
        /\ news \in [Interview -> View] /\ also \subseteq Interview
    BY <1>8, Settled
  <2>2. /\ click[q].step = "answer" /\ click[q].op \in Decisions
        /\ PageKnown(click[q].was) /\ book[click[q].id].stored
        /\ click[q].op # "Star" => click[q].scores = NoMatrix
    BY <1>8 DEF Settle, Known, ClickKnown, Running, Plans, Decisions
  <2>3. ListKnown(news)
    BY <2>2 DEF Put, PageKnown, ListKnown
  <2>4. \A j \in also : news[j].listed /\ j \in Interview
    <3> HIDE DEF news
    <3> QED
      BY DEF also, AlsoArchived, OfSameCandidate
  <2> HIDE DEF news, also
  <2>5. ListKnown(MarkAll(news, also))
    BY <2>1, <2>3, MarkAllTypes DEF ListKnown
  <2>6. \A j \in click'[q].todo : book[j].stored
    BY <2>1, <2>3, <2>4 DEF ListKnown
  <2>7. Grows(q) /\ \A c \in Client : PageKnown(ui[c])'
    BY <2>1 DEF Grows, Known, PageKnown, ListKnown
  <2>8. ClickKnown(q)' /\ ~Plans(q)'
    BY <2>1, <2>2, <2>5, <2>6
       DEF ClickKnown, Plans, PageKnown, ListKnown, Carried
  <2> QED
    BY <2>1, <2>7, <2>8, KnownBy
<1>9. CASE ShowAnswer(q)
  <2>1. Shown(q) \in Page /\ PageKnown(Shown(q))
    BY <1>9, ShownTypes, ShownKnown DEF ShowAnswer
  <2>2. OnlyClick(q) /\ click'[q].step = "done" /\ UNCHANGED <<book, score>>
        /\ ui' = [ui EXCEPT ![click[q].client] = Shown(q)]
    BY <1>9, <2>1, ShowTypes DEF ShowAnswer
  <2> QED
    BY <2>1, <2>2, EndKnown
<1>10. CASE ShowList(q)
  <2>1. Show(q, ListPage(q)) /\ click[q].step = "list"
    BY <1>10 DEF ShowList, ListPage
  <2>2. ListPage(q) \in Page
    BY <2>1, EndPageTypes
  <2>3. PageKnown(ListPage(q))
    <3>1. /\ ListKnown(click[q].list)
          /\ click[q].op # "Load" => book[click[q].id].stored
      BY <2>1 DEF Known, ClickKnown, Running, Plans
    <3>2. /\ ListPage(q).list = click[q].list
          /\ \/ ListPage(q).id = ui[click[q].client].id
             \/ ListPage(q).id = click[q].id /\ click[q].op = "Reschedule"
      <4>1. ui[click[q].client] \in Page
        BY <1>0
      <4> QED
        BY <4>1 DEF ListPage, Page
    <3> QED
      BY <1>1, <3>1, <3>2 DEF PageKnown, ListKnown
  <2>4. OnlyClick(q) /\ click'[q].step = "done" /\ UNCHANGED <<book, score>>
        /\ ui' = [ui EXCEPT ![click[q].client] = ListPage(q)]
    BY <2>1, <2>2, ShowTypes
  <2> QED
    BY <2>2, <2>3, <2>4, EndKnown
<1>11. CASE ArchiveOther(q)
  <2>1. PICK j \in click[q].todo :
           /\ book' = IF CanEdit(click[q].client)
                      THEN [book EXCEPT ![j] = Archived(@, TRUE)] ELSE book
           /\ click' = [click EXCEPT ![q].todo = @ \ {j}]
    BY <1>11 DEF ArchiveOther
  <2>2. /\ click[q].step = "archive" /\ UNCHANGED ui
        /\ j \in Interview /\ book[j] \in Row
    BY <1>0, <1>11, <2>1, ClickTypes DEF ArchiveOther
  <2>3. /\ OnlyClick(q) /\ Carried(q) /\ click'[q].step = click[q].step
        /\ click'[q].list = click[q].list
        /\ click'[q].todo = click[q].todo \ {j}
    BY <2>1, OneLess, ClickTypes
  <2>4. \A i \in Interview : book'[i].stored = book[i].stored
    BY <1>0, <2>1, <2>2 DEF Archived, Row
  <2>5. Grows(q) /\ \A c \in Client : PageKnown(ui[c])'
    BY <2>2, <2>4 DEF Grows, Known, PageKnown, ListKnown
  <2>6. click[q].todo \subseteq Interview
        /\ (click[q].op # "Load" => click[q].id \in Interview)
    BY <2>2, ClickTypes DEF Running
  <2>7. ClickKnown(q)' /\ ~Plans(q)'
    BY <2>2, <2>3, <2>4, <2>6
       DEF Known, ClickKnown, Plans, PageKnown, ListKnown, Carried, Running
  <2> QED
    BY <2>3, <2>5, <2>7, KnownBy
<1>12. CASE ShowDecision(q)
  <2>1. Show(q, DecisionPage(q)) /\ click[q].step = "archive"
    BY <1>12 DEF ShowDecision, DecisionPage
  <2>2. DecisionPage(q) \in Page
    BY <2>1, EndPageTypes
  <2>3. PageKnown(DecisionPage(q))
    <3>1. ListKnown(click[q].list) /\ book[click[q].id].stored
      BY <2>1 DEF Known, ClickKnown, Running, Plans, WorkflowTypes,
                  StepFits, Decisions
    <3>2. /\ DecisionPage(q).list = click[q].list
          /\ DecisionPage(q).id \in {ui[click[q].client].id, click[q].id}
      <4>1. ui[click[q].client] \in Page
        BY <1>0
      <4> QED
        BY <4>1 DEF DecisionPage, Selected, Page
    <3> QED
      BY <1>1, <3>1, <3>2 DEF PageKnown, ListKnown
  <2>4. OnlyClick(q) /\ click'[q].step = "done" /\ UNCHANGED <<book, score>>
        /\ ui' = [ui EXCEPT ![click[q].client] = DecisionPage(q)]
    BY <2>1, <2>2, ShowTypes
  <2> QED
    BY <2>2, <2>3, <2>4, EndKnown
<1>13. CASE Refuse(q) \/ Lose(q)
  BY <1>13, Ended, EndKnown DEF Refuse, Lose, UnchangedApi
<1>14. CASE LoseClear(q)
  <2>1. /\ OnlyClick(q) /\ Carried(q) /\ UNCHANGED <<book, score>>
        /\ click[q].step = "clear" /\ click'[q].step = "reload"
        /\ CloseForm(q)
    BY <1>14, Uncleared
  <2>2. ASSUME NEW c \in Client
        PROVE  ui'[c].list = ui[c].list /\ ui'[c].id = ui[c].id
    BY <1>0, <2>1 DEF CloseForm, Page
  <2>3. Grows(q) /\ \A c \in Client : PageKnown(ui[c])'
    BY <2>1, <2>2 DEF Grows, Known, PageKnown, ListKnown
  <2>4. ClickKnown(q)' /\ ~Plans(q)'
    BY <2>1 DEF Known, ClickKnown, Plans, PageKnown, ListKnown, Carried,
                Running
  <2> QED
    BY <2>1, <2>3, <2>4, KnownBy
<1>15. CASE LoseOther(q)
  <2>1. PICK j \in click[q].todo :
           click' = [click EXCEPT ![q].todo = @ \ {j}, ![q].lost = TRUE]
    BY <1>15 DEF LoseOther
  <2>2. /\ OnlyClick(q) /\ Carried(q) /\ click'[q].step = click[q].step
        /\ click'[q].list = click[q].list
        /\ click'[q].todo = click[q].todo \ {j}
    BY <2>1, OneLess
  <2>3. click[q].step = "archive" /\ UNCHANGED <<book, score, ui>>
    BY <1>15 DEF LoseOther, UnchangedApi
  <2>4. Grows(q) /\ \A c \in Client : PageKnown(ui[c])'
    BY <2>3 DEF Grows, Known, PageKnown, ListKnown
  <2>5. ClickKnown(q)' /\ ~Plans(q)'
    BY <2>2, <2>3 DEF Known, ClickKnown, Plans, PageKnown, ListKnown,
                      Carried, Running
  <2> QED
    BY <2>2, <2>4, <2>5, KnownBy
<1>16. CASE LoseList(q)
  <2> DEFINE page == [ui[click[q].client] EXCEPT !.list = NoList]
  <2>1. Show(q, page)
    BY <1>16 DEF LoseList
  <2>2. page \in Page
    BY EndPageTypes
  <2>3. PageKnown(page)
    <3>1. ui[click[q].client] \in Page /\ ListKnown(NoList)
      BY <1>0 DEF ListKnown, NoList, NoView
    <3>2. page.list = NoList /\ page.id = ui[click[q].client].id
      <4> HIDE DEF NoList
      <4> QED
        BY <3>1 DEF Page
    <3> HIDE DEF NoList, page
    <3> QED
      BY <1>1, <3>1, <3>2 DEF PageKnown
  <2> HIDE DEF page
  <2>4. OnlyClick(q) /\ click'[q].step = "done" /\ UNCHANGED <<book, score>>
        /\ ui' = [ui EXCEPT ![click[q].client] = page]
    BY <2>1, <2>2, ShowTypes
  <2> QED
    BY <2>2, <2>3, <2>4, EndKnown
<1> QED
  BY <1>2, <1>3, <1>4, <1>5, <1>6, <1>7, <1>8, <1>9, <1>10, <1>11, <1>12,
     <1>13, <1>14, <1>15, <1>16 DEF Handle

LEMMA KnownStep ==
    ASSUME WorkflowTypes, Known, [WorkflowNext]_workflowVars
    PROVE  Known'
<1>1. CASE UNCHANGED workflowVars
  BY <1>1 DEF workflowVars, Known, ClickKnown, PageKnown, ListKnown,
              PlansApart, Plans, Running
<1>2. CASE WorkflowNext
  BY <1>2, UseThePageKnown, ButtonKnown, HandleKnown DEF WorkflowNext
<1> QED
  BY <1>1, <1>2

-----------------------------------------------------------------------------
(* The requests, as steps of the book.                                     *)

(* What an operation makes of a row, it makes of the row of the book.      *)
LEMMA SameRows ==
    ASSUME NEW i \in Interview, NEW r \in Row
    PROVE  /\ BookRow(i, NewRow) =
                 Book!Planned(CandidateOf[i], Reference, Reference, "")
           /\ \A text \in Text : BookRow(i, [r EXCEPT !.comment = text]) =
                 Book!Rebooked(BookRow(i, r), CandidateOf[i], Reference,
                               Reference, text)
           /\ \A s \in Status, d \in Decision \cup {Keep},
                 text \in Text \cup {Keep} :
                 BookRow(i, StatusSet(r, s, d, text)) =
                    Book!StatusSet(BookRow(i, r), s, d, text)
           /\ \A d \in Decision, text \in Text \cup {Keep} :
                 BookRow(i, Decided(r, d, text)) =
                    Book!Decided(BookRow(i, r), d, text)
           /\ BookRow(i, [r EXCEPT !.deleted = TRUE]) =
                 Book!SoftDeleted(BookRow(i, r))
           /\ \A b \in BOOLEAN : BookRow(i, Archived(r, b)) =
                                    Book!Archived(BookRow(i, r), b)
<1>1. BookRow(i, NewRow) =
         Book!Planned(CandidateOf[i], Reference, Reference, "")
  BY DEF BookRow, NewRow, Book!Planned
<1>2. \A text \in Text : text # Keep
  BY DEF Text, Keep
<1> DEFINE Of(stored, candidate, vacancy, interviewer, comment, status,
              decision, archived, deleted, deletedAt) ==
           [stored |-> stored, candidate |-> candidate, vacancy |-> vacancy,
            interviewer |-> interviewer, comment |-> comment,
            status |-> status, decision |-> decision,
            archived |-> archived, deleted |-> deleted,
            deletedAt |-> deletedAt]
<1>8. \A st, c, v, u, t, s, d, a, e, f, x :
         LET w == Of(st, c, v, u, t, s, d, a, e, f) IN
         /\ [w EXCEPT !.candidate = x] = Of(st, x, v, u, t, s, d, a, e, f)
         /\ [w EXCEPT !.vacancy = x] = Of(st, c, x, u, t, s, d, a, e, f)
         /\ [w EXCEPT !.interviewer = x] = Of(st, c, v, x, t, s, d, a, e, f)
         /\ [w EXCEPT !.comment = x] = Of(st, c, v, u, x, s, d, a, e, f)
         /\ [w EXCEPT !.status = x] = Of(st, c, v, u, t, x, d, a, e, f)
         /\ [w EXCEPT !.decision = x] = Of(st, c, v, u, t, s, x, a, e, f)
         /\ [w EXCEPT !.deleted = x] = Of(st, c, v, u, t, s, d, a, x, f)
         /\ [w EXCEPT !.deletedAt = x] = Of(st, c, v, u, t, s, d, a, e, x)
         /\ w.comment = t /\ w.decision = d
  OBVIOUS
<1>9. \A n : BookRow(i, n) =
         Of(n.stored, CandidateOf[i], Reference, Reference, n.comment,
            n.status, n.decision, n.archived, n.deleted, n.deleted)
  BY DEF BookRow
<1> HIDE DEF Of
<1> DEFINE b == BookRow(i, r)
<1>10. b = Of(r.stored, CandidateOf[i], Reference, Reference, r.comment,
              r.status, r.decision, r.archived, r.deleted, r.deleted)
  BY <1>9
<1>11. b.comment = r.comment /\ b.decision = r.decision
  BY <1>8, <1>10
<1> HIDE DEF b
<1>3. ASSUME NEW text \in Text
      PROVE  BookRow(i, [r EXCEPT !.comment = text]) =
                Book!Rebooked(b, CandidateOf[i], Reference, Reference, text)
  <2> DEFINE n == [r EXCEPT !.comment = text]
             v1 == [b EXCEPT !.candidate = CandidateOf[i]]
             v2 == [v1 EXCEPT !.vacancy = Reference]
             v3 == [v2 EXCEPT !.interviewer = Reference]
             v4 == [v3 EXCEPT !.comment = text]
  <2>1. /\ n.stored = r.stored /\ n.comment = text /\ n.status = r.status
        /\ n.decision = r.decision /\ n.archived = r.archived
        /\ n.deleted = r.deleted
    BY DEF Row
  <2>2. Book!Rebooked(b, CandidateOf[i], Reference, Reference, text) = v4
    BY <1>2 DEF Book!Rebooked, Book!Given, Book!Keep, Keep
  <2>3. v1 = b
    BY <1>8, <1>10
  <2> HIDE DEF v1
  <2>4. v2 = b
    BY <1>8, <1>10, <2>3
  <2> HIDE DEF v2
  <2>5. v3 = b
    BY <1>8, <1>10, <2>4
  <2> HIDE DEF v3
  <2>6. v4 = Of(r.stored, CandidateOf[i], Reference, Reference, text,
                r.status, r.decision, r.archived, r.deleted, r.deleted)
    BY <1>8, <1>10, <2>5
  <2> HIDE DEF v4
  <2>7. BookRow(i, n) = Of(n.stored, CandidateOf[i], Reference, Reference,
           n.comment, n.status, n.decision, n.archived, n.deleted, n.deleted)
    BY <1>9
  <2> HIDE DEF n
  <2> QED
    BY <2>1, <2>2, <2>6, <2>7 DEF n
<1>4. ASSUME NEW s \in Status, NEW d \in Decision \cup {Keep},
             NEW text \in Text \cup {Keep}
      PROVE  BookRow(i, StatusSet(r, s, d, text)) =
                Book!StatusSet(b, s, d, text)
  <2> DEFINE n == StatusSet(r, s, d, text)
             chosen == Given(d, r.decision)
             said == Given(text, r.comment)
             v1 == [b EXCEPT !.status = s]
             v2 == [v1 EXCEPT !.decision = chosen]
             v3 == [v2 EXCEPT !.comment = said]
  <2>1. /\ n.stored = r.stored /\ n.comment = said /\ n.status = s
        /\ n.decision = chosen /\ n.archived = r.archived
        /\ n.deleted = r.deleted
    <3> HIDE DEF chosen, said
    <3>1. n = [r EXCEPT !.status = s, !.decision = chosen, !.comment = said]
      BY DEF StatusSet, chosen, said
    <3> HIDE DEF n
    <3> QED
      BY <3>1 DEF Row
  <2>2. Book!StatusSet(b, s, d, text) = v3
    BY <1>11 DEF Book!StatusSet, Book!Given, Book!Keep, Given, Keep
  <2> HIDE DEF chosen, said
  <2>3. v1 = Of(r.stored, CandidateOf[i], Reference, Reference, r.comment, s,
                r.decision, r.archived, r.deleted, r.deleted)
    BY <1>8, <1>10
  <2> HIDE DEF v1
  <2>4. v2 = Of(r.stored, CandidateOf[i], Reference, Reference, r.comment, s,
                chosen, r.archived, r.deleted, r.deleted)
    BY <1>8, <2>3
  <2> HIDE DEF v2
  <2>5. v3 = Of(r.stored, CandidateOf[i], Reference, Reference, said, s,
                chosen, r.archived, r.deleted, r.deleted)
    BY <1>8, <2>4
  <2> HIDE DEF v3
  <2>6. BookRow(i, n) = Of(n.stored, CandidateOf[i], Reference, Reference,
           n.comment, n.status, n.decision, n.archived, n.deleted, n.deleted)
    BY <1>9
  <2> QED
    BY <2>1, <2>2, <2>5, <2>6
<1>5. ASSUME NEW d \in Decision, NEW text \in Text \cup {Keep}
      PROVE  BookRow(i, Decided(r, d, text)) = Book!Decided(b, d, text)
  <2> DEFINE n == Decided(r, d, text)
             said == Given(text, r.comment)
             v1 == [b EXCEPT !.decision = d]
             v2 == [v1 EXCEPT !.status = "Completed"]
             v3 == [v2 EXCEPT !.comment = said]
  <2>1. /\ n.stored = r.stored /\ n.comment = said
        /\ n.status = "Completed" /\ n.decision = d
        /\ n.archived = r.archived /\ n.deleted = r.deleted
    <3> HIDE DEF said
    <3>1. n = [r EXCEPT !.decision = d, !.status = "Completed",
                        !.comment = said]
      BY DEF Decided, said
    <3> HIDE DEF n
    <3> QED
      BY <3>1 DEF Row
  <2>2. Book!Decided(b, d, text) = v3
    BY <1>11 DEF Book!Decided, Book!Given, Book!Keep, Given, Keep
  <2> HIDE DEF said
  <2>3. v1 = Of(r.stored, CandidateOf[i], Reference, Reference, r.comment,
                r.status, d, r.archived, r.deleted, r.deleted)
    BY <1>8, <1>10
  <2> HIDE DEF v1
  <2>4. v2 = Of(r.stored, CandidateOf[i], Reference, Reference, r.comment,
                "Completed", d, r.archived, r.deleted, r.deleted)
    BY <1>8, <2>3
  <2> HIDE DEF v2
  <2>5. v3 = Of(r.stored, CandidateOf[i], Reference, Reference, said,
                "Completed", d, r.archived, r.deleted, r.deleted)
    BY <1>8, <2>4
  <2> HIDE DEF v3
  <2>6. BookRow(i, n) = Of(n.stored, CandidateOf[i], Reference, Reference,
           n.comment, n.status, n.decision, n.archived, n.deleted, n.deleted)
    BY <1>9
  <2> QED
    BY <2>1, <2>2, <2>5, <2>6
<1>6. BookRow(i, [r EXCEPT !.deleted = TRUE]) = Book!SoftDeleted(b)
  <2>1. ASSUME NEW yes
        PROVE  [b EXCEPT !.deleted = yes, !.deletedAt = yes] =
                  Of(r.stored, CandidateOf[i], Reference, Reference,
                     r.comment, r.status, r.decision, r.archived, yes, yes)
    <3> DEFINE v1 == [b EXCEPT !.deleted = yes]
               v2 == [v1 EXCEPT !.deletedAt = yes]
    <3>1. v1 = Of(r.stored, CandidateOf[i], Reference, Reference, r.comment,
                  r.status, r.decision, r.archived, yes, r.deleted)
      BY <1>8, <1>10
    <3> HIDE DEF v1
    <3>2. v2 = Of(r.stored, CandidateOf[i], Reference, Reference, r.comment,
                  r.status, r.decision, r.archived, yes, yes)
      BY <1>8, <3>1
    <3> QED
      BY <3>2 DEF v1
  <2>3. Book!SoftDeleted(b) =
           Of(r.stored, CandidateOf[i], Reference, Reference, r.comment,
              r.status, r.decision, r.archived, TRUE, TRUE)
    BY <2>1, Zenon DEF Book!SoftDeleted
  <2> DEFINE n == [r EXCEPT !.deleted = TRUE]
  <2>4. /\ n.stored = r.stored /\ n.comment = r.comment
        /\ n.status = r.status /\ n.decision = r.decision
        /\ n.archived = r.archived /\ n.deleted = TRUE
    BY DEF Row
  <2>5. BookRow(i, n) = Of(n.stored, CandidateOf[i], Reference, Reference,
           n.comment, n.status, n.decision, n.archived, n.deleted, n.deleted)
    BY <1>9
  <2> QED
    BY <2>3, <2>4, <2>5
<1>7. \A gone \in BOOLEAN : BookRow(i, Archived(r, gone)) =
                               Book!Archived(BookRow(i, r), gone)
  BY DEF BookRow, Row, Archived, Book!Archived
<1> QED
  BY <1>1, <1>3, <1>4, <1>5, <1>6, <1>7 DEF b

(* One row is written.                                                     *)
LEMMA OneRow ==
    ASSUME book \in [Interview -> Row], NEW i \in Interview, NEW r \in Row,
           book' = [book EXCEPT ![i] = r]
    PROVE  /\ Booked' = [Booked EXCEPT ![i] = BookRow(i, r)]
           /\ Booked[i] = BookRow(i, book[i])
           /\ Booked[i].stored = book[i].stored
           /\ Booked[i].status = book[i].status
           /\ Booked[i].archived = book[i].archived
           /\ Booked[i].deleted = book[i].deleted
<1> HIDE DEF Row
<1>1. \A j \in Interview : Booked'[j] = BookRow(j, book'[j])
  BY DEF Booked
<1>2. Booked' = [Booked EXCEPT ![i] = BookRow(i, r)]
  <2>1. Booked' = [j \in Interview |-> BookRow(j, book'[j])]
    BY DEF Booked
  <2>2. \A j \in Interview : book'[j] = IF j = i THEN r ELSE book[j]
    OBVIOUS
  <2>3. [Booked EXCEPT ![i] = BookRow(i, r)] =
           [j \in Interview |-> IF j = i THEN BookRow(i, r)
                                         ELSE BookRow(j, book[j])]
    BY DEF Booked
  <2>4. \A j \in Interview : BookRow(j, book'[j]) =
           IF j = i THEN BookRow(i, r) ELSE BookRow(j, book[j])
    BY <2>2
  <2> HIDE DEF Booked
  <2> QED
    BY <2>1, <2>3, <2>4
<1>3. Booked[i] = BookRow(i, book[i])
  BY DEF Booked
<1> QED
  BY <1>2, <1>3 DEF BookRow

(* The scores that are given are marked.                                   *)
LEMMA MarkedInBook ==
    ASSUME book \in [Interview -> Row], NEW i \in Interview,
           NEW given \in Matrix, UNCHANGED book,
           book[i].stored, book[i].status = "Planned",
           score' = [score EXCEPT ![i] = Marked(score[i], given)]
    PROVE  Book!Mark(i)
<1> DEFINE ks == {k \in Competency : given[k] # NoScore}
           mark == [k \in ks |-> given[k]]
<1>1. ks \in SUBSET Competency /\ mark \in [ks -> 0 .. 5]
  BY DEF Matrix
<1>2. score' = [score EXCEPT ![i] =
                   [k \in Competency |-> IF k \in ks THEN mark[k]
                                                     ELSE score[i][k]]]
  <2>1. Marked(score[i], given) =
           [k \in Competency |-> IF k \in ks THEN mark[k] ELSE score[i][k]]
    BY DEF Marked
  <2> QED
    BY <2>1
<1> HIDE DEF ks, mark
<1>3. \E xs \in SUBSET Competency : \E m \in [xs -> 0 .. Book!MaxMark] :
         score' = [score EXCEPT ![i] =
                      [k \in Competency |-> IF k \in xs THEN m[k]
                                                        ELSE score[i][k]]]
  BY <1>1, <1>2 DEF Book!MaxMark
<1>4. Booked[i].stored /\ Booked[i].status = "Planned" /\ Booked' = Booked
  BY DEF Booked, BookRow
<1> QED
  BY <1>3, <1>4 DEF Book!Mark

(* What is written to a row, scores left as they are, the book allows.     *)
LEMMA ChangedInBook ==
    ASSUME book \in [Interview -> Row], NEW i \in Interview, NEW r \in Row,
           book' = [book EXCEPT ![i] = r], UNCHANGED score, book[i].stored,
           \/ \E text \in Text : r = [book[i] EXCEPT !.comment = text]
           \/ \E s \in Status, d \in Decision \cup {Keep}, text \in Text :
                 r = StatusSet(book[i], s, d, text)
           \/ \E d \in Decision : r = Decided(book[i], d, Keep)
           \/ ~book[i].deleted /\ r = [book[i] EXCEPT !.deleted = TRUE]
           \/ r = Archived(book[i], ~book[i].archived)
    PROVE  Book!Change(i)
<1> DEFINE old == BookRow(i, book[i])
<1>1. /\ Booked' = [Booked EXCEPT ![i] = BookRow(i, r)]
      /\ Booked[i] = old /\ Booked[i].stored
      /\ Booked[i].archived = book[i].archived
      /\ Booked[i].deleted = book[i].deleted
  BY OneRow
<1>2. CandidateOf[i] \in {CandidateOf[j] : j \in Interview}
      /\ book[i] \in Row /\ book[i].archived \in BOOLEAN
  BY DEF Row
<1> HIDE DEF old, Row
<1>3. CASE \E text \in Text : r = [book[i] EXCEPT !.comment = text]
  <2>1. PICK text \in Text : r = [book[i] EXCEPT !.comment = text]
    BY <1>3
  <2>2. BookRow(i, r) = Book!Rebooked(old, CandidateOf[i], Reference,
                                      Reference, text)
    BY <1>2, <2>1, SameRows DEF old
  <2> QED
    BY <1>1, <1>2, <2>2 DEF Book!Change
<1>4. CASE \E s \in Status, d \in Decision \cup {Keep}, text \in Text :
              r = StatusSet(book[i], s, d, text)
  <2>1. PICK s \in Status, d \in Decision \cup {Keep}, text \in Text :
           r = StatusSet(book[i], s, d, text)
    BY <1>4
  <2>2. BookRow(i, StatusSet(book[i], s, d, text)) =
           Book!StatusSet(BookRow(i, book[i]), s, d, text)
    <3>1. text \in Text \cup {Keep}
      OBVIOUS
    <3> HIDE DEF Status, Text
    <3> QED
      BY <1>2, <3>1, SameRows
  <2>3. s \in Book!Status /\ d \in Book!Decision \cup {Book!Keep}
    BY DEF Status, Book!Status, Decision, Book!Decision, Keep, Book!Keep
  <2>4. BookRow(i, r) = Book!StatusSet(old, s, d, text)
    BY <2>1, <2>2 DEF old
  <2> QED
    BY <1>1, <2>3, <2>4 DEF Book!Change
<1>5. CASE \E d \in Decision : r = Decided(book[i], d, Keep)
  <2>1. PICK d \in Decision : r = Decided(book[i], d, Keep)
    BY <1>5
  <2>2. BookRow(i, r) = Book!Decided(old, d, Keep)
    BY <1>2, <2>1, SameRows DEF old
  <2>3. d \in Book!Decision
    BY DEF Decision, Book!Decision
  <2> QED
    BY <1>1, <2>2, <2>3 DEF Book!Change
<1>6. CASE ~book[i].deleted /\ r = [book[i] EXCEPT !.deleted = TRUE]
  <2>1. BookRow(i, r) = Book!SoftDeleted(old)
    BY <1>2, <1>6, SameRows DEF old
  <2> QED
    BY <1>1, <1>6, <2>1 DEF Book!Change
<1>7. CASE r = Archived(book[i], ~book[i].archived)
  <2>1. BookRow(i, r) = Book!Archived(old, ~book[i].archived)
    BY <1>2, <1>7, SameRows DEF old
  <2> QED
    BY <1>1, <2>1 DEF Book!Change
<1> QED
  BY <1>3, <1>4, <1>5, <1>6, <1>7

(* The one request of an operation.                                        *)
LEMMA ServeInBook ==
    ASSUME WorkflowTypes, Known, NEW q \in Click, Serve(q)
    PROVE  Book!BookNext
<1> DEFINE i == click[q].id
           op == click[q].op
           page == click[q].was
           r == Rewritten(q, book[i])
<1>1. /\ i \in Interview /\ book \in [Interview -> Row] /\ book[i] \in Row
      /\ op \in {"Comment", "Star", "Complete", "Cancel", "Decide",
                 "Archive", "Unarchive", "Delete", "Edit"}
      /\ book' = [book EXCEPT ![i] = r]
      /\ score' = [score EXCEPT ![i] = Marked(score[i], click[q].scores)]
  BY ServedRow, ClickTypes
     DEF WorkflowTypes, WorkflowTypeOK, StepFits, Ops
<1>2. book[i].stored
  <2>1. Running(q) /\ ~Plans(q)
    BY <1>1 DEF Serve, Running, Plans
  <2> QED
    BY <1>1, <2>1 DEF Known, ClickKnown
<1>3. /\ page.view.status \in Status /\ page.draft \in Text
      /\ op = "Edit" => page.text \in Text
      /\ Said(page) \in Text
      /\ click[q].decision \in Decision /\ click[q].scores \in Matrix
  BY ClickTypes DEF Serve, Refused, Page, View, Said, RowText
<1>4. CASE op = "Star"
  <2>1. book[i].status = "Planned"
    BY <1>4 DEF Serve, Refused
  <2>2. book' = book
    BY <1>1, <1>4 DEF Rewritten
  <2>3. Book!Mark(i)
    BY <1>1, <1>2, <1>3, <2>1, <2>2, MarkedInBook
  <2> QED
    BY <1>1, <2>3 DEF Book!BookNext
<1>5. CASE op # "Star"
  <2>1. UNCHANGED score
    <3>1. click[q].scores = NoMatrix
      BY <1>5 DEF Serve, Running, Known, ClickKnown
    <3>2. score \in [Interview -> Matrix]
      BY DEF WorkflowTypes, WorkflowTypeOK
    <3>3. Marked(score[i], NoMatrix) = score[i]
      BY <1>1, <3>2 DEF Marked, NoMatrix, Matrix
    <3> QED
      BY <1>1, <3>1, <3>2, <3>3
  <2>2. r \in Row
    BY <1>1, RewrittenTypes DEF Serve
  <2>3. \/ \E text \in Text : r = [book[i] EXCEPT !.comment = text]
        \/ \E s \in Status, d \in Decision \cup {Keep}, text \in Text :
              r = StatusSet(book[i], s, d, text)
        \/ \E d \in Decision : r = Decided(book[i], d, Keep)
        \/ ~book[i].deleted /\ r = [book[i] EXCEPT !.deleted = TRUE]
        \/ r = Archived(book[i], ~book[i].archived)
    <3>1. CASE op = "Comment"
      <4>1. r = StatusSet(book[i], page.view.status, Keep, page.draft)
        BY <3>1 DEF Rewritten
      <4> QED
        BY <1>3, <4>1
    <3>2. CASE op = "Complete"
      <4>1. r = StatusSet(book[i], "Completed", Keep, Said(page))
            /\ "Completed" \in Status
        BY <3>2 DEF Rewritten, Status
      <4> QED
        BY <1>3, <4>1
    <3>3. CASE op = "Cancel"
      <4>1. r = StatusSet(book[i], "Cancelled", "Pending", Said(page))
            /\ "Cancelled" \in Status /\ "Pending" \in Decision
        BY <3>3 DEF Rewritten, Status, Decision
      <4> QED
        BY <1>3, <4>1
    <3>4. CASE op = "Decide"
      <4>1. r = Decided(book[i], click[q].decision, Keep)
        BY <3>4 DEF Rewritten
      <4> QED
        BY <1>3, <4>1
    <3>5. CASE op \in {"Archive", "Unarchive"}
      <4>1. book[i].archived = (op = "Unarchive")
        BY <1>1, <3>5 DEF Serve, Refused, Row
      <4>2. r = Archived(book[i], op = "Archive")
        BY <3>5 DEF Rewritten
      <4>3. (op = "Archive") = ~book[i].archived
        BY <3>5, <4>1
      <4> QED
        BY <4>2, <4>3
    <3>6. CASE op = "Delete"
      BY <3>6 DEF Serve, Refused, Rewritten
    <3>7. CASE op = "Edit"
      <4>1. r = [book[i] EXCEPT !.comment = page.text]
        BY <3>7 DEF Rewritten
      <4> QED
        BY <1>3, <3>7, <4>1
    <3> QED
      BY <1>1, <1>5, <3>1, <3>2, <3>3, <3>4, <3>5, <3>6, <3>7
  <2>4. Book!Change(i)
    <3> HIDE DEF i, r, op, page
    <3> QED
      BY <1>1, <1>2, <2>1, <2>2, <2>3, ChangedInBook
  <2> QED
    BY <1>1, <2>4 DEF Book!BookNext
<1> QED
  BY <1>4, <1>5

LEMMA ScheduleInBook ==
    ASSUME WorkflowTypes, Known, NEW q \in Click, ServeSchedule(q)
    PROVE  Book!BookNext
<1> DEFINE i == click[q].id
<1>1. /\ book \in [Interview -> Row] /\ i \in Interview /\ Plans(q)
      /\ ~book[i].stored
  BY DEF WorkflowTypes, WorkflowTypeOK, StepFits, ServeSchedule, Plans,
         Running, Known, ClickKnown
<1>2. PICK m \in {NoMatrix, Zeros} :
         /\ book' = [book EXCEPT ![i] = NewRow]
         /\ score' = [score EXCEPT ![i] = m]
  BY DEF ServeSchedule, Write
<1>3. /\ ~Booked[i].stored
      /\ Booked' = [Booked EXCEPT ![i] =
            Book!Planned(CandidateOf[i], Reference, Reference, "")]
  <2>1. NewRow \in Row
    BY RowTypes
  <2> HIDE DEF NewRow, i, Row
  <2> QED
    BY <1>1, <1>2, <2>1, OneRow, SameRows
<1>4. CandidateOf[i] \in {CandidateOf[j] : j \in Interview}
      /\ "" \in Text \cup {Keep}
  BY <1>1 DEF Text
<1>5. \E ks \in SUBSET Competency :
         score' = [score EXCEPT ![i] =
                      [k \in Competency |-> IF k \in ks THEN 0 ELSE NoScore]]
  <2>1. CASE m = NoMatrix
    <3> DEFINE ks == {k \in Competency : FALSE}
    <3>1. m = [k \in Competency |-> IF k \in ks THEN 0 ELSE NoScore]
      BY <2>1 DEF NoMatrix
    <3>2. ks \in SUBSET Competency
      OBVIOUS
    <3> HIDE DEF ks
    <3> QED
      BY <1>2, <3>1, <3>2
  <2>2. CASE m = Zeros
    <3>1. m = [k \in Competency |-> IF k \in Competency THEN 0 ELSE NoScore]
      BY <2>2 DEF Zeros
    <3> QED
      BY <1>2, <3>1
  <2> QED
    BY <2>1, <2>2
<1>6. Book!Plan(i)
  BY <1>3, <1>4, <1>5 DEF Book!Plan
<1> QED
  BY <1>1, <1>6 DEF Book!BookNext

(* The requests of rescheduling.                                           *)
LEMMA RescheduleInBook ==
    ASSUME WorkflowTypes, Known, NEW q \in Click,
           ServeMove(q) \/ ServeReset(q) \/ ServeClear(q)
    PROVE  Book!BookNext
<1> DEFINE i == click[q].id
<1>1. /\ book \in [Interview -> Row] /\ score \in [Interview -> Matrix]
      /\ i \in Interview /\ book[i] \in Row /\ book[i].stored
  <2>1. Running(q) /\ click[q].op = "Reschedule"
    BY DEF ServeMove, ServeReset, ServeClear, Running, WorkflowTypes, StepFits
  <2> QED
    BY <2>1 DEF WorkflowTypes, WorkflowTypeOK, StepFits, Known, ClickKnown,
                Plans
<1>2. CASE ServeMove(q)
  <2>1. /\ book' = [book EXCEPT ![i] = [book[i] EXCEPT !.comment = ""]]
        /\ UNCHANGED score
    BY <1>1, <1>2 DEF ServeMove, Write
  <2>2. [book[i] EXCEPT !.comment = ""] \in Row /\ "" \in Text
    BY <1>1 DEF Row, Text
  <2> HIDE DEF i, Row, Text
  <2>3. Book!Change(i)
    BY <1>1, <2>1, <2>2, ChangedInBook
  <2> QED
    BY <1>1, <2>3 DEF Book!BookNext
<1>3. CASE ServeReset(q)
  <2> DEFINE r == StatusSet(book[i], "Planned", "Pending", "")
  <2>1. book' = [book EXCEPT ![i] = r] /\ UNCHANGED score
    BY <1>1, <1>3 DEF ServeReset, Write
  <2>2. r \in Row
    BY <1>1 DEF StatusSet, Given, Keep, Row, Status, Decision, Text
  <2>3. "Planned" \in Status /\ "Pending" \in Decision \cup {Keep}
        /\ "" \in Text
    BY DEF Status, Decision, Text
  <2>4. \E s \in Status, d \in Decision \cup {Keep}, text \in Text :
           r = StatusSet(book[i], s, d, text)
    BY <2>3
  <2> HIDE DEF i, r
  <2>5. Book!Change(i)
    BY <1>1, <2>1, <2>2, <2>4, ChangedInBook
  <2> QED
    BY <1>1, <2>5 DEF Book!BookNext
<1>4. CASE ServeClear(q)
  <2> DEFINE zeros == [k \in Competency |->
                IF click[q].was.list[i].scores[k] = NoScore THEN NoScore
                                                            ELSE 0]
  <2>1. zeros \in Matrix
    BY DEF Matrix
  <2>2. /\ book[i].status = "Planned" /\ UNCHANGED book
        /\ score' = [score EXCEPT ![i] = Marked(score[i], zeros)]
    BY <1>1, <1>4 DEF ServeClear, Write
  <2> HIDE DEF i, zeros
  <2>3. Book!Mark(i)
    BY <1>1, <2>1, <2>2, MarkedInBook
  <2> QED
    BY <1>1, <2>3 DEF Book!BookNext
<1> QED
  BY <1>2, <1>3, <1>4

(* An archiving that comes too late, as another's has, changes nothing.    *)
LEMMA OtherInBook ==
    ASSUME WorkflowTypes, Known, NEW q \in Click, ArchiveOther(q)
    PROVE  Book!BookNext \/ UNCHANGED <<book, score>>
<1>1. book \in [Interview -> Row]
  BY DEF WorkflowTypes, WorkflowTypeOK
<1>2. PICK j \in click[q].todo :
         book' = IF CanEdit(click[q].client)
                 THEN [book EXCEPT ![j] = Archived(@, TRUE)] ELSE book
  BY DEF ArchiveOther
<1>3. UNCHANGED score /\ j \in Interview /\ book[j].stored /\ book[j] \in Row
  BY <1>1, ClickTypes DEF ArchiveOther, Known, ClickKnown, Running
<1>4. CASE CanEdit(click[q].client) /\ ~book[j].archived
  <2>1. book' = [book EXCEPT ![j] = Archived(book[j], ~book[j].archived)]
    BY <1>1, <1>2, <1>3, <1>4
  <2>2. Archived(book[j], ~book[j].archived) \in Row
    BY <1>3 DEF Archived, Row
  <2>3. Book!Change(j)
    BY <1>1, <1>3, <2>1, <2>2, ChangedInBook
  <2> QED
    BY <1>3, <2>3 DEF Book!BookNext
<1>5. CASE CanEdit(click[q].client) /\ book[j].archived
  <2>1. Archived(book[j], TRUE) = book[j]
    BY <1>3, <1>5 DEF Archived, Row
  <2> QED
    BY <1>1, <1>2, <1>3, <1>5, <2>1
<1>6. CASE ~CanEdit(click[q].client)
  BY <1>2, <1>3, <1>6
<1> QED
  BY <1>4, <1>5, <1>6

LEMMA StepInBook ==
    ASSUME WorkflowTypes, Known, [WorkflowNext]_workflowVars
    PROVE  [Book!BookNext]_(Book!bookVars)
<1>1. ASSUME UNCHANGED <<book, score>>
      PROVE  UNCHANGED Book!bookVars
  BY <1>1 DEF Book!bookVars, Booked
<1>2. CASE UNCHANGED workflowVars
  BY <1>1, <1>2 DEF workflowVars
<1>3. ASSUME NEW c \in Client,
             UseThePage(c) \/ \E q \in Click : ClickButton(q, c)
      PROVE  UNCHANGED <<book, score>>
  BY <1>3, ButtonsWriteNothing
<1>4. ASSUME NEW q \in Click, Handle(q)
      PROVE  Book!BookNext \/ UNCHANGED <<book, score>>
  <2>1. CASE \/ ServeList(q) \/ ShowAnswer(q) \/ ShowList(q) \/ Settle(q)
             \/ ShowDecision(q) \/ Refuse(q) \/ Lose(q) \/ LoseClear(q)
             \/ LoseOther(q) \/ LoseList(q)
    BY <2>1 DEF ServeList, ShowAnswer, ShowList, Settle, ShowDecision,
                Refuse, Lose, LoseClear, LoseOther, LoseList, Show,
                UnchangedApi
  <2> QED
    BY <1>4, <2>1, ServeInBook, ScheduleInBook, RescheduleInBook,
       OtherInBook DEF Handle
<1> QED
  BY <1>1, <1>2, <1>3, <1>4 DEF WorkflowNext

(***************************************************************************)
(* Every request of the workflow is a step of the interview book, with any *)
(* browsers, overlapping clicks and lost answers: none plans an interview  *)
(* that is planned, scores one that is not, or writes to a row that is not *)
(* there.                                                                  *)
(***************************************************************************)
THEOREM WorkflowKeepsBook == WorkflowSpec => KeepsBook
<1>1. WorkflowInit => WorkflowTypes /\ Known
  BY TypesInit, KnownInit
<1>2. WorkflowTypes /\ Known /\ [WorkflowNext]_workflowVars
        => (WorkflowTypes /\ Known)'
  BY TypesStep, KnownStep
<1>3. WorkflowTypes /\ Known /\ [WorkflowNext]_workflowVars
        => [Book!BookNext]_(Book!bookVars)
  BY StepInBook
<1> QED
  BY <1>1, <1>2, <1>3, PTL DEF WorkflowSpec, KeepsBook

=============================================================================
