-------------------------- MODULE DecisionWorkflow --------------------------
(***************************************************************************)
(* The workflow of interviews in the browser (App.js): cards are opened,   *)
(* scored, commented, completed, cancelled, decided on and rescheduled on  *)
(* a copy of the list that the page has loaded.  One click may take        *)
(* several requests, sent one after the other, and what the handler does   *)
(* with the answers it does to the state of the page as it was when the    *)
(* button was clicked (the variables its closure captured).                *)
(*                                                                         *)
(* The API is taken as in InterviewBook: each request is one step on the   *)
(* row as it is.  What overlapping requests do inside it is in Interviews. *)
(***************************************************************************)
EXTENDS Integers, InterviewRows

CONSTANTS
    Interview,     \* identifiers interviews can have
    CandidateOf,   \* the candidate of each: no client ever changes it
    Competency,
    NoInterview,   \* null, where an identifier is expected
    NoScore,       \* no row in the matrix
    Client,        \* browsers
    RoleOf,        \* the role of the user of each
    Click,         \* the clicks that send requests, each made once
    Star,          \* scores that are given
    Overlap,       \* TRUE: users click on while answers are outstanding
    Faults         \* TRUE: requests and answers may be lost

ASSUME WorkflowAssumption ==
    /\ NoInterview \notin Interview
    /\ NoScore \notin Int
    /\ Star \subseteq 1 .. 5
    /\ DOMAIN CandidateOf = Interview
    /\ Client # {}
    /\ RoleOf \in [Client -> {"Admin", "HR", "DecisionMaker"}]
    /\ Overlap \in BOOLEAN /\ Faults \in BOOLEAN

VARIABLES
    book,    \* book[i]: the row of interview i
    score,   \* score[i]: its matrix
    ui,      \* ui[c]: the state of the page in browser c
    click,   \* click[q]: what the handler of click q holds
    behind   \* browsers that were shown an error since their list was loaded;
             \* in no variable of the code

workflowVars == <<book, score, ui, click, behind>>

Text == {"", "note"}
Matrix == [Competency -> 0 .. 5 \cup {NoScore}]

Row == [stored : BOOLEAN, status : Status, decision : Decision,
        comment : Text, archived : BOOLEAN, deleted : BOOLEAN]

NewRow == [stored |-> TRUE, status |-> "Planned", decision |-> "Pending",
           comment |-> "", archived |-> FALSE, deleted |-> FALSE]

NoRow == [NewRow EXCEPT !.stored = FALSE]
NoMatrix == [k \in Competency |-> NoScore]
Zeros == [k \in Competency |-> 0]

(***************************************************************************)
(* What the page knows of an interview.  A cancelled interview without a   *)
(* decision is labelled as one that needs none.                            *)
(***************************************************************************)
Label(r) == IF r.status = "Cancelled" /\ r.decision = "Pending"
            THEN "NoDecision" ELSE r.decision

View == [listed : BOOLEAN, status : Status,
         decision : Decision \cup {"NoDecision"}, comment : Text,
         archived : BOOLEAN, scores : Matrix]

NoView == [listed |-> FALSE, status |-> "Planned", decision |-> "Pending",
           comment |-> "", archived |-> FALSE, scores |-> NoMatrix]

mapInterviewFromApi(r, m) ==
    [listed |-> TRUE, status |-> r.status, decision |-> Label(r),
     comment |-> r.comment, archived |-> r.archived, scores |-> m]

(* getInterviews: deleted interviews are not in the list.                  *)
Listing == [i \in Interview |->
               IF book[i].stored /\ ~book[i].deleted
               THEN mapInterviewFromApi(book[i], score[i]) ELSE NoView]

NoList == [i \in Interview |-> NoView]

(***************************************************************************)
(* The page: the list; whether a card is shown; selectedInterview (id and  *)
(* view); interviewComments (draft); the row being edited; the interview   *)
(* being rescheduled.  The forms of these two share their data             *)
(* (editInterviewData), of which only the row's comment (text) is kept:    *)
(* NoText when the row's are not there.                                    *)
(***************************************************************************)
NoText == "none"
RowText == Text \cup {NoText}

Page == [list : [Interview -> View], shown : BOOLEAN,
         id : Interview \cup {NoInterview}, view : View, draft : Text,
         editing : Interview \cup {NoInterview}, text : RowText,
         moving : Interview \cup {NoInterview}]

FirstPage == [list |-> NoList, shown |-> FALSE, id |-> NoInterview,
              view |-> NoView, draft |-> "", editing |-> NoInterview,
              text |-> NoText, moving |-> NoInterview]

(***************************************************************************)
(* Clicks.  was is the page as the handler captured it, answer the answer  *)
(* of the request that has just been served, list the list to be shown,    *)
(* todo the interviews still to be archived.                               *)
(***************************************************************************)
ClickSteps == {"new", "send", "reset", "clear", "reload", "answer",
               "archive", "list", "done"}

Ops == {"none", "Comment", "Star", "Complete", "Cancel", "Decide",
        "Archive", "Unarchive", "Delete", "Edit", "Schedule", "Reschedule",
        "Load"}

ClickState ==
    [step : ClickSteps, client : Client, op : Ops,
     id : Interview \cup {NoInterview}, decision : Decision, scores : Matrix,
     was : Page, answer : View, list : [Interview -> View],
     todo : SUBSET Interview, lost : BOOLEAN]

NoClick(step) ==
    [step |-> step, client |-> CHOOSE c \in Client : TRUE, op |-> "none",
     id |-> NoInterview, decision |-> "Pending", scores |-> NoMatrix,
     was |-> FirstPage, answer |-> NoView, list |-> NoList, todo |-> {},
     lost |-> FALSE]

Running(q) == click[q].step \notin {"new", "done"}
Idle == \A q \in Click : ~Running(q)

Done(q) == click' = [click EXCEPT ![q] = NoClick("done")]
UnchangedApi == UNCHANGED <<book, score>>

(* Interviews as the workflow leaves them: planned, completed with every   *)
(* score and a comment, decided on, cancelled.                             *)
Rated(m) == (\E k \in Competency : m[k] # NoScore)
            /\ \A k \in Competency : m[k] # NoScore => m[k] > 0

FirstStates ==
    {<<NoRow, NoMatrix>>, <<NewRow, NoMatrix>>, <<NewRow, Zeros>>,
     <<[NewRow EXCEPT !.status = "Cancelled"], Zeros>>}
    \cup {<<[NewRow EXCEPT !.status = "Completed", !.decision = d,
                           !.comment = "note"],
            [k \in Competency |-> s]>> :
              d \in {"Pending", "NextStage", "Rejected"}, s \in Star}

WorkflowInit ==
    /\ \E first \in [Interview -> FirstStates] :
          /\ book = [i \in Interview |-> first[i][1]]
          /\ score = [i \in Interview |-> first[i][2]]
    /\ ui = [c \in Client |-> [FirstPage EXCEPT !.list = Listing]]
    /\ click = [q \in Click |-> NoClick("new")]
    /\ behind = {}

-----------------------------------------------------------------------------
(* Roles: which buttons the page shows (DEFAULT_ROLES) and which requests  *)
(* the API accepts ([Authorize]).                                          *)
CanEdit(c) == RoleOf[c] \in {"Admin", "HR"}
CanDecide(c) == RoleOf[c] \in {"Admin", "DecisionMaker"}

Accepted(c, op) == IF op = "Decide" THEN CanDecide(c)
                   ELSE op = "Load" \/ CanEdit(c)

(* A user who does not click on while an answer is outstanding.            *)
Patient == Overlap \/ Idle

(* What a user does to the page alone.                                     *)
openInterviewCard(c, i) ==
    /\ Patient
    /\ ~ui[c].shown /\ ui[c].list[i].listed /\ ~ui[c].list[i].archived
    /\ ui' = [ui EXCEPT ![c].shown = TRUE, ![c].id = i,
                        ![c].view = ui[c].list[i],
                        ![c].draft = ui[c].list[i].comment]
    /\ UnchangedApi /\ UNCHANGED <<click, behind>>

CloseCard(c) ==
    /\ Patient
    /\ ui[c].shown
    /\ ui' = [ui EXCEPT ![c].shown = FALSE, ![c].id = NoInterview,
                        ![c].view = NoView]
    /\ UnchangedApi /\ UNCHANGED <<click, behind>>

(* A card is shown, and its buttons rather than the form to move the       *)
(* interview.                                                              *)
OnCard(c) == ui[c].shown /\ ui[c].id # NoInterview
Actions(c) == OnCard(c) /\ ui[c].moving # ui[c].id

TypeComment(c) ==
    /\ Patient
    /\ OnCard(c) /\ ui[c].view.status = "Planned"
    /\ \E text \in Text \ {ui[c].draft} :
          ui' = [ui EXCEPT ![c].draft = text, ![c].view.comment = text]
    /\ UnchangedApi /\ UNCHANGED <<click, behind>>

startEditInterview(c, i) ==
    /\ Patient
    /\ CanEdit(c) /\ ~ui[c].shown
    /\ ui[c].list[i].listed /\ ~ui[c].list[i].archived
    /\ ui' = [ui EXCEPT ![c].editing = i,
                        ![c].text = ui[c].list[i].comment]
    /\ UnchangedApi /\ UNCHANGED <<click, behind>>

cancelEditInterview(c) ==
    /\ Patient
    /\ ui[c].editing # NoInterview
    /\ ui' = [ui EXCEPT ![c].editing = NoInterview, ![c].text = NoText]
    /\ UnchangedApi /\ UNCHANGED <<click, behind>>

handleReschedule(c) ==
    /\ Patient
    /\ CanEdit(c) /\ Actions(c) /\ ui[c].view.decision = "NextStage"
    /\ ui' = [ui EXCEPT ![c].moving = ui[c].id,
                        ![c].text = IF ui[c].list[ui[c].id].listed
                                    THEN NoText ELSE @]
    /\ UnchangedApi /\ UNCHANGED <<click, behind>>

CancelReschedule(c) ==
    /\ Patient
    /\ OnCard(c) /\ ui[c].moving = ui[c].id
    /\ ui' = [ui EXCEPT ![c].moving = NoInterview, ![c].text = NoText]
    /\ UnchangedApi /\ UNCHANGED <<click, behind>>

UseThePage(c) ==
    \/ \E i \in Interview : openInterviewCard(c, i) \/ startEditInterview(c, i)
    \/ CloseCard(c) \/ TypeComment(c) \/ cancelEditInterview(c)
    \/ handleReschedule(c) \/ CancelReschedule(c)

-----------------------------------------------------------------------------
(* Clicks that send a request.                                             *)
Send(q, c, op, i, decision, scores) ==
    /\ Patient
    /\ click[q].step = "new"
    /\ click' = [click EXCEPT ![q] = [NoClick("send") EXCEPT
                    !.client = c, !.op = op, !.id = i, !.decision = decision,
                    !.scores = scores, !.was = ui[c]]]
    /\ UnchangedApi /\ UNCHANGED <<ui, behind>>

Plain(q, c, op, i) == Send(q, c, op, i, "Pending", NoMatrix)

(* The comment box loses the focus.                                        *)
saveComment(q, c) ==
    /\ OnCard(c) /\ ui[c].view.status = "Planned"
    /\ Plain(q, c, "Comment", ui[c].id)

(* A star: the whole matrix of the card is sent, with one score changed.   *)
handleStarClickInterview(q, c) ==
    /\ OnCard(c) /\ ui[c].view.status = "Planned" /\ CanEdit(c)
    /\ \E k \in Competency, s \in Star :
          /\ ui[c].view.scores[k] # NoScore
          /\ Send(q, c, "Star", ui[c].id, "Pending",
                  [ui[c].view.scores EXCEPT ![k] = s])

Said(page) == IF page.draft # "" THEN page.draft ELSE page.view.comment

(* Mutated form: the button looks at the comment only.                     *)
CompleteUnrated(q, c) ==
    /\ Actions(c) /\ ui[c].view.status = "Planned" /\ CanEdit(c)
    /\ Said(ui[c]) # ""
    /\ Plain(q, c, "Complete", ui[c].id)

(* The button looks at the card, the handler at the list.                  *)
ClickComplete(q, c) ==
    /\ Actions(c) /\ ui[c].view.status = "Planned" /\ CanEdit(c)
    /\ Rated(ui[c].view.scores) /\ Said(ui[c]) # ""
    /\ \A k \in Competency : ui[c].list[ui[c].id].scores[k] # 0
    /\ Plain(q, c, "Complete", ui[c].id)

ClickCancel(q, c) ==
    /\ Actions(c) /\ ui[c].view.status = "Planned" /\ CanEdit(c)
    /\ Plain(q, c, "Cancel", ui[c].id)

ClickDecide(q, c) ==
    /\ Actions(c) /\ CanDecide(c)
    /\ ui[c].view.status = "Completed" /\ ui[c].view.decision = "Pending"
    /\ \E decision \in Decision \ {"Pending"} :
          Send(q, c, "Decide", ui[c].id, decision, NoMatrix)

handleRescheduleSubmit(q, c) ==
    /\ OnCard(c) /\ ui[c].moving = ui[c].id
    /\ ui[c].list[ui[c].id].listed
    /\ Plain(q, c, "Reschedule", ui[c].id)

(* Buttons of the rows of the list, shown when no card is.                 *)
saveEditInterview(q, c) ==
    /\ ~ui[c].shown /\ ui[c].editing # NoInterview
    /\ ui[c].list[ui[c].editing].listed
    /\ Plain(q, c, "Edit", ui[c].editing)

handleArchiveInterview(q, c, i) ==
    /\ CanEdit(c) /\ ~ui[c].shown /\ ui[c].editing # i
    /\ ui[c].list[i].listed /\ ~ui[c].list[i].archived
    /\ Plain(q, c, "Archive", i)

handleUnarchiveInterview(q, c, i) ==
    /\ CanEdit(c) /\ ~ui[c].shown /\ ui[c].editing # i
    /\ ui[c].list[i].listed /\ ui[c].list[i].archived
    /\ Plain(q, c, "Unarchive", i)

handleDeleteInterview(q, c, i) ==
    /\ CanEdit(c)
    /\ \/ ~ui[c].shown /\ ui[c].list[i].listed /\ ui[c].editing # i
       \/ Actions(c) /\ ui[c].id = i
    /\ Plain(q, c, "Delete", i)

handleScheduleSubmit(q, c, i) ==
    /\ CanEdit(c) /\ ~ui[c].shown
    /\ ~book[i].stored
    /\ \A p \in Click : click[p].id # i
    /\ Plain(q, c, "Schedule", i)

(* Another page is opened: the card goes and everything is loaded anew.    *)
loadData(q, c) ==
    /\ Patient
    /\ click[q].step = "new"
    /\ ui' = [ui EXCEPT ![c].shown = FALSE, ![c].id = NoInterview,
                        ![c].view = NoView, ![c].moving = NoInterview]
    /\ click' = [click EXCEPT ![q] = [NoClick("send") EXCEPT
                    !.client = c, !.op = "Load", !.was = ui[c]]]
    /\ UnchangedApi /\ UNCHANGED behind

ClickButton(q, c) ==
    \/ saveComment(q, c) \/ handleStarClickInterview(q, c)
    \/ ClickComplete(q, c) \/ ClickCancel(q, c) \/ ClickDecide(q, c)
    \/ handleRescheduleSubmit(q, c) \/ saveEditInterview(q, c)
    \/ \E i \in Interview :
          \/ handleArchiveInterview(q, c, i)
          \/ handleUnarchiveInterview(q, c, i)
          \/ handleDeleteInterview(q, c, i)
          \/ handleScheduleSubmit(q, c, i)
    \/ loadData(q, c)

-----------------------------------------------------------------------------
(* The API serves a request.                                               *)
Write(q, r, m, step) ==
    LET i == click[q].id IN
    /\ book' = [book EXCEPT ![i] = r]
    /\ score' = [score EXCEPT ![i] = m]
    /\ click' = [click EXCEPT ![q].step = step,
                              ![q].answer = mapInterviewFromApi(r, m)]

(* What the one request of an operation makes of row and matrix.           *)
Marked(old, new) ==
    [k \in Competency |-> IF new[k] = NoScore THEN old[k] ELSE new[k]]

Rewritten(q, r) ==
    LET page == click[q].was IN
    CASE click[q].op = "Comment" ->
             StatusSet(r, page.view.status, Keep, page.draft)
      [] click[q].op = "Complete" ->
             StatusSet(r, "Completed", Keep, Said(page))
      [] click[q].op = "Cancel" ->
             StatusSet(r, "Cancelled", "Pending", Said(page))
      [] click[q].op = "Decide" -> Decided(r, click[q].decision, Keep)
      [] click[q].op \in {"Archive", "Unarchive"} ->
             Archived(r, click[q].op = "Archive")
      [] click[q].op = "Delete" -> [r EXCEPT !.deleted = TRUE]
      [] click[q].op = "Edit" -> [r EXCEPT !.comment = page.text]
      [] OTHER -> r

(* Mutated form: scores are accepted whatever has become of the interview. *)
RefusedUnlooked(q) ==
    LET r == book[click[q].id] IN
    \/ ~Accepted(click[q].client, click[q].op)
    \/ click[q].op = "Archive" /\ r.archived
    \/ click[q].op = "Unarchive" /\ ~r.archived
    \/ click[q].op = "Delete" /\ r.deleted
    \/ click[q].op = "Edit" /\ click[q].was.text = NoText

(* The checks of the API: the role, the state the row must be in, and that *)
(* there is a candidate, which is lost with the data of the row's form.    *)
Refused(q) ==
    LET r == book[click[q].id] IN
    \/ ~Accepted(click[q].client, click[q].op)
    \/ click[q].op = "Star" /\ r.status # "Planned"
    \/ click[q].op = "Archive" /\ r.archived
    \/ click[q].op = "Unarchive" /\ ~r.archived
    \/ click[q].op = "Delete" /\ r.deleted
    \/ click[q].op = "Edit" /\ click[q].was.text = NoText

Serve(q) ==
    LET i == click[q].id IN
    /\ click[q].step = "send"
    /\ click[q].op \notin {"Schedule", "Reschedule", "Load"}
    /\ ~Refused(q)
    /\ Write(q, Rewritten(q, book[i]), Marked(score[i], click[q].scores),
             "answer")
    /\ UNCHANGED <<ui, behind>>

ServeSchedule(q) ==
    /\ click[q].step = "send" /\ click[q].op = "Schedule"
    /\ \E m \in {NoMatrix, Zeros} : Write(q, NewRow, m, "answer")
    /\ UNCHANGED <<ui, behind>>

(* Rescheduling: the row is updated, its status is reset, its scores are   *)
(* cleared if the list showed any, and the list is loaded.                 *)
ServeMove(q) ==
    LET i == click[q].id IN
    /\ click[q].step = "send" /\ click[q].op = "Reschedule"
    /\ Write(q, [book[i] EXCEPT !.comment = ""], score[i], "reset")
    /\ UNCHANGED <<ui, behind>>

CloseForm(q) ==
    ui' = [ui EXCEPT ![click[q].client].moving = NoInterview,
                     ![click[q].client].text = NoText]

HasMatrix(q) == click[q].was.list[click[q].id].scores # NoMatrix

(* Mutated form: the decision is left as it is.                            *)
ResetStatusOnly(q) ==
    LET i == click[q].id IN
    /\ click[q].step = "reset"
    /\ Write(q, StatusSet(book[i], "Planned", Keep, ""), score[i],
             IF HasMatrix(q) THEN "clear" ELSE "reload")
    /\ IF HasMatrix(q) THEN UNCHANGED ui ELSE CloseForm(q)
    /\ UNCHANGED behind

ServeReset(q) ==
    LET i == click[q].id IN
    /\ click[q].step = "reset"
    /\ Write(q, StatusSet(book[i], "Planned", "Pending", ""), score[i],
             IF HasMatrix(q) THEN "clear" ELSE "reload")
    /\ IF HasMatrix(q) THEN UNCHANGED ui ELSE CloseForm(q)
    /\ UNCHANGED behind

ServeClear(q) ==
    LET i == click[q].id IN
    /\ click[q].step = "clear"
    /\ book[i].status = "Planned"
    /\ Write(q, book[i],
             Marked(score[i], [k \in Competency |->
                IF click[q].was.list[i].scores[k] = NoScore THEN NoScore
                                                            ELSE 0]),
             "reload")
    /\ CloseForm(q)
    /\ UNCHANGED behind

ServeList(q) ==
    /\ \/ click[q].step = "send" /\ click[q].op = "Load"
       \/ click[q].step = "reload"
    /\ click' = [click EXCEPT ![q].step = "list", ![q].list = Listing]
    /\ UnchangedApi /\ UNCHANGED <<ui, behind>>

-----------------------------------------------------------------------------
(* The page shows an answer.                                               *)
Put(l, i, view) == IF l[i].listed THEN [l EXCEPT ![i] = view] ELSE l

Selected(page, was, i, view) ==
    IF was.id = i THEN [page EXCEPT !.id = i, !.view = view] ELSE page

Show(q, page) ==
    /\ ui' = [ui EXCEPT ![click[q].client] = page]
    /\ Done(q)
    /\ UnchangedApi

Shown(q) ==
    LET i == click[q].id
        a == click[q].answer
        was == click[q].was
        page == [ui[click[q].client] EXCEPT !.list = Put(was.list, i, a)]
        said == [was.view EXCEPT !.comment = was.draft]
    IN  CASE click[q].op = "Comment" ->
                 [page EXCEPT !.id = i, !.view = said,
                     !.list = Put(was.list, i, [was.list[i] EXCEPT
                                                   !.comment = was.draft])]
          [] click[q].op = "Star" -> [page EXCEPT !.id = i, !.view = a]
          [] click[q].op \in {"Archive", "Unarchive"} ->
                 Selected(page, was, i, a)
          [] click[q].op = "Edit" ->
                 [Selected(page, was, i, a) EXCEPT !.editing = NoInterview,
                                                   !.text = NoText]
          [] click[q].op = "Delete" ->
                 LET gone == [page EXCEPT !.list =
                                 [was.list EXCEPT ![i] = NoView]]
                 IN  IF was.id # i THEN gone
                     ELSE [gone EXCEPT !.shown = FALSE, !.id = NoInterview,
                                       !.view = NoView]
          [] click[q].op = "Schedule" ->
                 [page EXCEPT !.list = [was.list EXCEPT ![i] = a]]

Decisions == {"Complete", "Cancel", "Decide"}

ShowAnswer(q) ==
    /\ click[q].step = "answer" /\ click[q].op \notin Decisions
    /\ Show(q, Shown(q))
    /\ UNCHANGED behind

(* The list is shown; after rescheduling, so is the interview.             *)
ShowList(q) ==
    LET c == click[q].client
        l == click[q].list
        i == click[q].id
        page == [ui[c] EXCEPT !.list = l]
    IN  /\ click[q].step = "list"
        /\ Show(q, IF click[q].op = "Reschedule" /\ l[i].listed
                   THEN [page EXCEPT !.id = i, !.view = l[i]] ELSE page)
        /\ behind' = behind \ {c}

-----------------------------------------------------------------------------
(* handleDecision: what else a decision on interview i archives, by the    *)
(* list as it is now.                                                      *)
Concluded(v) == v.status \in {"Completed", "Cancelled"}
TurnedDown(v) == v.decision \in {"Rejected", "NoDecision"}
                 \/ v.status = "Cancelled"

OfSameCandidate(l, i) ==
    {j \in Interview : l[j].listed /\ CandidateOf[j] = CandidateOf[i]}

Takes(q) == click[q].op = "Decide"
            /\ click[q].decision \in {"Hired", "TalentPool"}
TurnsDown(q) == \/ click[q].op = "Cancel"
                \/ click[q].op = "Decide" /\ click[q].decision = "Rejected"

(* Mutated form: only a decision to hire archives the others.              *)
ArchivedOnHire(q, l) ==
    LET i == click[q].id
        all == OfSameCandidate(l, i)
    IN  IF Takes(q) /\ click[q].decision = "Hired" THEN all \ {i}
        ELSE IF TurnsDown(q) /\ \A j \in all : Concluded(l[j])
                                               /\ TurnedDown(l[j])
        THEN all ELSE {}

(* Mutated form: a cancelled interview archives nothing.                   *)
ArchivedOnDecision(q, l) ==
    LET i == click[q].id
        all == OfSameCandidate(l, i)
    IN  IF Takes(q) THEN all \ {i}
        ELSE IF click[q].decision = "Rejected"
                /\ \A j \in all : Concluded(l[j]) /\ TurnedDown(l[j])
        THEN all ELSE {}

AlsoArchived(q, l) ==
    LET i == click[q].id
        all == OfSameCandidate(l, i)
    IN  IF Takes(q) THEN all \ {i}
        ELSE IF TurnsDown(q) /\ \A j \in all : Concluded(l[j])
                                               /\ TurnedDown(l[j])
        THEN all ELSE {}

(* Mutated form: the list shows them as they were.                         *)
SettleUnseen(q) ==
    LET news == Put(click[q].was.list, click[q].id, click[q].answer) IN
    /\ click[q].step = "answer" /\ click[q].op \in Decisions
    /\ click' = [click EXCEPT ![q].step = "archive", ![q].list = news,
          ![q].todo = {j \in AlsoArchived(q, news) : ~news[j].archived}]
    /\ UnchangedApi /\ UNCHANGED <<ui, behind>>

(* The answer to a decision: what is to be archived with it, and the list  *)
(* that will be shown whatever becomes of that.                            *)
Settle(q) ==
    LET news == Put(click[q].was.list, click[q].id, click[q].answer)
        also == AlsoArchived(q, news)
    IN  /\ click[q].step = "answer" /\ click[q].op \in Decisions
        /\ click' = [click EXCEPT ![q].step = "archive",
              ![q].todo = {j \in also : ~news[j].archived},
              ![q].list = [j \in Interview |->
                  IF j \in also THEN [news[j] EXCEPT !.archived = TRUE]
                                ELSE news[j]]]
        /\ UnchangedApi /\ UNCHANGED <<ui, behind>>

(* One of them: the error of a request that is refused is dropped.         *)
ArchiveOther(q) ==
    /\ click[q].step = "archive"
    /\ \E j \in click[q].todo :
          /\ book' = IF CanEdit(click[q].client)
                     THEN [book EXCEPT ![j] = Archived(@, TRUE)] ELSE book
          /\ click' = [click EXCEPT ![q].todo = @ \ {j}]
    /\ UNCHANGED <<score, ui, behind>>

ShowDecision(q) ==
    LET i == click[q].id
        page == [ui[click[q].client] EXCEPT !.list = click[q].list]
    IN  /\ click[q].step = "archive" /\ click[q].todo = {}
        /\ Show(q, Selected(page, click[q].was, i, click[q].answer))
        /\ UNCHANGED behind

-----------------------------------------------------------------------------
(* Errors.  A refused request ends the handler with a message.             *)
Refuse(q) ==
    /\ click[q].step = "send" /\ click[q].op # "Load"
    /\ Refused(q)
    /\ Done(q)
    /\ UnchangedApi /\ UNCHANGED <<ui, behind>>

(* So does a lost one, and a lost answer.                                  *)
Lose(q) ==
    /\ Faults
    /\ click[q].step \in {"send", "reset", "answer"} /\ click[q].op # "Load"
    /\ Done(q)
    /\ behind' = behind \cup {click[q].client}
    /\ UnchangedApi /\ UNCHANGED ui

(* The errors of clearing scores and of archiving others are dropped.      *)
LoseClear(q) ==
    /\ click[q].step = "clear"
    /\ Faults \/ book[click[q].id].status # "Planned"
    /\ click' = [click EXCEPT ![q].step = "reload", ![q].lost = TRUE]
    /\ CloseForm(q)
    /\ UnchangedApi /\ UNCHANGED behind

LoseOther(q) ==
    /\ Faults
    /\ click[q].step = "archive"
    /\ \E j \in click[q].todo :
          click' = [click EXCEPT ![q].todo = @ \ {j}, ![q].lost = TRUE]
    /\ behind' = behind \cup {click[q].client}
    /\ UnchangedApi /\ UNCHANGED ui

(* A list that does not arrive is shown as an empty one.                   *)
LoseList(q) ==
    /\ Faults
    /\ \/ click[q].step = "send" /\ click[q].op = "Load"
       \/ click[q].step \in {"reload", "list"}
    /\ Show(q, [ui[click[q].client] EXCEPT !.list = NoList])
    /\ behind' = behind \cup {click[q].client}

Handle(q) ==
    \/ Serve(q) \/ ServeSchedule(q) \/ ServeList(q)
    \/ ServeMove(q) \/ ServeReset(q) \/ ServeClear(q)
    \/ ShowAnswer(q) \/ ShowList(q)
    \/ Settle(q) \/ ArchiveOther(q) \/ ShowDecision(q)
    \/ Refuse(q) \/ Lose(q) \/ LoseClear(q) \/ LoseOther(q) \/ LoseList(q)

WorkflowNext ==
    \/ \E c \in Client : UseThePage(c) \/ \E q \in Click : ClickButton(q, c)
    \/ \E q \in Click : Handle(q)

WorkflowSpec == WorkflowInit /\ [][WorkflowNext]_workflowVars

-----------------------------------------------------------------------------
(* Type invariant.                                                         *)
WorkflowTypeOK ==
    /\ book \in [Interview -> Row]
    /\ score \in [Interview -> Matrix]
    /\ ui \in [Client -> Page]
    /\ click \in [Click -> ClickState]
    /\ behind \in SUBSET Client

(* What a lone user sees is what is stored: the page puts its list and its *)
(* card together from answers and from its own guesses (comments, archived *)
(* interviews), and they are right whenever no handler is running and no   *)
(* answer has been lost since the list was loaded.  Not covered: a card    *)
(* whose interview is no longer in the list.                               *)
ScreenCurrent ==
    Idle => \A c \in Client \ behind :
        /\ ui[c].list = Listing
        /\ \A i \in Interview : ui[c].id = i /\ Listing[i].listed =>
              /\ ui[c].view.status = Listing[i].status
              /\ ui[c].view.decision = Listing[i].decision
              /\ ui[c].view.scores = Listing[i].scores

(* Scores for all competencies and a comment before completion             *)
(* (README.md: "Обязательная оценка всех компетенций и комментарий перед   *)
(* завершением"): it is the page that looks, at its own copy, and the API  *)
(* that completes.                                                         *)
CompletedProperly ==
    [][\A i \in Interview :
          book[i].status = "Planned" /\ book'[i].status = "Completed"
            => Rated(score[i]) /\ book'[i].comment # ""
      ]_workflowVars

(* Handler q ends having shown everything, and nothing it or its browser   *)
(* sent was lost.                                                          *)
Ends(q, step) ==
    /\ click[q].step = step /\ click'[q].step = "done"
    /\ ~click[q].lost /\ click[q].client \notin behind

(* When a candidate is hired or kept in reserve the candidate's other      *)
(* interviews are archived (README.md: "автоматическая архивация остальных *)
(* собеседований кандидата").                                              *)
OthersArchived ==
    [][\A q \in Click : Ends(q, "archive") /\ Takes(q) =>
          \A j \in Interview \ {click[q].id} :
              CandidateOf[j] = CandidateOf[click[q].id] /\ Listing[j].listed
                => book[j].archived
      ]_workflowVars

(* When the last open interview of a candidate is turned down or cancelled *)
(* all of the candidate's interviews are archived.                         *)
TurnedDownArchived ==
    [][\A q \in Click :
          LET all == OfSameCandidate(Listing, click[q].id) IN
          (/\ Ends(q, "archive") /\ TurnsDown(q)
           /\ \A j \in all : Concluded(Listing[j]) /\ TurnedDown(Listing[j]))
            => \A j \in all : book[j].archived
      ]_workflowVars

(* Rescheduling starts the interview afresh (README.md: "сброс статуса на  *)
(* "Запланировано", очистка оценок и комментариев"), though it takes three *)
(* requests and each keeps what it is not about.                           *)
RescheduledAfresh ==
    [][\A q \in Click :
          LET i == click[q].id IN
          Ends(q, "list") /\ click[q].op = "Reschedule" =>
              /\ book[i].status = "Planned" /\ book[i].decision = "Pending"
              /\ book[i].comment = ""
              /\ \A k \in Competency : score[i][k] \in {0, NoScore}
      ]_workflowVars

(* The status only moves forward ("Запланировано → Проведено / Отменено"): *)
(* back to planned an interview comes by rescheduling alone.               *)
PlannedByReschedulingOnly ==
    [][\A i \in Interview :
          (/\ book[i].status # "Planned" /\ book'[i].status = "Planned")
            => \E q \in Click :
                  click[q].step = "reset" /\ click[q].id = i
      ]_workflowVars

-----------------------------------------------------------------------------
(* The tables as InterviewBook has them.  A book may be in any state when  *)
(* the browsers load it, so only the steps are compared.                   *)
Reference == "reference"    \* to a vacancy or a user: not told apart

BookRow(i, r) ==
    [stored |-> r.stored, candidate |-> CandidateOf[i],
     vacancy |-> Reference, interviewer |-> Reference,
     comment |-> r.comment, status |-> r.status, decision |-> r.decision,
     archived |-> r.archived, deleted |-> r.deleted, deletedAt |-> r.deleted]

Booked == [i \in Interview |-> BookRow(i, book[i])]

Book == INSTANCE InterviewBook WITH
            book <- Booked, marks <- score,
            Candidate <- {CandidateOf[i] : i \in Interview},
            Vacancy <- {Reference}, User <- {Reference},
            Comment <- Text \cup {Keep}

(* Every request of the workflow asks the API for something its book has:  *)
(* no click, however old its page, plans what is planned, scores what is   *)
(* not, or writes to a row that is not there.  Clicks may overlap, and     *)
(* browsers be many.                                                       *)
KeepsBook == [][Book!BookNext]_(Book!bookVars)

=============================================================================
