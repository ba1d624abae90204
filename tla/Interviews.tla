----------------------------- MODULE Interviews -----------------------------
(***************************************************************************)
(* The interviews of the HR platform: the API's InterviewService           *)
(* (ApplicationServices.cs) over the tables interviews and                 *)
(* competency_matrices, next to the services of Catalog, which change the  *)
(* tables it reads.                                                        *)
(*                                                                         *)
(* As in Catalog a handler reads, computes in memory and saves the whole   *)
(* row in one transaction with its audit entry, and handlers interleave.   *)
(***************************************************************************)
EXTENDS Catalog, Integers, InterviewRows

CONSTANTS
    Interview,          \* identifiers interviews can have
    User,               \* interviewers
    NoInterview,        \* "no interview", in a request that has none
    NoScore,            \* "no row", in the matrix
    InterviewRequest,   \* the HTTP requests about interviews, each served once
    MarkInput,          \* scores that clients submit
    CommentInput,       \* comments that clients submit
    DecisionInput       \* decisions that clients submit

ASSUME InterviewsAssumption ==
    /\ NoInterview \notin Interview
    /\ NoScore \notin Int
    /\ MarkInput \subseteq Int
    /\ DecisionInput \subseteq Decision
    /\ User # {} /\ Candidate # {} /\ Vacancy # {}

VARIABLES
    interview,  \* interview[i]: the row of i
    matrix,     \* matrix[i][k]: the score in the row (i, k), or NoScore
    trail,      \* trail[i]: what the audit log says of i, read back in order
    task,       \* task[h]: what the handler of request h holds in memory
    onDuty      \* users whose IsActive is set

interviewVars == <<interview, matrix, trail, task, onDuty>>
vars == <<catalogVars, interviewVars>>

Comment == CommentInput \cup {Keep}

InterviewRow ==
    [stored : BOOLEAN, candidate : Candidate, vacancy : Vacancy,
     interviewer : User, comment : Comment, status : Status,
     decision : Decision, archived : BOOLEAN,
     deleted : BOOLEAN, deletedAt : BOOLEAN]

Score == Int \cup {NoScore}
NoMarks == [k \in Competency |-> NoScore]

(* The row that stands for "not in the table".                             *)
NoInterviewRow ==
    [Planned(CHOOSE c \in Candidate : TRUE, CHOOSE v \in Vacancy : TRUE,
             CHOOSE u \in User : TRUE, Keep) EXCEPT !.stored = FALSE]

TrailView == [created : BOOLEAN, status : Status, decision : Decision,
              archived : BOOLEAN, deleted : BOOLEAN]

NoTrail == [created |-> FALSE, status |-> "Planned", decision |-> "Pending",
            archived |-> FALSE, deleted |-> FALSE]

(***************************************************************************)
(* Requests.  seen is the row as read and new the row to be saved; marks   *)
(* are the matrix rows to be saved, todo the competencies still to be      *)
(* looked up and inserts the matrix rows the handler found missing.        *)
(***************************************************************************)
TaskSteps == {"new", "links", "items", "done"}

TaskOps == {"none", "Create", "Update", "SetStatus", "Decide", "UpsertMatrix",
            "SoftDelete", "Restore", "Archive", "Unarchive"}

Task == [step : TaskSteps, op : TaskOps, id : Interview \cup {NoInterview},
         seen : InterviewRow, new : InterviewRow,
         marks : [Competency -> Score], todo : SUBSET Competency,
         inserts : SUBSET Competency]

NoTask(step) ==
    [step |-> step, op |-> "none", id |-> NoInterview,
     seen |-> NoInterviewRow, new |-> NoInterviewRow,
     marks |-> NoMarks, todo |-> {}, inserts |-> {}]

Working(h) == task[h].step \in {"links", "items"}

(* Interviews planned by earlier requests: their matrix has rows for what  *)
(* the vacancy then required, not necessarily what it requires now.        *)
ZeroMarks(ks) == [k \in Competency |-> IF k \in ks THEN 0 ELSE NoScore]

InterviewsInit ==
    /\ CatalogInit
    /\ interview \in [Interview -> {NoInterviewRow} \cup
          {Planned(c, v, u, Keep) : c \in {x \in Candidate : row[x].stored},
                                    v \in {x \in Vacancy : row[x].stored},
                                    u \in User}]
    /\ matrix \in [Interview -> {ZeroMarks(ks) :
                        ks \in SUBSET {k \in Competency : row[k].stored}}]
    /\ \A i \in Interview : matrix[i] # NoMarks => interview[i].stored
    /\ trail = [i \in Interview |->
                   [NoTrail EXCEPT !.created = interview[i].stored]]
    /\ task = [h \in InterviewRequest |-> NoTask("new")]
    /\ onDuty = User

TakeUpTask(h) ==
    /\ task[h].step = "new"
    /\ Overlap \/ /\ \A g \in InterviewRequest : ~Working(g)
                  /\ \A q \in CatalogRequest : ~Running(q)

FinishTask(h) == task' = [task EXCEPT ![h] = NoTask("done")]

(* The handler has read interview i and computed the row to save.          *)
Fetch(h, op, i, new) ==
    /\ TakeUpTask(h)
    /\ interview[i].stored
    /\ task' = [task EXCEPT ![h] = [NoTask("items") EXCEPT
                   !.op = op, !.id = i, !.seen = interview[i], !.new = new]]
    /\ UNCHANGED <<interview, matrix, trail, onDuty>>

-----------------------------------------------------------------------------
(* Mutated form: any candidate that exists will do.                        *)
CreateForAnyone(h, i) ==
    \E c \in Candidate, v \in Vacancy, u \in User, comment \in Comment :
        /\ TakeUpTask(h)
        /\ ~interview[i].stored
        /\ \A g \in InterviewRequest : task[g].id # i
        /\ row[c].stored
        /\ row[v].stored /\ row[v].active
        /\ u \in onDuty
        /\ task' = [task EXCEPT ![h] = [NoTask("links") EXCEPT
                       !.op = "Create", !.id = i,
                       !.new = Planned(c, v, u, comment)]]
        /\ UNCHANGED <<interview, matrix, trail, onDuty>>

(* CreateAsync: the candidate must not be archived, the vacancy must be    *)
(* active, the interviewer must be active.  Deletion is not looked at.     *)
Create(h, i) ==
    \E c \in Candidate, v \in Vacancy, u \in User, comment \in Comment :
        /\ TakeUpTask(h)
        /\ ~interview[i].stored
        /\ \A g \in InterviewRequest : task[g].id # i
        /\ row[c].stored /\ ~row[c].archived
        /\ row[v].stored /\ row[v].active
        /\ u \in onDuty
        /\ task' = [task EXCEPT ![h] = [NoTask("links") EXCEPT
                       !.op = "Create", !.id = i,
                       !.new = Planned(c, v, u, comment)]]
        /\ UNCHANGED <<interview, matrix, trail, onDuty>>

(* Mutated form: the interview is saved before its matrix is put together. *)
ReadLinksSavesFirst(h) ==
    LET needed == links[task[h].new.vacancy] IN
    /\ task[h].step = "links"
    /\ interview' = [interview EXCEPT ![task[h].id] = task[h].new]
    /\ task' = [task EXCEPT
          ![h].step = "items", ![h].todo = needed,
          ![h].marks = ZeroMarks(needed)]
    /\ UNCHANGED <<matrix, trail, onDuty>>

(* The competencies of the vacancy are read; each becomes a matrix row of  *)
(* score 0.                                                                *)
ReadLinks(h) ==
    LET needed == links[task[h].new.vacancy] IN
    /\ task[h].step = "links"
    /\ task' = [task EXCEPT
          ![h].step = "items", ![h].todo = needed,
          ![h].marks = ZeroMarks(needed)]
    /\ UNCHANGED <<interview, matrix, trail, onDuty>>

(* UpdateAsync, UpdateStatusAsync, DecideAsync.                            *)
Update(h, i) ==
    \E c \in Candidate, v \in Vacancy, u \in User, comment \in Comment :
        Fetch(h, "Update", i, Rebooked(interview[i], c, v, u, comment))

UpdateStatus(h, i) ==
    \E status \in Status, decision \in DecisionInput \cup {Keep},
       comment \in Comment :
        Fetch(h, "SetStatus", i,
              StatusSet(interview[i], status, decision, comment))

Decide(h, i) ==
    \E decision \in DecisionInput, comment \in Comment :
        Fetch(h, "Decide", i, Decided(interview[i], decision, comment))

DeleteInterview(h, i) ==
    /\ ~interview[i].deleted
    /\ Fetch(h, "SoftDelete", i, SoftDeleted(interview[i]))

RestoreInterview(h, i) ==
    /\ interview[i].deleted
    /\ Fetch(h, "Restore", i, Undeleted(interview[i]))

ArchiveInterview(h, i) ==
    /\ ~interview[i].archived
    /\ Fetch(h, "Archive", i, Archived(interview[i], TRUE))

UnarchiveInterview(h, i) ==
    /\ interview[i].archived
    /\ Fetch(h, "Unarchive", i, Archived(interview[i], FALSE))

-----------------------------------------------------------------------------
(* UpsertMatrixAsync: only while the interview read is planned, and never  *)
(* with an empty list.  The interview row itself is not saved.             *)

(* Mutated form: the status check is missing.                              *)
UpsertAnyStatus(h, i) ==
    \E ks \in SUBSET Competency \ {{}} : \E mark \in [ks -> MarkInput] :
        /\ TakeUpTask(h)
        /\ interview[i].stored
        /\ task' = [task EXCEPT ![h] = [NoTask("items") EXCEPT
              !.op = "UpsertMatrix", !.id = i,
              !.seen = interview[i], !.new = interview[i], !.todo = ks,
              !.marks = [k \in Competency |-> IF k \in ks THEN mark[k]
                                                          ELSE NoScore]]]
        /\ UNCHANGED <<interview, matrix, trail, onDuty>>

UpsertMatrix(h, i) ==
    \E ks \in SUBSET Competency \ {{}} : \E mark \in [ks -> MarkInput] :
        /\ TakeUpTask(h)
        /\ interview[i].stored
        /\ interview[i].status = "Planned"
        /\ task' = [task EXCEPT ![h] = [NoTask("items") EXCEPT
              !.op = "UpsertMatrix", !.id = i,
              !.seen = interview[i], !.new = interview[i], !.todo = ks,
              !.marks = [k \in Competency |-> IF k \in ks THEN mark[k]
                                                          ELSE NoScore]]]
        /\ UNCHANGED <<interview, matrix, trail, onDuty>>

(* Mutated form: the maximum score of the competency is not looked at.     *)
AcceptsNonNegative(k, mark) == row[k].stored /\ row[k].active /\ mark >= 0

(* The item is accepted: an active competency, a score on its scale.       *)
Accepts(k, mark) ==
    row[k].stored /\ row[k].active /\ mark >= 0 /\ mark <= row[k].maxScore

(* One item of the list: the competency is looked up, then the matrix row. *)
(* An item that is refused makes the handler throw, which is AbandonTask.  *)
LookUpItem(h) ==
    /\ task[h].step = "items"
    /\ \E k \in task[h].todo :
          /\ Accepts(k, task[h].marks[k])
          /\ task' = [task EXCEPT
                ![h].todo = @ \ {k},
                ![h].inserts = IF matrix[task[h].id][k] = NoScore
                               THEN @ \cup {k} ELSE @]
    /\ UNCHANGED <<interview, matrix, trail, onDuty>>

-----------------------------------------------------------------------------
(* Mutated form: the entry of a decision does not record the status.       *)
ToldDecisionOnly(view, op, new) ==
    CASE op = "Create" -> [NoTrail EXCEPT !.created = TRUE]
      [] op = "SetStatus" -> [view EXCEPT !.status = new.status]
      [] op = "Decide" -> [view EXCEPT !.decision = new.decision]
      [] op \in {"SoftDelete", "Restore"} ->
             [view EXCEPT !.deleted = new.deleted]
      [] op \in {"Archive", "Unarchive"} ->
             [view EXCEPT !.archived = new.archived]
      [] OTHER -> view

(* What an audit entry adds to the log's view of an interview: creation    *)
(* records the defaults, SetStatus the status, Decide decision and status; *)
(* Update and UpsertMatrix record no column of the view.                   *)
Told(view, op, new) ==
    CASE op = "Create" -> [NoTrail EXCEPT !.created = TRUE]
      [] op = "SetStatus" -> [view EXCEPT !.status = new.status]
      [] op = "Decide" -> [view EXCEPT !.status = new.status,
                                       !.decision = new.decision]
      [] op \in {"SoftDelete", "Restore"} ->
             [view EXCEPT !.deleted = new.deleted]
      [] op \in {"Archive", "Unarchive"} ->
             [view EXCEPT !.archived = new.archived]
      [] OTHER -> view

(* The foreign keys of the row to be saved.                                *)
ReferencesExist(r) == row[r.candidate].stored /\ row[r.vacancy].stored

Marked(old, marks) ==
    [k \in Competency |-> IF marks[k] = NoScore THEN old[k] ELSE marks[k]]

(* Mutated form: no unique index on (InterviewId, CompetencyId).           *)
SaveWithoutIndex(h) ==
    LET i == task[h].id IN
    /\ task[h].step = "items" /\ task[h].todo = {}
    /\ ReferencesExist(task[h].new)
    /\ interview' = IF task[h].op = "UpsertMatrix" THEN interview
                    ELSE [interview EXCEPT ![i] = task[h].new]
    /\ matrix' = [matrix EXCEPT ![i] = Marked(@, task[h].marks)]
    /\ trail' = [trail EXCEPT ![i] = Told(@, task[h].op, task[h].new)]
    /\ FinishTask(h)
    /\ UNCHANGED onDuty

(* SaveChangesAsync: the interview row, the matrix rows and the audit      *)
(* entry in one transaction.  Inserting a matrix row that is there by now  *)
(* violates the unique index and fails it, which is AbandonTask.           *)
SaveTask(h) ==
    LET i == task[h].id IN
    /\ task[h].step = "items" /\ task[h].todo = {}
    /\ ReferencesExist(task[h].new)
    /\ \A k \in task[h].inserts : matrix[i][k] = NoScore
    /\ interview' = IF task[h].op = "UpsertMatrix" THEN interview
                    ELSE [interview EXCEPT ![i] = task[h].new]
    /\ matrix' = [matrix EXCEPT ![i] = Marked(@, task[h].marks)]
    /\ trail' = [trail EXCEPT ![i] = Told(@, task[h].op, task[h].new)]
    /\ FinishTask(h)
    /\ UNCHANGED onDuty

(* The handler ends without its save: an exception, a failed transaction,  *)
(* the client gone or the process killed.                                  *)
AbandonTask(h) ==
    /\ Working(h)
    /\ FinishTask(h)
    /\ UNCHANGED <<interview, matrix, trail, onDuty>>

InterviewService(h) ==
    \/ \E i \in Interview :
          \/ Create(h, i) \/ Update(h, i) \/ UpdateStatus(h, i)
          \/ Decide(h, i) \/ UpsertMatrix(h, i)
          \/ DeleteInterview(h, i) \/ RestoreInterview(h, i)
          \/ ArchiveInterview(h, i) \/ UnarchiveInterview(h, i)
    \/ ReadLinks(h)
    \/ LookUpItem(h)
    \/ SaveTask(h)
    \/ AbandonTask(h)

(* The Go auth service activates or deactivates a user: one column, one    *)
(* statement.                                                              *)
SetUserStatus(u, isActive) ==
    /\ onDuty' = IF isActive THEN onDuty \cup {u} ELSE onDuty \ {u}
    /\ UNCHANGED <<interview, matrix, trail, task>>

InterviewsNext ==
    \/ \E h \in InterviewRequest : InterviewService(h) /\ UNCHANGED catalogVars
    \/ /\ Overlap \/ \A h \in InterviewRequest : ~Working(h)
       /\ \E u \in User, isActive \in BOOLEAN : SetUserStatus(u, isActive)
       /\ UNCHANGED catalogVars
    \/ /\ Overlap \/ \A h \in InterviewRequest : ~Working(h)
       /\ CatalogNext
       /\ UNCHANGED interviewVars

InterviewsSpec == InterviewsInit /\ [][InterviewsNext]_vars

-----------------------------------------------------------------------------
(* Type invariant.                                                         *)
InterviewsTypeOK ==
    /\ CatalogTypeOK
    /\ interview \in [Interview -> InterviewRow]
    /\ matrix \in [Interview -> [Competency -> Score]]
    /\ trail \in [Interview -> TrailView]
    /\ task \in [InterviewRequest -> Task]
    /\ onDuty \in SUBSET User

(* Every score is one of 0 to 5 points, whatever clients submit and        *)
(* however competencies are edited while their scores are being saved.     *)
ScoresInRange ==
    \A i \in Interview, k \in Competency :
        matrix[i][k] # NoScore => matrix[i][k] \in 0 .. 5

(* An interview, its matrix and its audit entry appear together: a failed  *)
(* creation leaves no interview, no matrix row and no entry behind.        *)
NothingHalfCreated ==
    \A i \in Interview :
        /\ trail[i].created = interview[i].stored
        /\ matrix[i] # NoMarks => interview[i].stored

(* Request h saves interview i in this step.                               *)
TaskSaves(h, i) ==
    task[h].step = "items" /\ task[h].id = i /\ task'[h].step = "done"

(* The scores of an interview change only while it is planned ("Оценки     *)
(* можно редактировать только для запланированного собеседования").        *)
ScoresFrozen ==
    [][\A i \in Interview :
          interview[i].stored /\ interview[i].status # "Planned"
            => matrix'[i] = matrix[i]
      ]_vars

(* Scores of an interview that is no longer planned are only ever written  *)
(* by a request that had found it planned, that is, one that overlapped    *)
(* the request that completed or cancelled it.                             *)
LateScoresAreOld ==
    [][\A i \in Interview :
          (/\ interview[i].stored /\ interview[i].status # "Planned"
           /\ matrix'[i] # matrix[i])
            => \E h \in InterviewRequest :
                  /\ TaskSaves(h, i) /\ task[h].op = "UpsertMatrix"
                  /\ task[h].seen.status = "Planned"
      ]_vars

(* A score that a request has not found in the matrix is never overwritten *)
(* by it: of two requests that insert the same row, the second one fails.  *)
NoScoreLostToInsert ==
    [][\A i \in Interview, k \in Competency :
          matrix[i][k] # NoScore /\ matrix'[i][k] # matrix[i][k]
            => \E h \in InterviewRequest :
                  TaskSaves(h, i) /\ k \notin task[h].inserts
      ]_vars

(* The columns an operation is about.                                      *)
OwnColumns(op) ==
    CASE op = "Update" -> {"candidate", "vacancy", "interviewer", "comment"}
      [] op = "SetStatus" -> {"status", "decision", "comment"}
      [] op = "Decide" -> {"status", "decision", "comment"}
      [] op \in {"SoftDelete", "Restore"} -> {"deleted", "deletedAt"}
      [] op \in {"Archive", "Unarchive"} -> {"archived"}
      [] OTHER -> {}

(* A request changes a column it is not about only by writing back an old  *)
(* value, and only if another request has saved the row since it read it.  *)
ForeignColumnsAreOld ==
    [][\A h \in InterviewRequest, i \in Interview :
          TaskSaves(h, i) /\ interview[i].stored =>
            \A f \in DOMAIN interview[i] \ OwnColumns(task[h].op) :
                interview'[i][f] # interview[i][f] =>
                    /\ interview'[i][f] = task[h].seen[f]
                    /\ interview[i] # task[h].seen
      ]_vars

(* Reading the audit log back gives the status and the marks of the row.   *)
TrailTellsRow ==
    \A i \in Interview : interview[i].stored =>
        /\ trail[i].status = interview[i].status
        /\ trail[i].archived = interview[i].archived
        /\ trail[i].deleted = interview[i].deleted

(* An interview comes into being with a candidate that is not archived, a  *)
(* vacancy and an interviewer that are active.                             *)
BookedWhileOpen ==
    [][\A i \in Interview : ~interview[i].stored /\ interview'[i].stored =>
          /\ ~row[interview'[i].candidate].archived
          /\ row[interview'[i].vacancy].active
          /\ interview'[i].interviewer \in onDuty
      ]_vars

(* As long as requests do not overlap, the service is the book that its    *)
(* clients are promised: every request is one step on the row as it is.    *)
Book == INSTANCE InterviewBook WITH book <- interview, marks <- matrix

ImplementsBook == Book!BookSpec

=============================================================================
