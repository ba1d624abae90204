------------------------- MODULE Interviews_proofs -------------------------
(***************************************************************************)
(* Theorems about the interviews, for any sets of interviews, requests and *)
(* inputs, and whether or not requests overlap.                            *)
(*                                                                         *)
(* As in Catalog_proofs the invariants of the tables are inductive only    *)
(* with what the handlers hold in memory (TasksSound); the range of scores *)
(* rests on the range of scales, an invariant of the catalog.              *)
(***************************************************************************)
EXTENDS Interviews, Catalog_proofs

(* The operations that save the interview row read.                        *)
EditOps == TaskOps \ {"none", "Create", "UpsertMatrix"}

InRange(mark) == mark # NoScore => mark \in 0 .. 5

(* What request h holds is fit to be saved: an existing interview or one   *)
(* nobody else works on, and scores of which those that were looked up are *)
(* on their scale.                                                         *)
TaskSound(h) ==
    LET i == task[h].id
        op == task[h].op
    IN  i \in Interview =>
          /\ task[h].new.stored
          /\ op # "Create" => interview[i].stored
          /\ op = "Create" => /\ ~interview[i].stored
                              /\ \A g \in InterviewRequest :
                                    g # h => task[g].id # i
          /\ op = "UpsertMatrix" => task[h].seen.status = "Planned"
          /\ op \in EditOps => task[h].marks = NoMarks
          /\ task[h].step = "links" => op = "Create"
          /\ op \in EditOps \cup {"Create", "UpsertMatrix"}
          /\ \A k \in Competency \ task[h].todo : InRange(task[h].marks[k])

TasksSound == \A h \in InterviewRequest : TaskSound(h)

IdleHasNoId ==
    \A h \in InterviewRequest :
        task[h].step \in {"links", "items"} <=> task[h].id \in Interview

TablesTypeOK ==
    /\ interview \in [Interview -> InterviewRow]
    /\ matrix \in [Interview -> [Competency -> Score]]
    /\ trail \in [Interview -> TrailView]
    /\ task \in [InterviewRequest -> Task]
    /\ onDuty \in SUBSET User

-----------------------------------------------------------------------------
(* Rows and requests.                                                      *)

LEMMA Inputs ==
    /\ NoInterview \notin Interview
    /\ NoScore \notin Int
    /\ MarkInput \subseteq Int
    /\ DecisionInput \subseteq Decision
    /\ User # {} /\ Candidate # {} /\ Vacancy # {}
BY InterviewsAssumption DEF InterviewsAssumption

LEMMA PlannedType ==
    ASSUME NEW c \in Candidate, NEW v \in Vacancy, NEW u \in User,
           NEW comment \in Comment
    PROVE  Planned(c, v, u, comment) \in InterviewRow
BY DEF Planned, InterviewRow, Status, Decision

LEMMA NoInterviewRowType == NoInterviewRow \in InterviewRow
<1> DEFINE c == CHOOSE x \in Candidate : TRUE
           v == CHOOSE x \in Vacancy : TRUE
           u == CHOOSE x \in User : TRUE
<1>1. c \in Candidate /\ v \in Vacancy /\ u \in User /\ Keep \in Comment
  BY Inputs DEF Comment
<1>2. Planned(c, v, u, Keep) \in InterviewRow
  BY <1>1, PlannedType
<1>3. NoInterviewRow = [Planned(c, v, u, Keep) EXCEPT !.stored = FALSE]
  BY DEF NoInterviewRow
<1> QED
  BY <1>2, <1>3 DEF InterviewRow

LEMMA NoTaskType ==
    ASSUME NEW step \in TaskSteps
    PROVE  /\ NoTask(step) \in Task
           /\ NoTask(step).step = step
           /\ NoTask(step).id = NoInterview
           /\ NoTask(step).marks = NoMarks
<1>1. NoMarks \in [Competency -> Score]
  BY DEF NoMarks, Score
<1> QED
  BY <1>1, NoInterviewRowType DEF NoTask, Task, TaskOps

LEMMA GivenType ==
    /\ \A x \in Comment, y \in Comment : Given(x, y) \in Comment
    /\ \A x \in DecisionInput \cup {Keep}, y \in Decision : Given(x, y) \in Decision
BY Inputs DEF Given, Comment

LEMMA ZeroMarksType ==
    ASSUME NEW ks \in SUBSET Competency
    PROVE  /\ ZeroMarks(ks) \in [Competency -> Score]
           /\ \A k \in Competency : InRange(ZeroMarks(ks)[k])
BY Inputs DEF ZeroMarks, Score, InRange

(***************************************************************************)
(* The kinds of step.  The eight operations that read a row and save it    *)
(* changed are of one kind.                                                *)
(***************************************************************************)
Edit(h, i) ==
    \E op \in EditOps, new \in InterviewRow :
        Fetch(h, op, i, new) /\ new.stored

LEMMA EditsAreEdits ==
    ASSUME TablesTypeOK, NEW h \in InterviewRequest, NEW i \in Interview,
           \/ Update(h, i) \/ UpdateStatus(h, i) \/ Decide(h, i)
           \/ DeleteInterview(h, i) \/ RestoreInterview(h, i)
           \/ ArchiveInterview(h, i) \/ UnarchiveInterview(h, i)
    PROVE  Edit(h, i)
<1>1. interview[i] \in InterviewRow
  BY DEF TablesTypeOK
<1>2. interview[i].stored
  BY DEF Update, UpdateStatus, Decide, DeleteInterview, RestoreInterview,
         ArchiveInterview, UnarchiveInterview, Fetch
<1>3. CASE Update(h, i)
  <2>1. PICK c \in Candidate, v \in Vacancy, u \in User, comment \in Comment :
           Fetch(h, "Update", i, Rebooked(interview[i], c, v, u, comment))
    BY <1>3 DEF Update
  <2>2. Given(comment, interview[i].comment) \in Comment
    BY <1>1, GivenType DEF InterviewRow
  <2>3. /\ Rebooked(interview[i], c, v, u, comment) \in InterviewRow
        /\ Rebooked(interview[i], c, v, u, comment).stored
    BY <1>1, <1>2, <2>2 DEF Rebooked, InterviewRow
  <2> QED  BY <2>1, <2>3 DEF Edit, EditOps, TaskOps
<1>4. CASE UpdateStatus(h, i)
  <2>1. PICK status \in Status, decision \in DecisionInput \cup {Keep},
             comment \in Comment :
           Fetch(h, "SetStatus", i,
                 StatusSet(interview[i], status, decision, comment))
    BY <1>4 DEF UpdateStatus
  <2>2. /\ Given(comment, interview[i].comment) \in Comment
        /\ Given(decision, interview[i].decision) \in Decision
    BY <1>1, GivenType DEF InterviewRow
  <2>3. /\ StatusSet(interview[i], status, decision, comment) \in InterviewRow
        /\ StatusSet(interview[i], status, decision, comment).stored
    BY <1>1, <1>2, <2>2 DEF StatusSet, InterviewRow
  <2> QED  BY <2>1, <2>3 DEF Edit, EditOps, TaskOps
<1>5. CASE Decide(h, i)
  <2>1. PICK decision \in DecisionInput, comment \in Comment :
           Fetch(h, "Decide", i, Decided(interview[i], decision, comment))
    BY <1>5 DEF Decide
  <2>2. /\ Given(comment, interview[i].comment) \in Comment
        /\ decision \in Decision /\ "Completed" \in Status
    BY <1>1, GivenType, Inputs DEF InterviewRow, Status
  <2>3. /\ Decided(interview[i], decision, comment) \in InterviewRow
        /\ Decided(interview[i], decision, comment).stored
    BY <1>1, <1>2, <2>2 DEF Decided, InterviewRow
  <2> QED  BY <2>1, <2>3 DEF Edit, EditOps, TaskOps
<1>6. CASE DeleteInterview(h, i)
  <2>1. SoftDeleted(interview[i]) \in InterviewRow /\ SoftDeleted(interview[i]).stored
    BY <1>1, <1>2 DEF SoftDeleted, InterviewRow
  <2> QED  BY <1>6, <2>1 DEF DeleteInterview, Edit, EditOps, TaskOps
<1>7. CASE RestoreInterview(h, i)
  <2>1. Undeleted(interview[i]) \in InterviewRow /\ Undeleted(interview[i]).stored
    BY <1>1, <1>2 DEF Undeleted, InterviewRow
  <2> QED  BY <1>7, <2>1 DEF RestoreInterview, Edit, EditOps, TaskOps
<1>8. CASE ArchiveInterview(h, i) \/ UnarchiveInterview(h, i)
  <2>1. \A b \in BOOLEAN : /\ Archived(interview[i], b) \in InterviewRow
                           /\ Archived(interview[i], b).stored
    BY <1>1, <1>2 DEF Archived, InterviewRow
  <2>2. \/ Fetch(h, "Archive", i, Archived(interview[i], TRUE))
        \/ Fetch(h, "Unarchive", i, Archived(interview[i], FALSE))
    BY <1>8 DEF ArchiveInterview, UnarchiveInterview
  <2> QED  BY <2>1, <2>2 DEF Edit, EditOps, TaskOps
<1> QED
  BY <1>3, <1>4, <1>5, <1>6, <1>7, <1>8

LEMMA TaskStepKinds ==
    ASSUME TablesTypeOK, InterviewsNext
    PROVE  \/ /\ \E h \in InterviewRequest :
                    \/ \E i \in Interview : Edit(h, i)
                    \/ \E i \in Interview : Create(h, i)
                    \/ \E i \in Interview : UpsertMatrix(h, i)
                    \/ ReadLinks(h)
                    \/ LookUpItem(h)
                    \/ SaveTask(h)
                    \/ AbandonTask(h)
              /\ UNCHANGED catalogVars
           \/ /\ \E u \in User, isActive \in BOOLEAN : SetUserStatus(u, isActive)
              /\ UNCHANGED catalogVars
           \/ CatalogNext /\ UNCHANGED interviewVars
BY EditsAreEdits DEF InterviewsNext, InterviewService

(* What request h holds after its step; the others hold what they did.     *)
LEMMA EditTask ==
    ASSUME TablesTypeOK, NEW h \in InterviewRequest, NEW i \in Interview,
           Edit(h, i)
    PROVE  /\ UNCHANGED <<interview, matrix, trail, onDuty>>
           /\ interview[i].stored
           /\ task' = [task EXCEPT ![h] = task'[h]]
           /\ task'[h] \in Task
           /\ task'[h].step = "items" /\ task'[h].op \in EditOps
           /\ task'[h].id = i /\ task'[h].new.stored
           /\ task'[h].marks = NoMarks
<1>1. PICK op \in EditOps, new \in InterviewRow :
         Fetch(h, op, i, new) /\ new.stored
  BY DEF Edit
<1>2. /\ task' = [task EXCEPT ![h] = task'[h]]
      /\ task'[h] = [NoTask("items") EXCEPT !.op = op, !.id = i,
                        !.seen = interview[i], !.new = new]
  BY <1>1 DEF Fetch, TablesTypeOK
<1>3. NoTask("items") \in Task /\ interview[i] \in InterviewRow
  BY NoTaskType DEF TablesTypeOK, TaskSteps
<1>4. task'[h] \in Task
  BY <1>2, <1>3 DEF Task, EditOps
<1>5. /\ UNCHANGED <<interview, matrix, trail, onDuty>>
      /\ interview[i].stored
  BY <1>1 DEF Fetch
<1> QED
  BY <1>1, <1>2, <1>4, <1>5 DEF NoTask

LEMMA CreateTask ==
    ASSUME TablesTypeOK, NEW h \in InterviewRequest, NEW i \in Interview,
           Create(h, i)
    PROVE  /\ UNCHANGED <<interview, matrix, trail, onDuty>>
           /\ ~interview[i].stored
           /\ \A g \in InterviewRequest : task[g].id # i
           /\ task' = [task EXCEPT ![h] = task'[h]]
           /\ task'[h] \in Task
           /\ task'[h].step = "links" /\ task'[h].op = "Create"
           /\ task'[h].id = i /\ task'[h].new.stored
           /\ task'[h].marks = NoMarks
<1>1. PICK c \in Candidate, v \in Vacancy, u \in User, comment \in Comment :
         task' = [task EXCEPT ![h] = [NoTask("links") EXCEPT
                    !.op = "Create", !.id = i,
                    !.new = Planned(c, v, u, comment)]]
  BY DEF Create
<1>2. /\ task' = [task EXCEPT ![h] = task'[h]]
      /\ task'[h] = [NoTask("links") EXCEPT !.op = "Create", !.id = i,
                        !.new = Planned(c, v, u, comment)]
  BY <1>1 DEF TablesTypeOK
<1>3. NoTask("links") \in Task /\ Planned(c, v, u, comment) \in InterviewRow
  BY NoTaskType, PlannedType DEF TaskSteps
<1>4. task'[h] \in Task
  BY <1>2, <1>3 DEF Task, TaskOps
<1>5. Planned(c, v, u, comment).stored
  BY DEF Planned
<1>6. /\ UNCHANGED <<interview, matrix, trail, onDuty>>
      /\ ~interview[i].stored
      /\ \A g \in InterviewRequest : task[g].id # i
  BY DEF Create
<1> QED
  BY <1>2, <1>4, <1>5, <1>6 DEF NoTask

LEMMA UpsertTask ==
    ASSUME TablesTypeOK, NEW h \in InterviewRequest, NEW i \in Interview,
           UpsertMatrix(h, i)
    PROVE  /\ UNCHANGED <<interview, matrix, trail, onDuty>>
           /\ interview[i].stored
           /\ task' = [task EXCEPT ![h] = task'[h]]
           /\ task'[h] \in Task
           /\ task'[h].step = "items" /\ task'[h].op = "UpsertMatrix"
           /\ task'[h].id = i /\ task'[h].new.stored
           /\ task'[h].seen.status = "Planned"
           /\ \A k \in Competency \ task'[h].todo : task'[h].marks[k] = NoScore
<1>1. PICK ks \in SUBSET Competency : \E mark \in [ks -> MarkInput] :
         task' = [task EXCEPT ![h] = [NoTask("items") EXCEPT
             !.op = "UpsertMatrix", !.id = i,
             !.seen = interview[i], !.new = interview[i], !.todo = ks,
             !.marks = [k \in Competency |-> IF k \in ks THEN mark[k]
                                                         ELSE NoScore]]]
  BY DEF UpsertMatrix
<1>2. PICK mark \in [ks -> MarkInput] :
         task' = [task EXCEPT ![h] = [NoTask("items") EXCEPT
             !.op = "UpsertMatrix", !.id = i,
             !.seen = interview[i], !.new = interview[i], !.todo = ks,
             !.marks = [k \in Competency |-> IF k \in ks THEN mark[k]
                                                         ELSE NoScore]]]
  BY <1>1
<1> DEFINE marks == [k \in Competency |-> IF k \in ks THEN mark[k] ELSE NoScore]
<1>3. marks \in [Competency -> Score]
  BY Inputs DEF Score
<1>4. \A k \in Competency \ ks : marks[k] = NoScore
  OBVIOUS
<1> HIDE DEF marks
<1>5. /\ task' = [task EXCEPT ![h] = task'[h]]
      /\ task'[h] = [NoTask("items") EXCEPT !.op = "UpsertMatrix", !.id = i,
             !.seen = interview[i], !.new = interview[i], !.todo = ks,
             !.marks = marks]
  BY <1>2 DEF TablesTypeOK, marks
<1>6. NoTask("items") \in Task /\ interview[i] \in InterviewRow
  BY NoTaskType DEF TablesTypeOK, TaskSteps
<1>7. task'[h] \in Task
  BY <1>3, <1>5, <1>6 DEF Task, TaskOps
<1>8. /\ UNCHANGED <<interview, matrix, trail, onDuty>>
      /\ interview[i].stored /\ interview[i].status = "Planned"
  BY DEF UpsertMatrix
<1> QED
  BY <1>4, <1>5, <1>7, <1>8 DEF NoTask

LEMMA ReadLinksTask ==
    ASSUME TablesTypeOK, CatalogTypeOK, NEW h \in InterviewRequest, ReadLinks(h)
    PROVE  /\ UNCHANGED <<interview, matrix, trail, onDuty>>
           /\ task[h].step = "links"
           /\ task' = [task EXCEPT ![h] = task'[h]]
           /\ task'[h] \in Task
           /\ task'[h].step = "items" /\ task'[h].op = task[h].op
           /\ task'[h].id = task[h].id /\ task'[h].new = task[h].new
           /\ task'[h].seen = task[h].seen
           /\ \E ks \in SUBSET Competency : task'[h].marks = ZeroMarks(ks)
<1> DEFINE needed == links[task[h].new.vacancy]
<1>1. task[h] \in Task /\ task[h].step = "links"
  BY DEF TablesTypeOK, ReadLinks
<1>2. needed \in SUBSET Competency
  BY <1>1 DEF CatalogTypeOK, Task, InterviewRow
<1>3. /\ task' = [task EXCEPT ![h] = task'[h]]
      /\ task'[h] = [task[h] EXCEPT !.step = "items", !.todo = needed,
                                    !.marks = ZeroMarks(needed)]
  BY DEF ReadLinks, TablesTypeOK
<1>4. ZeroMarks(needed) \in [Competency -> Score]
  BY <1>2, ZeroMarksType
<1> HIDE DEF needed
<1>5. task'[h] \in Task
  BY <1>1, <1>2, <1>3, <1>4 DEF Task, TaskSteps
<1>6. /\ task'[h].step = "items" /\ task'[h].op = task[h].op
      /\ task'[h].id = task[h].id /\ task'[h].new = task[h].new
      /\ task'[h].seen = task[h].seen
      /\ task'[h].marks = ZeroMarks(needed)
  BY <1>1, <1>3 DEF Task
<1>7. UNCHANGED <<interview, matrix, trail, onDuty>>
  BY DEF ReadLinks
<1> QED
  BY <1>1, <1>2, <1>3, <1>5, <1>6, <1>7

LEMMA LookUpTask ==
    ASSUME TablesTypeOK, NEW h \in InterviewRequest, LookUpItem(h)
    PROVE  /\ UNCHANGED <<interview, matrix, trail, onDuty>>
           /\ task[h].step = "items"
           /\ task' = [task EXCEPT ![h] = task'[h]]
           /\ task'[h] \in Task
           /\ task'[h].step = "items" /\ task'[h].op = task[h].op
           /\ task'[h].id = task[h].id /\ task'[h].new = task[h].new
           /\ task'[h].seen = task[h].seen /\ task'[h].marks = task[h].marks
           /\ \E k \in Competency : /\ Accepts(k, task[h].marks[k])
                                    /\ task'[h].todo = task[h].todo \ {k}
<1>1. task[h] \in Task /\ task[h].step = "items"
  BY DEF TablesTypeOK, LookUpItem
<1>2. PICK k \in task[h].todo :
         /\ Accepts(k, task[h].marks[k])
         /\ task' = [task EXCEPT
               ![h].todo = @ \ {k},
               ![h].inserts = IF matrix[task[h].id][k] = NoScore
                              THEN @ \cup {k} ELSE @]
  BY DEF LookUpItem
<1> DEFINE ins == IF matrix[task[h].id][k] = NoScore
                  THEN task[h].inserts \cup {k} ELSE task[h].inserts
           rest == task[h].todo \ {k}
<1>3. /\ task' = [task EXCEPT ![h] = task'[h]]
      /\ task'[h] = [task[h] EXCEPT !.todo = rest, !.inserts = ins]
  BY <1>2 DEF TablesTypeOK
<1>4. k \in Competency
  BY <1>1 DEF Task
<1>5. ins \in SUBSET Competency /\ rest \in SUBSET Competency
  BY <1>1, <1>4 DEF Task
<1>6. rest = task[h].todo \ {k}
  OBVIOUS
<1> HIDE DEF ins, rest
<1>7. task'[h] \in Task
  BY <1>1, <1>3, <1>5 DEF Task
<1>8. /\ task'[h].step = "items" /\ task'[h].op = task[h].op
      /\ task'[h].id = task[h].id /\ task'[h].new = task[h].new
      /\ task'[h].seen = task[h].seen /\ task'[h].marks = task[h].marks
      /\ task'[h].todo = rest
  BY <1>1, <1>3 DEF Task
<1>9. UNCHANGED <<interview, matrix, trail, onDuty>>
  BY DEF LookUpItem
<1> QED
  BY <1>1, <1>2, <1>3, <1>4, <1>6, <1>7, <1>8, <1>9

LEMMA FinishedTask ==
    ASSUME TablesTypeOK, NEW h \in InterviewRequest, FinishTask(h)
    PROVE  /\ task' = [task EXCEPT ![h] = task'[h]]
           /\ task'[h] \in Task
           /\ task'[h].step = "done" /\ task'[h].id = NoInterview
BY NoTaskType DEF FinishTask, TablesTypeOK, TaskSteps

-----------------------------------------------------------------------------
(* Types.                                                                  *)

LEMMA ToldType ==
    ASSUME NEW view \in TrailView, NEW op \in TaskOps, NEW new \in InterviewRow
    PROVE  Told(view, op, new) \in TrailView
<1>1. NoTrail \in TrailView
  BY DEF NoTrail, TrailView, Status, Decision
<1> QED
  BY <1>1 DEF Told, TrailView, InterviewRow

LEMMA MarkedType ==
    ASSUME NEW old \in [Competency -> Score], NEW marks \in [Competency -> Score]
    PROVE  Marked(old, marks) \in [Competency -> Score]
BY DEF Marked

(* The tables after a save.                                                *)
LEMMA SavedTables ==
    ASSUME TablesTypeOK, NEW h \in InterviewRequest, SaveTask(h)
    PROVE  /\ interview' \in [Interview -> InterviewRow]
           /\ matrix' \in [Interview -> [Competency -> Score]]
           /\ trail' \in [Interview -> TrailView]
           /\ \A i \in Interview :
                /\ i # task[h].id =>
                      /\ interview'[i] = interview[i]
                      /\ matrix'[i] = matrix[i]
                      /\ trail'[i] = trail[i]
                /\ i = task[h].id =>
                      /\ interview'[i] = IF task[h].op = "UpsertMatrix"
                                         THEN interview[i] ELSE task[h].new
                      /\ matrix'[i] = Marked(matrix[i], task[h].marks)
                      /\ trail'[i] = Told(trail[i], task[h].op, task[h].new)
<1>1. task[h] \in Task
  BY DEF TablesTypeOK
<1>2. interview' \in [Interview -> InterviewRow]
  BY <1>1 DEF SaveTask, TablesTypeOK, Task
<1>3. matrix' \in [Interview -> [Competency -> Score]]
  <2>1. \A i \in Interview :
           Marked(matrix[i], task[h].marks) \in [Competency -> Score]
    BY <1>1, MarkedType DEF TablesTypeOK, Task
  <2> QED  BY <2>1 DEF SaveTask, TablesTypeOK
<1>4. trail' \in [Interview -> TrailView]
  <2>1. \A i \in Interview :
           Told(trail[i], task[h].op, task[h].new) \in TrailView
    BY <1>1, ToldType DEF TablesTypeOK, Task
  <2> QED  BY <2>1 DEF SaveTask, TablesTypeOK
<1>5. \A i \in Interview :
        /\ interview'[i] = IF i = task[h].id /\ task[h].op # "UpsertMatrix"
                           THEN task[h].new ELSE interview[i]
        /\ matrix'[i] = IF i = task[h].id
                        THEN Marked(matrix[i], task[h].marks) ELSE matrix[i]
        /\ trail'[i] = IF i = task[h].id
                       THEN Told(trail[i], task[h].op, task[h].new)
                       ELSE trail[i]
  BY DEF SaveTask, TablesTypeOK
<1> QED
  BY <1>2, <1>3, <1>4, <1>5

LEMMA TablesStep ==
    CatalogTypeOK /\ TablesTypeOK /\ [InterviewsNext]_vars => TablesTypeOK'
<1> SUFFICES ASSUME CatalogTypeOK, TablesTypeOK, [InterviewsNext]_vars
             PROVE  TablesTypeOK'
  OBVIOUS
<1>1. CASE UNCHANGED interviewVars
  BY <1>1 DEF interviewVars, TablesTypeOK
<1>2. ASSUME NEW h \in InterviewRequest, NEW i \in Interview,
             Edit(h, i) \/ Create(h, i) \/ UpsertMatrix(h, i)
      PROVE  TablesTypeOK'
  BY <1>2, EditTask, CreateTask, UpsertTask DEF TablesTypeOK
<1>3. ASSUME NEW h \in InterviewRequest, ReadLinks(h) \/ LookUpItem(h)
      PROVE  TablesTypeOK'
  BY <1>3, ReadLinksTask, LookUpTask DEF TablesTypeOK
<1>4. ASSUME NEW h \in InterviewRequest, SaveTask(h)
      PROVE  TablesTypeOK'
  <2>1. FinishTask(h) /\ onDuty' = onDuty
    BY <1>4 DEF SaveTask
  <2> QED
    BY <1>4, <2>1, SavedTables, FinishedTask DEF TablesTypeOK
<1>5. ASSUME NEW h \in InterviewRequest, AbandonTask(h)
      PROVE  TablesTypeOK'
  BY <1>5, FinishedTask DEF AbandonTask, TablesTypeOK
<1>6. ASSUME NEW u \in User, NEW isActive \in BOOLEAN, SetUserStatus(u, isActive)
      PROVE  TablesTypeOK'
  BY <1>6 DEF SetUserStatus, TablesTypeOK
<1>7. UNCHANGED vars => UNCHANGED interviewVars
  BY DEF vars
<1> QED
  BY <1>1, <1>2, <1>3, <1>4, <1>5, <1>6, <1>7, TaskStepKinds

LEMMA TablesInit == InterviewsInit => TablesTypeOK
<1> SUFFICES ASSUME InterviewsInit PROVE TablesTypeOK
  OBVIOUS
<1>1. interview \in [Interview -> InterviewRow]
  <2>1. \A c \in Candidate, v \in Vacancy, u \in User :
           Planned(c, v, u, Keep) \in InterviewRow
    BY PlannedType DEF Comment
  <2> QED  BY <2>1, NoInterviewRowType DEF InterviewsInit
<1>2. matrix \in [Interview -> [Competency -> Score]]
  <2>1. \A ks \in SUBSET {k \in Competency : row[k].stored} :
           ZeroMarks(ks) \in [Competency -> Score]
    BY ZeroMarksType
  <2> QED  BY <2>1 DEF InterviewsInit
<1>3. trail \in [Interview -> TrailView]
  BY <1>1 DEF InterviewsInit, NoTrail, TrailView, Status, Decision, InterviewRow
<1>4. task \in [InterviewRequest -> Task]
  BY NoTaskType DEF InterviewsInit, TaskSteps
<1> QED
  BY <1>1, <1>2, <1>3, <1>4 DEF TablesTypeOK, InterviewsInit

(* The catalog keeps its invariant under the steps of the interviews.      *)
LEMMA CatalogStep ==
    Types /\ Sound /\ TablesTypeOK /\ [InterviewsNext]_vars => (Types /\ Sound)'
<1> SUFFICES ASSUME Types, Sound, TablesTypeOK, [InterviewsNext]_vars
             PROVE  (Types /\ Sound)'
  OBVIOUS
<1>1. [CatalogNext]_catalogVars
  BY TaskStepKinds DEF vars
<1> QED
  BY <1>1, TypesStep, SoundStep

(* The variables always have their types.                                  *)
THEOREM InterviewsTypes == InterviewsSpec => []InterviewsTypeOK
<1>1. InterviewsInit => Types /\ Sound /\ TablesTypeOK
  BY TypesInit, SoundInit, TablesInit DEF InterviewsInit
<1>2. Types /\ Sound /\ TablesTypeOK /\ [InterviewsNext]_vars
        => (Types /\ Sound /\ TablesTypeOK)'
  BY CatalogStep, TablesStep DEF Types
<1>3. Types /\ Sound /\ TablesTypeOK => InterviewsTypeOK
  BY DEF Types, TablesTypeOK, InterviewsTypeOK
<1> QED  BY <1>1, <1>2, <1>3, PTL DEF InterviewsSpec

-----------------------------------------------------------------------------
(* The safety invariants.                                                  *)

Safe == ScoresInRange /\ NothingHalfCreated /\ TasksSound /\ IdleHasNoId

(* A step of request h leaves the other requests sound, as it creates only *)
(* the interview it works on and takes up none that another creates.       *)
LEMMA OtherTasks ==
    ASSUME TablesTypeOK, TasksSound, IdleHasNoId, NEW h \in InterviewRequest,
           task' = [task EXCEPT ![h] = task'[h]],
           TaskSound(h)',
           task'[h].step \in {"links", "items"} <=> task'[h].id \in Interview,
           \A i \in Interview : interview[i].stored => interview'[i].stored,
           \A i \in Interview : i # task[h].id => interview'[i] = interview[i],
           \/ task'[h].id \in {task[h].id, NoInterview}
           \/ interview[task'[h].id].stored
           \/ \A g \in InterviewRequest : task[g].id # task'[h].id
    PROVE  TasksSound' /\ IdleHasNoId'
<1>1. \A g \in InterviewRequest : g # h => task'[g] = task[g]
  BY DEF TablesTypeOK
<1>2. IdleHasNoId'
  BY <1>1 DEF IdleHasNoId
<1>3. ASSUME NEW g \in InterviewRequest, g # h
      PROVE  TaskSound(g)'
  <2> DEFINE i == task[g].id
  <2>1. task'[g] = task[g] /\ TaskSound(g)
    BY <1>1, <1>3 DEF TasksSound
  <2>2. SUFFICES ASSUME i \in Interview PROVE TaskSound(g)'
    BY <2>1 DEF TaskSound
  <2>3. task[g].op = "Create" =>
          /\ ~interview'[i].stored
          /\ \A x \in InterviewRequest : x # g => task'[x].id # i
    <3>1. SUFFICES ASSUME task[g].op = "Create"
                   PROVE  /\ ~interview'[i].stored
                          /\ \A x \in InterviewRequest : x # g => task'[x].id # i
      OBVIOUS
    <3>2. /\ ~interview[i].stored
          /\ \A x \in InterviewRequest : x # g => task[x].id # i
      BY <2>1, <2>2, <3>1 DEF TaskSound
    <3>3. task'[h].id # i
      BY <1>3, <2>2, <3>2, Inputs
    <3> QED  BY <1>1, <1>3, <2>2, <3>2, <3>3
  <2>4. task[g].op # "Create" => interview'[i].stored
    BY <2>1, <2>2 DEF TaskSound
  <2> QED  BY <2>1, <2>2, <2>3, <2>4 DEF TaskSound
<1> QED
  BY <1>2, <1>3 DEF TasksSound

(* A step that writes no table.                                            *)
LEMMA QuietTask ==
    ASSUME TablesTypeOK, Safe, NEW h \in InterviewRequest,
           UNCHANGED <<interview, matrix, trail>>,
           task' = [task EXCEPT ![h] = task'[h]],
           TaskSound(h)',
           task'[h].step \in {"links", "items"} <=> task'[h].id \in Interview,
           \/ task'[h].id \in {task[h].id, NoInterview}
           \/ interview[task'[h].id].stored
           \/ \A g \in InterviewRequest : task[g].id # task'[h].id
    PROVE  Safe'
<1>1. TasksSound' /\ IdleHasNoId'
  BY OtherTasks DEF Safe
<1> QED
  BY <1>1 DEF Safe, ScoresInRange, NothingHalfCreated

LEMMA EditSafe ==
    ASSUME TablesTypeOK, Safe, NEW h \in InterviewRequest,
           NEW i \in Interview, Edit(h, i)
    PROVE  Safe'
<1>1. \A k \in Competency : InRange(task'[h].marks[k])
  BY EditTask DEF NoMarks, InRange
<1>2. task'[h].op \in EditOps /\ task'[h].op # "Create"
      /\ task'[h].op # "UpsertMatrix"
  BY EditTask DEF EditOps
<1>3. TaskSound(h)'
  BY <1>1, <1>2, EditTask DEF TaskSound
<1> QED
  BY <1>3, EditTask, QuietTask

LEMMA CreateSafe ==
    ASSUME TablesTypeOK, Safe, NEW h \in InterviewRequest,
           NEW i \in Interview, Create(h, i)
    PROVE  Safe'
<1>1. \A k \in Competency : InRange(task'[h].marks[k])
  BY CreateTask DEF NoMarks, InRange
<1>2. \A g \in InterviewRequest : g # h => task'[g].id # i
  BY CreateTask DEF TablesTypeOK
<1>3. TaskSound(h)'
  BY <1>1, <1>2, CreateTask DEF TaskSound, EditOps
<1> QED
  BY <1>3, CreateTask, QuietTask

LEMMA UpsertSafe ==
    ASSUME TablesTypeOK, Safe, NEW h \in InterviewRequest,
           NEW i \in Interview, UpsertMatrix(h, i)
    PROVE  Safe'
<1>1. \A k \in Competency \ task'[h].todo : InRange(task'[h].marks[k])
  BY UpsertTask DEF InRange
<1>2. TaskSound(h)'
  BY <1>1, UpsertTask DEF TaskSound, EditOps
<1> QED
  BY <1>2, UpsertTask, QuietTask

LEMMA ReadLinksSafe ==
    ASSUME TablesTypeOK, CatalogTypeOK, Safe, NEW h \in InterviewRequest,
           ReadLinks(h)
    PROVE  Safe'
<1>1. \A k \in Competency : InRange(task'[h].marks[k])
  BY ReadLinksTask, ZeroMarksType
<1>2. task[h].id \in Interview /\ TaskSound(h)
  BY ReadLinksTask DEF Safe, TasksSound, IdleHasNoId
<1>3. \A g \in InterviewRequest : g # h => task'[g] = task[g]
  BY ReadLinksTask DEF TablesTypeOK
<1>4. TaskSound(h)'
  BY <1>1, <1>2, <1>3, ReadLinksTask DEF TaskSound, EditOps
<1> QED
  BY <1>2, <1>4, ReadLinksTask, QuietTask

LEMMA LookUpSafe ==
    ASSUME TablesTypeOK, CatalogTypeOK, ScaleInRange, Safe,
           NEW h \in InterviewRequest, LookUpItem(h)
    PROVE  Safe'
<1>1. PICK k \in Competency : /\ Accepts(k, task[h].marks[k])
                              /\ task'[h].todo = task[h].todo \ {k}
  BY LookUpTask
<1>2. InRange(task[h].marks[k])
  <2>1. task[h].marks[k] \in Score
    BY DEF TablesTypeOK, Task
  <2>2. row[k].maxScore \in 1 .. 5
    BY <1>1 DEF Accepts, ScaleInRange
  <2> QED  BY <1>1, <2>1, <2>2 DEF Accepts, InRange, Score
<1>3. task[h].id \in Interview /\ TaskSound(h)
  BY LookUpTask DEF Safe, TasksSound, IdleHasNoId
<1>4. \A x \in Competency \ task'[h].todo : InRange(task'[h].marks[x])
  BY <1>1, <1>2, <1>3, LookUpTask DEF TaskSound
<1>5. \A g \in InterviewRequest : g # h => task'[g] = task[g]
  BY LookUpTask DEF TablesTypeOK
<1>6. TaskSound(h)'
  BY <1>3, <1>4, <1>5, LookUpTask DEF TaskSound
<1> QED
  BY <1>3, <1>6, LookUpTask, QuietTask

LEMMA FinishSafe ==
    ASSUME TablesTypeOK, Safe, NEW h \in InterviewRequest, FinishTask(h)
    PROVE  /\ TaskSound(h)'
           /\ task'[h].step \in {"links", "items"} <=> task'[h].id \in Interview
BY FinishedTask, Inputs DEF TaskSound

(* What a save does to one interview.                                      *)
LEMMA SaveSafe ==
    ASSUME TablesTypeOK, Safe, NEW h \in InterviewRequest, SaveTask(h)
    PROVE  Safe'
<1> DEFINE n == task[h].id
<1>1. n \in Interview /\ TaskSound(h) /\ FinishTask(h)
  BY DEF SaveTask, Safe, TasksSound, IdleHasNoId
<1>2. \A k \in Competency : InRange(task[h].marks[k])
  BY <1>1 DEF SaveTask, TaskSound
<1>3. interview'[n].stored
  BY <1>1, SavedTables DEF TaskSound, EditOps
<1>4. TasksSound' /\ IdleHasNoId'
  BY <1>1, <1>3, FinishSafe, FinishedTask, SavedTables, OtherTasks DEF Safe
<1>5. ScoresInRange'
  <2> SUFFICES ASSUME NEW i \in Interview, NEW k \in Competency
               PROVE  InRange(matrix'[i][k])
    BY DEF ScoresInRange, InRange
  <2>1. InRange(matrix[i][k])
    BY DEF Safe, ScoresInRange, InRange
  <2>2. CASE i = n
    <3>1. matrix'[i] = Marked(matrix[i], task[h].marks)
      BY <2>2, SavedTables
    <3>2. matrix'[i][k] \in {matrix[i][k], task[h].marks[k]}
      BY <3>1 DEF Marked
    <3> QED  BY <1>2, <2>1, <3>2
  <2>3. CASE i # n
    BY <2>1, <2>3, SavedTables
  <2> QED  BY <2>2, <2>3
<1>6. NothingHalfCreated'
  <2> SUFFICES ASSUME NEW i \in Interview
               PROVE  /\ trail'[i].created = interview'[i].stored
                      /\ matrix'[i] # NoMarks => interview'[i].stored
    BY DEF NothingHalfCreated
  <2>1. /\ trail[i].created = interview[i].stored
        /\ matrix[i] # NoMarks => interview[i].stored
    BY DEF Safe, NothingHalfCreated
  <2>2. CASE i # n
    BY <2>1, <2>2, SavedTables
  <2>3. CASE i = n
    <3>1. trail'[i] = Told(trail[i], task[h].op, task[h].new)
      BY <2>3, SavedTables
    <3>2. CASE task[h].op = "Create"
      <4>1. trail'[i].created
        BY <3>1, <3>2 DEF Told, NoTrail
      <4>2. trail'[i].created = TRUE /\ interview'[i].stored = TRUE
        BY <4>1, <2>3, <1>3, SavedTables DEF TrailView, InterviewRow
      <4> QED  BY <4>2
    <3>3. CASE task[h].op # "Create"
      <4>1. interview[i].stored
        BY <1>1, <2>3, <3>3 DEF TaskSound
      <4>2. trail'[i].created = trail[i].created
        BY <3>1, <3>3 DEF Told, TablesTypeOK, TrailView
      <4>3. interview[i].stored = TRUE /\ interview'[i].stored = TRUE
        BY <4>1, <1>3, <2>3, SavedTables DEF TablesTypeOK, InterviewRow
      <4> QED  BY <2>1, <4>2, <4>3
    <3> QED  BY <3>2, <3>3
  <2> QED  BY <2>2, <2>3
<1> QED
  BY <1>4, <1>5, <1>6 DEF Safe

LEMMA SafeStep ==
    Types /\ Sound /\ TablesTypeOK /\ Safe /\ [InterviewsNext]_vars => Safe'
<1> SUFFICES ASSUME CatalogTypeOK, ScaleInRange, TablesTypeOK, Safe,
                    [InterviewsNext]_vars
             PROVE  Safe'
  BY DEF Types, Sound
<1>1. CASE UNCHANGED <<interview, matrix, trail, task>>
  BY <1>1 DEF Safe, ScoresInRange, NothingHalfCreated, TasksSound, TaskSound,
              IdleHasNoId
<1>2. ASSUME NEW h \in InterviewRequest, AbandonTask(h)
      PROVE  Safe'
  <2>1. FinishTask(h) /\ UNCHANGED <<interview, matrix, trail>>
    BY <1>2 DEF AbandonTask
  <2> QED
    BY <2>1, FinishSafe, FinishedTask, QuietTask
<1>3. /\ UNCHANGED interviewVars => UNCHANGED <<interview, matrix, trail, task>>
      /\ UNCHANGED vars => UNCHANGED interviewVars
      /\ \A u \in User, isActive \in BOOLEAN : SetUserStatus(u, isActive)
            => UNCHANGED <<interview, matrix, trail, task>>
  BY DEF interviewVars, vars, SetUserStatus
<1> QED
  BY <1>1, <1>2, <1>3, TaskStepKinds, EditSafe, CreateSafe, UpsertSafe,
     ReadLinksSafe, LookUpSafe, SaveSafe

LEMMA SafeInit == InterviewsInit => Safe
<1> SUFFICES ASSUME InterviewsInit PROVE Safe
  OBVIOUS
<1>1. ScoresInRange
  <2> SUFFICES ASSUME NEW i \in Interview, NEW k \in Competency
               PROVE  InRange(matrix[i][k])
    BY DEF ScoresInRange, InRange
  <2>1. PICK ks \in SUBSET {x \in Competency : row[x].stored} :
           matrix[i] = ZeroMarks(ks)
    BY DEF InterviewsInit
  <2> QED  BY <2>1, ZeroMarksType
<1>2. NothingHalfCreated
  BY DEF InterviewsInit, NothingHalfCreated, NoTrail
<1>3. \A h \in InterviewRequest :
         task[h].step = "new" /\ task[h].id \notin Interview
  BY Inputs, NoTaskType DEF InterviewsInit, TaskSteps
<1>4. TasksSound /\ IdleHasNoId
  BY <1>3 DEF TasksSound, TaskSound, IdleHasNoId
<1> QED
  BY <1>1, <1>2, <1>4 DEF Safe

LEMMA AlwaysSafe == InterviewsSpec => [](Types /\ Sound /\ TablesTypeOK /\ Safe)
<1>1. InterviewsInit => Types /\ Sound /\ TablesTypeOK /\ Safe
  BY TypesInit, SoundInit, TablesInit, SafeInit DEF InterviewsInit
<1>2. Types /\ Sound /\ TablesTypeOK /\ Safe /\ [InterviewsNext]_vars
        => (Types /\ Sound /\ TablesTypeOK /\ Safe)'
  BY CatalogStep, TablesStep, SafeStep DEF Types
<1> QED  BY <1>1, <1>2, PTL DEF InterviewsSpec

(* No score ever leaves 0 to 5: not by what clients submit, and not by an  *)
(* edit of the competency between its look-up and the save of the score.   *)
THEOREM ScoresAlwaysInRange == InterviewsSpec => []ScoresInRange
<1>1. Safe => ScoresInRange
  BY DEF Safe
<1> QED  BY <1>1, AlwaysSafe, PTL

(* An interview, its matrix and its audit entry appear in one step.        *)
THEOREM NothingEverHalfCreated == InterviewsSpec => []NothingHalfCreated
<1>1. Safe => NothingHalfCreated
  BY DEF Safe
<1> QED  BY <1>1, AlwaysSafe, PTL

-----------------------------------------------------------------------------
(* The action properties.                                                  *)

(* Only a save changes the matrix of an interview, and only of the one the *)
(* request is about.                                                       *)
LEMMA MatrixChanges ==
    ASSUME TablesTypeOK, InterviewsNext, NEW i \in Interview,
           matrix'[i] # matrix[i]
    PROVE  \E h \in InterviewRequest :
              /\ SaveTask(h) /\ TaskSaves(h, i)
              /\ matrix'[i] = Marked(matrix[i], task[h].marks)
<1>1. PICK h \in InterviewRequest : SaveTask(h)
  <2>1. matrix' # matrix
    OBVIOUS
  <2> QED
    BY <2>1, TaskStepKinds, EditTask, CreateTask, UpsertTask, ReadLinksTask,
       LookUpTask DEF Fetch, Edit, Create, UpsertMatrix, ReadLinks, LookUpItem,
                      AbandonTask, SetUserStatus, interviewVars
<1>2. i = task[h].id /\ matrix'[i] = Marked(matrix[i], task[h].marks)
  BY <1>1, SavedTables
<1>3. task'[h].step = "done"
  BY <1>1, FinishedTask DEF SaveTask
<1> QED
  BY <1>1, <1>2, <1>3 DEF TaskSaves, SaveTask

(* The parts of the properties that speak of one step.                     *)
LateScoreIsOld ==
    \A i \in Interview :
        (/\ interview[i].stored /\ interview[i].status # "Planned"
         /\ matrix'[i] # matrix[i])
          => \E h \in InterviewRequest :
                /\ TaskSaves(h, i) /\ task[h].op = "UpsertMatrix"
                /\ task[h].seen.status = "Planned"

ScoreNotLostToInsert ==
    \A i \in Interview, k \in Competency :
        matrix[i][k] # NoScore /\ matrix'[i][k] # matrix[i][k]
          => \E h \in InterviewRequest :
                TaskSaves(h, i) /\ k \notin task[h].inserts

LEMMA LateScoreStep ==
    TablesTypeOK /\ Safe /\ [InterviewsNext]_vars => [LateScoreIsOld]_vars
<1> SUFFICES ASSUME TablesTypeOK, Safe, InterviewsNext, NEW i \in Interview,
                    interview[i].stored, matrix'[i] # matrix[i]
             PROVE  \E h \in InterviewRequest :
                       /\ TaskSaves(h, i) /\ task[h].op = "UpsertMatrix"
                       /\ task[h].seen.status = "Planned"
  BY DEF LateScoreIsOld
<1>1. PICK h \in InterviewRequest :
         /\ TaskSaves(h, i)
         /\ matrix'[i] = Marked(matrix[i], task[h].marks)
  BY MatrixChanges
<1>2. task[h].id = i /\ TaskSound(h)
  BY <1>1 DEF TaskSaves, Safe, TasksSound
<1>3. task[h].op # "Create"
  BY <1>2 DEF TaskSound
<1>4. task[h].op \notin EditOps
  <2> SUFFICES ASSUME task[h].marks = NoMarks PROVE FALSE
    BY <1>2 DEF TaskSound
  <2>1. matrix'[i] = [k \in Competency |-> matrix[i][k]]
    BY <1>1 DEF Marked, NoMarks
  <2> QED  BY <2>1 DEF TablesTypeOK
<1> QED
  BY <1>1, <1>2, <1>3, <1>4 DEF TaskSound

LEMMA InsertStep ==
    TablesTypeOK /\ Safe /\ [InterviewsNext]_vars => [ScoreNotLostToInsert]_vars
<1> SUFFICES ASSUME TablesTypeOK, Safe, InterviewsNext, NEW i \in Interview,
                    NEW k \in Competency, matrix[i][k] # NoScore,
                    matrix'[i][k] # matrix[i][k]
             PROVE  \E h \in InterviewRequest :
                       TaskSaves(h, i) /\ k \notin task[h].inserts
  BY DEF ScoreNotLostToInsert
<1>1. PICK h \in InterviewRequest : SaveTask(h) /\ TaskSaves(h, i)
  BY MatrixChanges
<1>2. k \notin task[h].inserts
  BY <1>1 DEF SaveTask, TaskSaves
<1> QED  BY <1>1, <1>2

(* The scores of an interview that is completed or cancelled change only   *)
(* by requests that overlapped the one that ended it.                      *)
THEOREM LateScoresAlwaysOld == InterviewsSpec => LateScoresAreOld
BY AlwaysSafe, LateScoreStep, PTL
DEF InterviewsSpec, LateScoresAreOld, LateScoreIsOld

(* Two requests that insert the same row of the matrix do not overwrite    *)
(* each other.                                                             *)
THEOREM NoScoreEverLostToInsert == InterviewsSpec => NoScoreLostToInsert
BY AlwaysSafe, InsertStep, PTL
DEF InterviewsSpec, NoScoreLostToInsert, ScoreNotLostToInsert

-----------------------------------------------------------------------------
(* The columns that an operation is not about.                             *)

(* What each operation makes of the row it has read.                       *)
Fits(op, old, new) ==
    \/ /\ op = "Update"
       /\ \E c \in Candidate, v \in Vacancy, u \in User, comment \in Comment :
             new = Rebooked(old, c, v, u, comment)
    \/ /\ op = "SetStatus"
       /\ \E status \in Status, decision \in Decision \cup {Keep},
             comment \in Comment :
             new = StatusSet(old, status, decision, comment)
    \/ /\ op = "Decide"
       /\ \E decision \in Decision, comment \in Comment :
             new = Decided(old, decision, comment)
    \/ op = "SoftDelete" /\ ~old.deleted /\ new = SoftDeleted(old)
    \/ op = "Restore" /\ old.deleted /\ new = Undeleted(old)
    \/ op = "Archive" /\ ~old.archived /\ new = Archived(old, TRUE)
    \/ op = "Unarchive" /\ old.archived /\ new = Archived(old, FALSE)

LEMMA EditsFit ==
    ASSUME NEW h \in InterviewRequest, NEW i \in Interview,
           \/ Update(h, i) \/ UpdateStatus(h, i) \/ Decide(h, i)
           \/ DeleteInterview(h, i) \/ RestoreInterview(h, i)
           \/ ArchiveInterview(h, i) \/ UnarchiveInterview(h, i)
    PROVE  \E op \in EditOps : \E new :
              Fetch(h, op, i, new) /\ Fits(op, interview[i], new)
<1>1. CASE Update(h, i)
  <2>1. PICK c \in Candidate, v \in Vacancy, u \in User, comment \in Comment :
           Fetch(h, "Update", i, Rebooked(interview[i], c, v, u, comment))
    BY <1>1 DEF Update
  <2>2. Fits("Update", interview[i],
             Rebooked(interview[i], c, v, u, comment))
    BY DEF Fits
  <2> QED  BY <2>1, <2>2 DEF EditOps, TaskOps
<1>2. CASE UpdateStatus(h, i)
  <2>1. PICK status \in Status, decision \in DecisionInput \cup {Keep},
             comment \in Comment :
           Fetch(h, "SetStatus", i,
                 StatusSet(interview[i], status, decision, comment))
    BY <1>2 DEF UpdateStatus
  <2>2. Fits("SetStatus", interview[i],
             StatusSet(interview[i], status, decision, comment))
    BY Inputs DEF Fits
  <2> QED  BY <2>1, <2>2 DEF EditOps, TaskOps
<1>3. CASE Decide(h, i)
  <2>1. PICK decision \in DecisionInput, comment \in Comment :
           Fetch(h, "Decide", i, Decided(interview[i], decision, comment))
    BY <1>3 DEF Decide
  <2>2. Fits("Decide", interview[i], Decided(interview[i], decision, comment))
    BY Inputs DEF Fits
  <2> QED  BY <2>1, <2>2 DEF EditOps, TaskOps
<1>4. CASE DeleteInterview(h, i)
  BY <1>4 DEF DeleteInterview, Fits, EditOps, TaskOps
<1>5. CASE RestoreInterview(h, i)
  BY <1>5 DEF RestoreInterview, Fits, EditOps, TaskOps
<1>6. CASE ArchiveInterview(h, i)
  BY <1>6 DEF ArchiveInterview, Fits, EditOps, TaskOps
<1>7. CASE UnarchiveInterview(h, i)
  BY <1>7 DEF UnarchiveInterview, Fits, EditOps, TaskOps
<1> QED
  BY <1>1, <1>2, <1>3, <1>4, <1>5, <1>6, <1>7

Columns == {"stored", "candidate", "vacancy", "interviewer", "comment",
            "status", "decision", "archived", "deleted", "deletedAt"}

Kept(op, old, new) == \A f \in Columns \ OwnColumns(op) : new[f] = old[f]

LEMMA FitKeeps ==
    ASSUME NEW op \in EditOps, NEW old \in InterviewRow, NEW new,
           Fits(op, old, new)
    PROVE  Kept(op, old, new)
<1>1. DOMAIN old = Columns
  BY DEF InterviewRow, Columns
<1>2. CASE op = "Update"
  <2>1. PICK c, v, u, comment : new = Rebooked(old, c, v, u, comment)
    BY <1>2 DEF Fits
  <2> QED  BY <1>1, <1>2, <2>1 DEF Kept, OwnColumns, Rebooked
<1>3. CASE op = "SetStatus"
  <2>1. PICK status, decision, comment :
           new = StatusSet(old, status, decision, comment)
    BY <1>3 DEF Fits
  <2> QED  BY <1>1, <1>3, <2>1 DEF Kept, OwnColumns, StatusSet
<1>4. CASE op = "Decide"
  <2>1. PICK decision, comment : new = Decided(old, decision, comment)
    BY <1>4 DEF Fits
  <2> QED  BY <1>1, <1>4, <2>1 DEF Kept, OwnColumns, Decided
<1>5. CASE op \in {"SoftDelete", "Restore"}
  BY <1>1, <1>5 DEF Fits, Kept, OwnColumns, SoftDeleted, Undeleted
<1>6. CASE op \in {"Archive", "Unarchive"}
  BY <1>1, <1>6 DEF Fits, Kept, OwnColumns, Archived
<1> QED
  BY <1>2, <1>3, <1>4, <1>5, <1>6 DEF EditOps, TaskOps

(* A request about to save an interview it has read holds the columns it   *)
(* is not about as it has read them.                                       *)
TaskKeeps(h) ==
    task[h].op \in EditOps => Kept(task[h].op, task[h].seen, task[h].new)

TasksKeep == \A h \in InterviewRequest : TaskKeeps(h)

LEMMA KeepsStep ==
    CatalogTypeOK /\ TablesTypeOK /\ TasksKeep /\ [InterviewsNext]_vars => TasksKeep'
<1> SUFFICES ASSUME CatalogTypeOK, TablesTypeOK, TasksKeep, [InterviewsNext]_vars
             PROVE  TasksKeep'
  OBVIOUS
<1>1. CASE UNCHANGED task
  BY <1>1 DEF TasksKeep, TaskKeeps
<1>2. SUFFICES ASSUME NEW h \in InterviewRequest,
                      task' = [task EXCEPT ![h] = task'[h]],
                      InterviewService(h)
               PROVE  TaskKeeps(h)'
  <2>1. InterviewsNext /\ UNCHANGED task => TasksKeep'
    BY <1>1
  <2>2. ASSUME NEW h \in InterviewRequest, InterviewService(h)
        PROVE  task' = [task EXCEPT ![h] = task'[h]]
    BY <2>2, EditsAreEdits, EditTask, CreateTask, UpsertTask, ReadLinksTask,
       LookUpTask, FinishedTask DEF InterviewService, SaveTask, AbandonTask
  <2>3. ASSUME NEW h \in InterviewRequest, TaskKeeps(h)',
               task' = [task EXCEPT ![h] = task'[h]]
        PROVE  TasksKeep'
    <3>1. \A g \in InterviewRequest : g # h => task'[g] = task[g]
      BY <2>3 DEF TablesTypeOK
    <3> QED  BY <2>3, <3>1 DEF TasksKeep, TaskKeeps
  <2>4. \/ UNCHANGED task
        \/ \E h \in InterviewRequest : InterviewService(h)
    BY DEF InterviewsNext, vars, interviewVars, SetUserStatus
  <2> QED  BY <1>1, <1>2, <2>2, <2>3, <2>4
<1>3. ASSUME NEW i \in Interview,
             \/ Update(h, i) \/ UpdateStatus(h, i) \/ Decide(h, i)
             \/ DeleteInterview(h, i) \/ RestoreInterview(h, i)
             \/ ArchiveInterview(h, i) \/ UnarchiveInterview(h, i)
      PROVE  TaskKeeps(h)'
  <2>0. PICK op \in EditOps : \E new :
           Fetch(h, op, i, new) /\ Fits(op, interview[i], new)
    BY <1>3, EditsFit
  <2>1. PICK new : Fetch(h, op, i, new) /\ Fits(op, interview[i], new)
    BY <2>0
  <2>2. /\ task'[h].op = op /\ task'[h].seen = interview[i]
        /\ task'[h].new = new
    BY <2>1 DEF Fetch, TablesTypeOK, NoTask
  <2>3. Kept(op, interview[i], new)
    BY <2>1, FitKeeps DEF TablesTypeOK
  <2> QED  BY <2>2, <2>3 DEF TaskKeeps
<1>4. ASSUME NEW i \in Interview, Create(h, i) \/ UpsertMatrix(h, i)
      PROVE  TaskKeeps(h)'
  BY <1>4, CreateTask, UpsertTask DEF TaskKeeps, EditOps
<1>5. CASE ReadLinks(h) \/ LookUpItem(h)
  BY <1>5, ReadLinksTask, LookUpTask DEF TasksKeep, TaskKeeps
<1>6. CASE SaveTask(h) \/ AbandonTask(h)
  <2>1. task'[h] = NoTask("done")
    BY <1>6 DEF SaveTask, AbandonTask, FinishTask, TablesTypeOK
  <2> QED  BY <2>1 DEF NoTask, TaskKeeps, EditOps
<1> QED
  BY <1>2, <1>3, <1>4, <1>5, <1>6 DEF InterviewService

ForeignColumnIsOld ==
    \A h \in InterviewRequest, i \in Interview :
        TaskSaves(h, i) /\ interview[i].stored =>
          \A f \in DOMAIN interview[i] \ OwnColumns(task[h].op) :
              interview'[i][f] # interview[i][f] =>
                  /\ interview'[i][f] = task[h].seen[f]
                  /\ interview[i] # task[h].seen

LEMMA ForeignColumnStep ==
    TablesTypeOK /\ Safe /\ TasksKeep /\ [InterviewsNext]_vars
      => [ForeignColumnIsOld]_vars
<1> SUFFICES ASSUME TablesTypeOK, Safe, TasksKeep, InterviewsNext,
                    NEW h \in InterviewRequest, NEW i \in Interview,
                    TaskSaves(h, i), interview[i].stored,
                    NEW f \in DOMAIN interview[i] \ OwnColumns(task[h].op),
                    interview'[i][f] # interview[i][f]
             PROVE  /\ interview'[i][f] = task[h].seen[f]
                    /\ interview[i] # task[h].seen
  BY DEF ForeignColumnIsOld
<1>1. interview' # interview
  OBVIOUS
<1>2. PICK g \in InterviewRequest : SaveTask(g)
  BY <1>1, TaskStepKinds, EditTask, CreateTask, UpsertTask, ReadLinksTask,
     LookUpTask DEF Fetch, Edit, Create, UpsertMatrix, ReadLinks, LookUpItem,
                    AbandonTask, SetUserStatus, interviewVars
<1>3. g = h
  <2>1. task' = [task EXCEPT ![g] = task'[g]]
    BY <1>2, FinishedTask DEF SaveTask
  <2> QED  BY <2>1 DEF TaskSaves, TablesTypeOK
<1>4. interview'[i] = task[h].new /\ task[h].op # "UpsertMatrix"
  BY <1>2, <1>3, SavedTables DEF TaskSaves
<1>5. task[h].op \in EditOps
  BY <1>4 DEF Safe, TasksSound, TaskSound, TaskSaves
<1>6. DOMAIN interview[i] = Columns
  BY DEF TablesTypeOK, InterviewRow, Columns
<1>7. task[h].new[f] = task[h].seen[f]
  BY <1>5, <1>6 DEF TasksKeep, TaskKeeps, Kept
<1> QED  BY <1>4, <1>7

(* Whatever overlaps, a request changes a column it is not about only by   *)
(* writing back what it has read, over what another request has saved.     *)
THEOREM ForeignColumnsAlwaysOld == InterviewsSpec => ForeignColumnsAreOld
<1>1. InterviewsInit => TasksKeep
  BY DEF InterviewsInit, NoTask, TasksKeep, TaskKeeps, EditOps
<1>2. Types /\ Sound /\ TablesTypeOK /\ Safe /\ TasksKeep
      /\ [InterviewsNext]_vars
        => TasksKeep'
  BY KeepsStep DEF Types
<1> QED
  BY <1>1, <1>2, AlwaysSafe, ForeignColumnStep, PTL
  DEF InterviewsSpec, ForeignColumnsAreOld, ForeignColumnIsOld

=============================================================================
