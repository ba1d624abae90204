------------------------- MODULE Sequential_proofs -------------------------
(***************************************************************************)
(* Theorems about requests that are served one at a time (~Overlap): what  *)
(* the services promise when nobody else is at work, for any sets of rows, *)
(* requests and inputs.                                                    *)
(*                                                                         *)
(* What makes them inductive: whatever a request at work has read is still *)
(* there when it saves (TaskFresh, JobFresh), as no other request is at    *)
(* work.                                                                   *)
(***************************************************************************)
EXTENDS Interviews_proofs

OneTask == \A g, h \in InterviewRequest : Working(g) /\ Working(h) => g = h

Bookable(new) ==
    \E c \in Candidate, v \in Vacancy, u \in User, comment \in Comment :
        new = Planned(c, v, u, comment)

Open(new) == /\ ~row[new.candidate].archived
             /\ row[new.vacancy].active
             /\ new.interviewer \in onDuty

(* What request h holds follows from the tables as they are.               *)
TaskFresh(h) ==
    LET i == task[h].id
        op == task[h].op
    IN  Working(h) =>
          /\ op \in EditOps => Fits(op, interview[i], task[h].new)
          /\ op = "Create" =>
                /\ Bookable(task[h].new) /\ Open(task[h].new)
                /\ task[h].step = "items" =>
                      \E ks \in SUBSET Competency : task[h].marks = ZeroMarks(ks)
          /\ op = "UpsertMatrix" => interview[i].status = "Planned"

Fresh == OneTask /\ \A h \in InterviewRequest : TaskFresh(h)

-----------------------------------------------------------------------------
(* A request that is taken up finds nobody at work.                        *)
LEMMA NobodyElse ==
    ASSUME ~Overlap, NEW h \in InterviewRequest, TakeUpTask(h)
    PROVE  \A g \in InterviewRequest : ~Working(g)
BY DEF TakeUpTask

(* A step of request h keeps the invariant if it does for h itself, and no *)
(* other request is at work after it.                                      *)
LEMMA OnlyTask ==
    ASSUME TablesTypeOK, NEW h \in InterviewRequest,
           task' = [task EXCEPT ![h] = task'[h]],
           \A g \in InterviewRequest : Working(g) => g = h,
           TaskFresh(h)'
    PROVE  Fresh'
<1>1. \A g \in InterviewRequest : g # h => task'[g] = task[g]
  BY DEF TablesTypeOK
<1>2. \A g \in InterviewRequest : g # h => ~Working(g)'
  BY <1>1 DEF Working
<1> QED
  BY <1>2 DEF Fresh, OneTask, TaskFresh

LEMMA EditFresh ==
    ASSUME ~Overlap, TablesTypeOK, NEW h \in InterviewRequest,
           NEW i \in Interview,
           \/ Update(h, i) \/ UpdateStatus(h, i) \/ Decide(h, i)
           \/ DeleteInterview(h, i) \/ RestoreInterview(h, i)
           \/ ArchiveInterview(h, i) \/ UnarchiveInterview(h, i)
    PROVE  Fresh'
<1>1. PICK op \in EditOps : \E new :
         Fetch(h, op, i, new) /\ Fits(op, interview[i], new)
  BY EditsFit
<1>2. PICK new : Fetch(h, op, i, new) /\ Fits(op, interview[i], new)
  BY <1>1
<1>3. /\ task'[h].op = op /\ task'[h].id = i /\ task'[h].new = new
      /\ interview' = interview
  BY <1>2 DEF Fetch, TablesTypeOK, NoTask
<1>4. op # "Create" /\ op # "UpsertMatrix"
  BY DEF EditOps
<1>5. TaskFresh(h)'
  <2>1. Fits(op, interview[i], new)' = Fits(op, interview'[i], new)
    OBVIOUS
  <2> QED  BY <1>2, <1>3, <1>4 DEF TaskFresh
<1>6. task' = [task EXCEPT ![h] = task'[h]]
  BY EditsAreEdits, EditTask
<1> QED
  BY <1>2, <1>5, <1>6, NobodyElse, OnlyTask DEF Fetch

LEMMA CreateFresh ==
    ASSUME ~Overlap, TablesTypeOK, NEW h \in InterviewRequest,
           NEW i \in Interview, Create(h, i), UNCHANGED catalogVars
    PROVE  Fresh'
<1>1. PICK c \in Candidate, v \in Vacancy, u \in User, comment \in Comment :
         /\ TakeUpTask(h)
         /\ ~row[c].archived /\ row[v].active /\ u \in onDuty
         /\ task' = [task EXCEPT ![h] = [NoTask("links") EXCEPT
                       !.op = "Create", !.id = i,
                       !.new = Planned(c, v, u, comment)]]
         /\ onDuty' = onDuty
  BY DEF Create
<1>2. /\ task'[h].op = "Create" /\ task'[h].step = "links"
      /\ task'[h].new = Planned(c, v, u, comment)
  BY <1>1 DEF TablesTypeOK, NoTask
<1>3. Bookable(task[h].new)'
  BY <1>2 DEF Bookable
<1>4. Open(task[h].new)'
  <2>1. /\ Planned(c, v, u, comment).candidate = c
        /\ Planned(c, v, u, comment).vacancy = v
        /\ Planned(c, v, u, comment).interviewer = u
    BY DEF Planned
  <2> QED  BY <1>1, <1>2, <2>1 DEF Open, catalogVars
<1>5. TaskFresh(h)'
  BY <1>2, <1>3, <1>4 DEF TaskFresh, EditOps, Bookable
<1> QED
  BY <1>1, <1>5, CreateTask, NobodyElse, OnlyTask

LEMMA UpsertFresh ==
    ASSUME ~Overlap, TablesTypeOK, NEW h \in InterviewRequest,
           NEW i \in Interview, UpsertMatrix(h, i)
    PROVE  Fresh'
<1>1. /\ TakeUpTask(h) /\ interview[i].status = "Planned"
      /\ interview' = interview
  BY DEF UpsertMatrix
<1>2. TaskFresh(h)'
  BY <1>1, UpsertTask DEF TaskFresh, EditOps
<1> QED
  BY <1>1, <1>2, UpsertTask, NobodyElse, OnlyTask

LEMMA WorkFresh ==
    ASSUME TablesTypeOK, CatalogTypeOK, Safe, Fresh, NEW h \in InterviewRequest,
           ReadLinks(h) \/ LookUpItem(h), UNCHANGED catalogVars
    PROVE  Fresh'
<1>1. /\ Working(h) /\ TaskFresh(h) /\ TaskSound(h)
      /\ \A g \in InterviewRequest : Working(g) => g = h
  BY ReadLinksTask, LookUpTask
  DEF Working, Fresh, OneTask, Safe, TasksSound
<1>2. /\ task' = [task EXCEPT ![h] = task'[h]]
      /\ task'[h].op = task[h].op /\ task'[h].id = task[h].id
      /\ task'[h].new = task[h].new
      /\ interview' = interview /\ onDuty' = onDuty /\ row' = row
  BY ReadLinksTask, LookUpTask DEF catalogVars
<1>3. task[h].op = "Create" =>
         \E ks \in SUBSET Competency : task'[h].marks = ZeroMarks(ks)
  BY <1>1, ReadLinksTask, LookUpTask DEF TaskFresh
<1>4. TaskFresh(h)'
  BY <1>1, <1>2, <1>3 DEF TaskFresh, Open
<1> QED
  BY <1>1, <1>2, <1>4, OnlyTask

LEMMA EndFresh ==
    ASSUME TablesTypeOK, Fresh, NEW h \in InterviewRequest,
           SaveTask(h) \/ AbandonTask(h)
    PROVE  Fresh'
<1>1. FinishTask(h) /\ Working(h)
  BY DEF SaveTask, AbandonTask, Working
<1>2. task' = [task EXCEPT ![h] = task'[h]] /\ task'[h].step = "done"
  BY <1>1, FinishedTask
<1>3. TaskFresh(h)'
  BY <1>2 DEF TaskFresh, Working
<1> QED
  BY <1>1, <1>2, <1>3, OnlyTask DEF Fresh, OneTask

LEMMA FreshStep ==
    ~Overlap /\ Types /\ TablesTypeOK /\ Safe /\ Fresh /\ [InterviewsNext]_vars
      => Fresh'
<1> SUFFICES ASSUME ~Overlap, CatalogTypeOK, TablesTypeOK, Safe, Fresh,
                    [InterviewsNext]_vars
             PROVE  Fresh'
  BY DEF Types
<1>1. CASE UNCHANGED vars
  BY <1>1 DEF vars, catalogVars, interviewVars, Fresh, OneTask, TaskFresh,
              Working, Open
<1>2. CASE /\ \A h \in InterviewRequest : ~Working(h)
           /\ UNCHANGED task
  BY <1>2 DEF Fresh, OneTask, TaskFresh, Working
<1>3. ASSUME NEW h \in InterviewRequest, InterviewService(h),
             UNCHANGED catalogVars
      PROVE  Fresh'
  BY <1>3, EditFresh, CreateFresh, UpsertFresh, WorkFresh, EndFresh
  DEF InterviewService
<1> QED
  BY <1>1, <1>2, <1>3 DEF InterviewsNext, SetUserStatus, interviewVars

LEMMA FreshInit == InterviewsInit => Fresh
BY DEF InterviewsInit, NoTask, Fresh, OneTask, TaskFresh, Working

Settled == Types /\ Sound /\ TablesTypeOK /\ Safe /\ Fresh

LEMMA AlwaysFresh == ASSUME ~Overlap PROVE InterviewsSpec => []Settled
<1>1. InterviewsInit => Fresh
  BY FreshInit
<1>2. Types /\ Sound /\ TablesTypeOK /\ Safe /\ Fresh /\ [InterviewsNext]_vars
        => Fresh'
  BY FreshStep
<1> QED
  BY <1>1, <1>2, AlwaysSafe, PTL DEF InterviewsSpec, Settled

-----------------------------------------------------------------------------
(* The rows that earlier requests have left.                               *)
LEMMA FirstRows ==
    ASSUME InterviewsInit, NEW i \in Interview
    PROVE  /\ interview[i].status = "Planned"
           /\ interview[i].archived = FALSE /\ interview[i].deleted = FALSE
<1>1. /\ NoInterviewRow.status = "Planned"
      /\ NoInterviewRow.archived = FALSE /\ NoInterviewRow.deleted = FALSE
  BY DEF NoInterviewRow, Planned
<1>2. CASE interview[i] = NoInterviewRow
  BY <1>1, <1>2
<1>3. CASE interview[i] # NoInterviewRow
  <2>1. PICK c \in Candidate, v \in Vacancy, u \in User :
           interview[i] = Planned(c, v, u, Keep)
    BY <1>3 DEF InterviewsInit
  <2> QED  BY <2>1 DEF Planned
<1> QED  BY <1>2, <1>3

(* Only a save writes the tables of the interviews.                        *)
LEMMA OnlySavesWrite ==
    ASSUME TablesTypeOK, InterviewsNext
    PROVE  \/ UNCHANGED <<interview, matrix, trail>>
           \/ \E h \in InterviewRequest : SaveTask(h)
<1> DEFINE Unwritten == UNCHANGED <<interview, matrix, trail>>
<1>1. ASSUME NEW h \in InterviewRequest, NEW i \in Interview,
             Edit(h, i) \/ Create(h, i) \/ UpsertMatrix(h, i)
      PROVE  Unwritten
  BY <1>1 DEF Edit, Fetch, Create, UpsertMatrix
<1>2. ASSUME NEW h \in InterviewRequest,
             ReadLinks(h) \/ LookUpItem(h) \/ AbandonTask(h)
      PROVE  Unwritten
  BY <1>2 DEF ReadLinks, LookUpItem, AbandonTask
<1>3. ASSUME NEW u \in User, NEW isActive \in BOOLEAN, SetUserStatus(u, isActive)
      PROVE  Unwritten
  BY <1>3 DEF SetUserStatus
<1>4. UNCHANGED interviewVars => Unwritten
  BY DEF interviewVars
<1> QED
  BY <1>1, <1>2, <1>3, <1>4, TaskStepKinds

(* What a save finds.                                                      *)
LEMMA SaveFinds ==
    ASSUME Settled, NEW h \in InterviewRequest, SaveTask(h)
    PROVE  /\ task[h].id \in Interview
           /\ task[h].step = "items" /\ task[h].todo = {}
           /\ Working(h) /\ TaskFresh(h) /\ TaskSound(h)
BY DEF Settled, Safe, Fresh, SaveTask, Working, TasksSound, IdleHasNoId

(* The trail of one interview agrees with its row.                         *)
Tells(view, r) == /\ view.status = r.status
                  /\ view.archived = r.archived
                  /\ view.deleted = r.deleted

LEMMA EntryTells ==
    ASSUME NEW op \in EditOps, NEW view \in TrailView, NEW old \in InterviewRow,
           NEW new \in InterviewRow, Fits(op, old, new), Tells(view, old)
    PROVE  Tells(Told(view, op, new), new)
<1>1. CASE op = "Update"
  <2>1. PICK c, v, u, comment : new = Rebooked(old, c, v, u, comment)
    BY <1>1 DEF Fits
  <2>2. /\ new.status = old.status /\ new.archived = old.archived
        /\ new.deleted = old.deleted
    BY <2>1 DEF Rebooked, InterviewRow
  <2> QED  BY <1>1, <2>2 DEF Tells, Told
<1>2. CASE op = "SetStatus"
  <2>1. PICK status, decision, comment :
           new = StatusSet(old, status, decision, comment)
    BY <1>2 DEF Fits
  <2>2. new.archived = old.archived /\ new.deleted = old.deleted
    BY <2>1 DEF StatusSet, InterviewRow
  <2> QED  BY <1>2, <2>2 DEF Tells, Told, TrailView
<1>3. CASE op = "Decide"
  <2>1. PICK decision, comment : new = Decided(old, decision, comment)
    BY <1>3 DEF Fits
  <2>2. new.archived = old.archived /\ new.deleted = old.deleted
    BY <2>1 DEF Decided, InterviewRow
  <2> QED  BY <1>3, <2>2 DEF Tells, Told, TrailView
<1>4. CASE op \in {"SoftDelete", "Restore"}
  <2>1. new.status = old.status /\ new.archived = old.archived
    BY <1>4 DEF Fits, SoftDeleted, Undeleted, InterviewRow
  <2> QED  BY <1>4, <2>1 DEF Tells, Told, TrailView
<1>5. CASE op \in {"Archive", "Unarchive"}
  <2>1. new.status = old.status /\ new.deleted = old.deleted
    BY <1>5 DEF Fits, Archived, InterviewRow
  <2> QED  BY <1>5, <2>1 DEF Tells, Told, TrailView
<1> QED
  BY <1>1, <1>2, <1>3, <1>4, <1>5 DEF EditOps, TaskOps

LEMMA TrailStep ==
    Settled /\ TrailTellsRow /\ [InterviewsNext]_vars => TrailTellsRow'
<1> SUFFICES ASSUME Settled, TrailTellsRow, [InterviewsNext]_vars
             PROVE  TrailTellsRow'
  OBVIOUS
<1>1. CASE UNCHANGED <<interview, matrix, trail>>
  BY <1>1 DEF TrailTellsRow
<1>2. ASSUME NEW h \in InterviewRequest, SaveTask(h)
      PROVE  TrailTellsRow'
  <2> DEFINE n == task[h].id
             op == task[h].op
             new == task[h].new
  <2>1. n \in Interview /\ Working(h) /\ TaskFresh(h) /\ TaskSound(h)
    BY <1>2, SaveFinds
  <2>2. SUFFICES ASSUME NEW i \in Interview, interview'[i].stored
                 PROVE  Tells(trail'[i], interview'[i])
    BY DEF TrailTellsRow, Tells
  <2>3. CASE i # n
    BY <1>2, <2>2, <2>3, SavedTables DEF Settled, TrailTellsRow, Tells
  <2>4. CASE i = n
    <3>1. /\ interview'[i] = IF op = "UpsertMatrix" THEN interview[i] ELSE new
          /\ trail'[i] = Told(trail[i], op, new)
      BY <1>2, <2>4, SavedTables DEF Settled
    <3>2. CASE op \in EditOps
      <4>1. Fits(op, interview[i], new) /\ interview[i].stored
        BY <2>1, <2>4, <3>2 DEF TaskFresh, TaskSound, EditOps
      <4>2. Tells(trail[i], interview[i])
        BY <4>1 DEF TrailTellsRow, Tells
      <4>3. /\ trail[i] \in TrailView /\ interview[i] \in InterviewRow
            /\ new \in InterviewRow
        BY DEF Settled, TablesTypeOK, Task
      <4>4. Tells(Told(trail[i], op, new), new)
        BY <3>2, <4>1, <4>2, <4>3, EntryTells
      <4>5. op # "UpsertMatrix"
        BY <3>2 DEF EditOps
      <4> QED  BY <3>1, <4>4, <4>5
    <3>3. CASE op = "Create"
      <4>0. Bookable(new)
        BY <2>1, <3>3 DEF TaskFresh
      <4>1. PICK c \in Candidate, v \in Vacancy, u \in User, comment \in Comment :
               new = Planned(c, v, u, comment)
        BY <4>0 DEF Bookable
      <4>2. /\ new.status = "Planned" /\ new.archived = FALSE
            /\ new.deleted = FALSE
        BY <4>1 DEF Planned
      <4>3. trail'[i] = [NoTrail EXCEPT !.created = TRUE]
        BY <3>1, <3>3 DEF Told
      <4>4. interview'[i] = new
        BY <3>1, <3>3
      <4> HIDE DEF new
      <4> QED  BY <4>2, <4>3, <4>4 DEF Tells, NoTrail
    <3>4. CASE op = "UpsertMatrix"
      BY <2>2, <3>1, <3>4 DEF Told, TrailTellsRow, Tells
    <3> QED
      BY <2>1, <3>2, <3>3, <3>4 DEF TaskSound
  <2> QED  BY <2>3, <2>4
<1> QED
  BY <1>1, <1>2, OnlySavesWrite DEF Settled, vars, interviewVars

(* The audit log, read back, gives the status and the marks of every       *)
(* interview: no operation leaves out a column it changes.                 *)
THEOREM TrailAlwaysTellsRow ==
    ASSUME ~Overlap PROVE InterviewsSpec => []TrailTellsRow
<1>1. InterviewsInit => TrailTellsRow
  <2> SUFFICES ASSUME InterviewsInit, NEW i \in Interview, interview[i].stored
               PROVE  Tells(trail[i], interview[i])
    BY DEF TrailTellsRow, Tells
  <2>1. /\ interview[i].status = "Planned"
        /\ interview[i].archived = FALSE /\ interview[i].deleted = FALSE
    BY FirstRows
  <2> QED  BY <2>1 DEF InterviewsInit, NoTrail, Planned, Tells
<1>2. Settled /\ TrailTellsRow /\ [InterviewsNext]_vars => TrailTellsRow'
  BY TrailStep
<1> QED
  BY <1>1, <1>2, AlwaysFresh, PTL DEF InterviewsSpec

-----------------------------------------------------------------------------
(* An interview comes into being with what its creation has checked.       *)
BookedOpen ==
    \A i \in Interview : ~interview[i].stored /\ interview'[i].stored =>
        /\ ~row[interview'[i].candidate].archived
        /\ row[interview'[i].vacancy].active
        /\ interview'[i].interviewer \in onDuty

LEMMA BookedStep == Settled /\ [InterviewsNext]_vars => [BookedOpen]_vars
<1> SUFFICES ASSUME Settled, InterviewsNext, NEW i \in Interview,
                    ~interview[i].stored, interview'[i].stored
             PROVE  Open(interview'[i])
  BY DEF BookedOpen, Open
<1>1. PICK h \in InterviewRequest : SaveTask(h)
  BY OnlySavesWrite DEF Settled
<1>2. task[h].id = i /\ interview'[i] = task[h].new
  BY <1>1, SavedTables DEF Settled
<1>3. task[h].op = "Create"
  BY <1>1, <1>2, SaveFinds DEF TaskSound
<1> QED
  BY <1>1, <1>2, <1>3, SaveFinds DEF TaskFresh

(* A candidate cannot be archived, nor a vacancy or an interviewer         *)
(* deactivated, between the check of a creation and its save.              *)
THEOREM AlwaysBookedWhileOpen ==
    ASSUME ~Overlap PROVE InterviewsSpec => BookedWhileOpen
<1>1. Settled /\ [InterviewsNext]_vars => [BookedOpen]_vars
  BY BookedStep
<1> QED
  BY <1>1, AlwaysFresh, PTL DEF InterviewsSpec, BookedWhileOpen, BookedOpen

-----------------------------------------------------------------------------
(* The service implements the book.                                        *)

(* The rows of the book are the rows of the service.                       *)
LEMMA SameRows ==
    /\ \A c, v, u, comment :
          Book!Planned(c, v, u, comment) = Planned(c, v, u, comment)
    /\ \A r, c, v, u, comment :
          Book!Rebooked(r, c, v, u, comment) = Rebooked(r, c, v, u, comment)
    /\ \A r, status, decision, comment :
          Book!StatusSet(r, status, decision, comment)
            = StatusSet(r, status, decision, comment)
    /\ \A r, decision, comment :
          Book!Decided(r, decision, comment) = Decided(r, decision, comment)
    /\ \A r : /\ Book!SoftDeleted(r) = SoftDeleted(r)
              /\ Book!Undeleted(r) = Undeleted(r)
    /\ \A r, isArchived : Book!Archived(r, isArchived) = Archived(r, isArchived)
    /\ Book!Status = Status /\ Book!Decision = Decision /\ Book!Keep = Keep
BY DEF Book!Planned, Planned, Book!Rebooked, Rebooked, Book!StatusSet, StatusSet,
       Book!Decided, Decided, Book!SoftDeleted, SoftDeleted, Book!Undeleted,
       Undeleted, Book!Archived, Archived, Book!Status, Status, Book!Decision,
       Decision, Book!Keep, Keep, Book!Given, Given

(* The save of a request that edits an interview changes it in the book.   *)
LEMMA EditInBook ==
    ASSUME Settled, NEW h \in InterviewRequest, SaveTask(h),
           task[h].op \in EditOps
    PROVE  Book!Change(task[h].id)
<1> DEFINE n == task[h].id
           op == task[h].op
           new == task[h].new
<1>1. /\ n \in Interview /\ interview[n].stored
      /\ Fits(op, interview[n], new) /\ task[h].marks = NoMarks
  BY SaveFinds DEF TaskFresh, TaskSound, EditOps
<1>2. interview' = [interview EXCEPT ![n] = new]
  BY DEF SaveTask, EditOps
<1>3. matrix' = matrix
  <2>1. Marked(matrix[n], NoMarks) = matrix[n]
    <3>1. matrix[n] \in [Competency -> Score]
      BY <1>1 DEF Settled, TablesTypeOK
    <3> QED  BY <3>1 DEF Marked, NoMarks
  <2> QED
    BY <1>1, <2>1 DEF SaveTask, Settled, TablesTypeOK
<1> HIDE DEF n, op, new
<1>4. CASE op = "Update"
  <2>1. PICK c \in Candidate, v \in Vacancy, u \in User, comment \in Comment :
           new = Rebooked(interview[n], c, v, u, comment)
    BY <1>1, <1>4 DEF Fits
  <2> QED  BY <1>1, <1>2, <1>3, <2>1, SameRows DEF Book!Change, n
<1>5. CASE op = "SetStatus"
  <2>1. PICK status \in Status, decision \in Decision \cup {Keep},
             comment \in Comment :
           new = StatusSet(interview[n], status, decision, comment)
    BY <1>1, <1>5 DEF Fits
  <2> QED  BY <1>1, <1>2, <1>3, <2>1, SameRows DEF Book!Change, n
<1>6. CASE op = "Decide"
  <2>1. PICK decision \in Decision, comment \in Comment :
           new = Decided(interview[n], decision, comment)
    BY <1>1, <1>6 DEF Fits
  <2> QED  BY <1>1, <1>2, <1>3, <2>1, SameRows DEF Book!Change, n
<1>7. CASE op = "SoftDelete"
  BY <1>1, <1>2, <1>3, <1>7, SameRows DEF Fits, Book!Change, n
<1>8. CASE op = "Restore"
  BY <1>1, <1>2, <1>3, <1>8, SameRows DEF Fits, Book!Change, n
<1>9. CASE op \in {"Archive", "Unarchive"}
  <2>1. interview[n].archived \in BOOLEAN
    BY <1>1 DEF Settled, TablesTypeOK, InterviewRow
  <2>2. new = Archived(interview[n], ~interview[n].archived)
    BY <1>1, <1>9, <2>1 DEF Fits
  <2> QED  BY <1>1, <1>2, <1>3, <2>2, SameRows DEF Book!Change, n
<1> QED
  BY <1>4, <1>5, <1>6, <1>7, <1>8, <1>9 DEF op, EditOps, TaskOps

(* The save of a creation plans the interview, with a matrix of zeros.     *)
LEMMA CreateInBook ==
    ASSUME Settled, NEW h \in InterviewRequest, SaveTask(h),
           task[h].op = "Create"
    PROVE  Book!Plan(task[h].id)
<1> DEFINE n == task[h].id
<1>1. n \in Interview /\ ~interview[n].stored /\ Bookable(task[h].new)
  BY SaveFinds DEF TaskFresh, TaskSound
<1>2. PICK ks \in SUBSET Competency : task[h].marks = ZeroMarks(ks)
  BY SaveFinds DEF TaskFresh
<1>3. PICK c \in Candidate, v \in Vacancy, u \in User, comment \in Comment :
         task[h].new = Planned(c, v, u, comment)
  BY <1>1 DEF Bookable
<1>4. interview' = [interview EXCEPT ![n] = Planned(c, v, u, comment)]
  BY <1>3 DEF SaveTask
<1>5. matrix' = [matrix EXCEPT ![n] =
                    [k \in Competency |-> IF k \in ks THEN 0 ELSE NoScore]]
  <2>1. matrix[n] = NoMarks
    BY <1>1 DEF Settled, Safe, NothingHalfCreated
  <2>2. Marked(NoMarks, ZeroMarks(ks))
          = [k \in Competency |-> IF k \in ks THEN 0 ELSE NoScore]
    BY Inputs DEF Marked, NoMarks, ZeroMarks
  <2>3. matrix' = [matrix EXCEPT ![n] = Marked(matrix[n], task[h].marks)]
    BY DEF SaveTask
  <2> QED  BY <1>2, <2>1, <2>2, <2>3
<1> QED
  BY <1>1, <1>4, <1>5, SameRows DEF Book!Plan

(* The save of a request that scores marks the planned interview.          *)
LEMMA UpsertInBook ==
    ASSUME Settled, NEW h \in InterviewRequest, SaveTask(h),
           task[h].op = "UpsertMatrix"
    PROVE  Book!Mark(task[h].id)
<1> DEFINE n == task[h].id
           given == task[h].marks
           ks == {k \in Competency : given[k] # NoScore}
           mark == [k \in ks |-> given[k]]
<1>1. n \in Interview /\ interview[n].stored /\ interview[n].status = "Planned"
  BY SaveFinds DEF TaskFresh, TaskSound
<1>2. \A k \in Competency : InRange(given[k])
  BY SaveFinds DEF TaskSound
<1>3. ks \in SUBSET Competency /\ mark \in [ks -> 0 .. 5]
  BY <1>2 DEF InRange
<1>4. matrix' = [matrix EXCEPT ![n] =
                    [k \in Competency |-> IF k \in ks THEN mark[k]
                                                      ELSE matrix[n][k]]]
  <2>1. Marked(matrix[n], given)
          = [k \in Competency |-> IF k \in ks THEN mark[k] ELSE matrix[n][k]]
    BY DEF Marked
  <2>2. matrix' = [matrix EXCEPT ![n] = Marked(matrix[n], given)]
    BY DEF SaveTask
  <2> QED  BY <2>1, <2>2
<1>5. interview' = interview
  BY DEF SaveTask
<1> HIDE DEF ks, mark
<1>6. \E xs \in SUBSET Competency : \E m \in [xs -> 0 .. Book!MaxMark] :
         matrix' = [matrix EXCEPT ![n] =
                       [k \in Competency |-> IF k \in xs THEN m[k]
                                                         ELSE matrix[n][k]]]
  BY <1>3, <1>4 DEF Book!MaxMark
<1> QED
  BY <1>1, <1>5, <1>6 DEF Book!Mark

LEMMA BookStep ==
    Settled /\ [InterviewsNext]_vars => [Book!BookNext]_(Book!bookVars)
<1> SUFFICES ASSUME Settled, [InterviewsNext]_vars
             PROVE  Book!BookNext \/ UNCHANGED <<interview, matrix>>
  BY DEF Book!bookVars
<1>1. ASSUME NEW h \in InterviewRequest, SaveTask(h)
      PROVE  Book!BookNext
  <2>1. task[h].id \in Interview
        /\ task[h].op \in EditOps \cup {"Create", "UpsertMatrix"}
    BY <1>1, SaveFinds DEF TaskSound
  <2> QED
    BY <1>1, <2>1, EditInBook, CreateInBook, UpsertInBook DEF Book!BookNext
<1> QED
  BY <1>1, OnlySavesWrite DEF Settled, vars, interviewVars

(* Every request is one step of the book, on the row as it is.             *)
THEOREM ServiceImplementsBook ==
    ASSUME ~Overlap PROVE InterviewsSpec => ImplementsBook
<1>1. InterviewsInit => Book!Init
  <2> SUFFICES ASSUME InterviewsInit, NEW i \in Interview
               PROVE  /\ interview[i].status = "Planned"
                      /\ ~interview[i].deleted
                      /\ \A k \in Competency : matrix[i][k] \in {0, NoScore}
    BY DEF Book!Init
  <2>1. PICK ks : matrix[i] = ZeroMarks(ks)
    BY DEF InterviewsInit
  <2> QED  BY <2>1, FirstRows DEF ZeroMarks
<1>2. Settled /\ [InterviewsNext]_vars => [Book!BookNext]_(Book!bookVars)
  BY BookStep
<1> QED
  BY <1>1, <1>2, AlwaysFresh, PTL
  DEF InterviewsSpec, ImplementsBook, Book!BookSpec

-----------------------------------------------------------------------------
(* The catalog, one request at a time.                                     *)

USE DEF Entity

OneJob == \A p, q \in CatalogRequest : Running(p) /\ Running(q) => p = q

(* The mark that an operation does not record is the one of the row.       *)
MarksFit(op, old, new) ==
    /\ op = "SoftDelete" => new.archived = old.archived
    /\ op \in {"Archive", "Unarchive"} => new.deleted = old.deleted

(* What request q holds follows from the tables as they are: the row, and  *)
(* the difference between the links and the competencies submitted.        *)
JobFresh(q) ==
    LET e == job[q].id IN
    Running(q) =>
      /\ MarksFit(job[q].op, row[e], job[q].new)
      /\ CreatesVacancy(q) => row[e] = job[q].new
      /\ job[q].step = "log" => CreatesVacancy(q)
      /\ job[q].step = "diff" => job[q].op = "Update" /\ job[q].add = {}
      /\ job[q].op = "Update" /\ e \in Vacancy /\ job[q].step = "check" =>
            /\ job[q].drop = links[e] \ job[q].want
            /\ job[q].todo \cup job[q].add = job[q].want \ links[e]

LoggedIsStored == \A e \in Entity : logged[e].created => row[e].stored

CatalogFresh ==
    /\ OneJob
    /\ \A q \in CatalogRequest : JobFresh(q)
    /\ LoggedIsStored
    /\ LogTellsMarks

(* A row is read by an operation on the marks, or by an update of a        *)
(* candidate or a competency.                                              *)
FreshRead(q, e) ==
    \E op \in Ops \ {"Create"}, new \in Row :
        /\ Read(q, op, e, new)
        /\ MarksFit(op, row[e], new)
        /\ op = "Update" => e \notin Vacancy

LEMMA MarksRead ==
    ASSUME CatalogTypeOK, NEW q \in CatalogRequest, NEW e \in Entity,
           MarkOrUnmark(q, e)
    PROVE  FreshRead(q, e)
<1>1. row[e] \in Row
  BY DEF CatalogTypeOK
<1>2. CASE Archive(q, e)
  <2> DEFINE new == [row[e] EXCEPT !.archived = TRUE, !.archivedAt = TRUE]
  <2>1. new \in Row /\ MarksFit("Archive", row[e], new)
    BY <1>1 DEF Row, MarksFit
  <2> QED  BY <1>2, <2>1 DEF Archive, FreshRead, Ops
<1>3. CASE Unarchive(q, e)
  <2> DEFINE new == [row[e] EXCEPT !.archived = FALSE, !.archivedAt = FALSE]
  <2>1. new \in Row /\ MarksFit("Unarchive", row[e], new)
    BY <1>1 DEF Row, MarksFit
  <2> QED  BY <1>3, <2>1 DEF Unarchive, FreshRead, Ops
<1>4. CASE Delete(q, e)
  <2> DEFINE new == [row[e] EXCEPT !.deleted = TRUE, !.deletedAt = TRUE]
  <2>1. new \in Row /\ MarksFit("SoftDelete", row[e], new)
    BY <1>1 DEF Row, MarksFit
  <2> QED  BY <1>4, <2>1 DEF Delete, FreshRead, Ops
<1>5. CASE Restore(q, e)
  <2>1. Restored(row[e]) \in Row /\ MarksFit("Restore", row[e], Restored(row[e]))
    BY <1>1 DEF Row, Restored, MarksFit
  <2> QED  BY <1>5, <2>1 DEF Restore, FreshRead, Ops
<1> QED
  BY <1>2, <1>3, <1>4, <1>5 DEF MarkOrUnmark

LEMMA ServiceKinds ==
    ASSUME CatalogTypeOK, NEW q \in CatalogRequest,
           CandidateService(q) \/ CompetencyService(q) \/ VacancyService(q)
    PROVE  \/ \E e \in Entity : FreshRead(q, e)
           \/ \E e \in Candidate \cup Competency, new \in Row : Add(q, e, new)
           \/ \E v \in Vacancy : CreateVacancy(q, v)
           \/ \E v \in Vacancy : UpdateVacancy(q, v)
           \/ DiffLinks(q) \/ CheckLink(q) \/ SaveNewLinks(q) \/ LogVacancy(q)
<1>1. ASSUME NEW c \in Candidate, UpdateCandidate(q, c)
      PROVE  FreshRead(q, c)
  <2>1. PICK isArchived \in BOOLEAN :
           Read(q, "Update", c, [row[c] EXCEPT !.archived = isArchived])
    BY <1>1 DEF UpdateCandidate
  <2> DEFINE new == [row[c] EXCEPT !.archived = isArchived]
  <2>2. new \in Row
    BY DEF CatalogTypeOK, Row
  <2> HIDE DEF new
  <2>3. MarksFit("Update", row[c], new) /\ c \notin Vacancy
    BY Disjoint DEF MarksFit
  <2>4. Read(q, "Update", c, new)
    BY <2>1 DEF new
  <2> QED
    BY <2>2, <2>3, <2>4 DEF FreshRead, Ops
<1>2. ASSUME NEW k \in Competency, UpdateCompetency(q, k)
      PROVE  FreshRead(q, k)
  <2>1. PICK isActive \in BOOLEAN, maxScore \in ScoreInput :
           Read(q, "Update", k, [row[k] EXCEPT !.active = isActive,
                                               !.maxScore = maxScore])
    BY <1>2 DEF UpdateCompetency
  <2>2. maxScore \in Nat /\ row[k] \in Row
    BY ScoresAreNumbers DEF CatalogTypeOK
  <2> DEFINE new == [row[k] EXCEPT !.active = isActive, !.maxScore = maxScore]
  <2>3. new \in Row
    BY <2>2 DEF Row
  <2> HIDE DEF new
  <2>4. MarksFit("Update", row[k], new) /\ k \notin Vacancy
    BY Disjoint DEF MarksFit
  <2>5. Read(q, "Update", k, new)
    BY <2>1 DEF new
  <2> QED
    BY <2>3, <2>4, <2>5 DEF FreshRead, Ops
<1>3. ASSUME NEW c \in Candidate, CreateCandidate(q, c)
      PROVE  \E new \in Row : Add(q, c, new)
  BY <1>3, RowTypes DEF CreateCandidate
<1>4. ASSUME NEW k \in Competency, CreateCompetency(q, k)
      PROVE  \E new \in Row : Add(q, k, new)
  BY <1>4, RowTypes, ScoresAreNumbers DEF CreateCompetency
<1>5. CASE CandidateService(q)
  BY <1>1, <1>3, <1>5, MarksRead DEF CandidateService
<1>6. CASE CompetencyService(q)
  BY <1>2, <1>4, <1>6, MarksRead DEF CompetencyService
<1>7. CASE VacancyService(q)
  BY <1>7, MarksRead DEF VacancyService
<1> QED
  BY <1>5, <1>6, <1>7

LEMMA NoOtherJob ==
    ASSUME ~Overlap, NEW q \in CatalogRequest, TakeUp(q)
    PROVE  \A p \in CatalogRequest : ~Running(p)
BY DEF TakeUp

LEMMA OnlyJob ==
    ASSUME CatalogTypeOK, NEW q \in CatalogRequest,
           job' = [job EXCEPT ![q] = job'[q]],
           \A p \in CatalogRequest : Running(p) => p = q,
           JobFresh(q)'
    PROVE  OneJob' /\ \A p \in CatalogRequest : JobFresh(p)'
<1>1. \A p \in CatalogRequest : p # q => job'[p] = job[p]
  BY DEF CatalogTypeOK
<1>2. \A p \in CatalogRequest : p # q => ~Running(p)'
  BY <1>1 DEF Running
<1> QED
  BY <1>2 DEF OneJob, JobFresh

LEMMA JobEnds ==
    ASSUME CatalogTypeOK, CatalogFresh, NEW q \in CatalogRequest, Finish(q),
           Running(q)
    PROVE  OneJob' /\ \A p \in CatalogRequest : JobFresh(p)'
<1>1. job' = [job EXCEPT ![q] = job'[q]] /\ job'[q].step = "done"
  BY DEF Finish, CatalogTypeOK, NoJob
<1>2. JobFresh(q)'
  BY <1>1 DEF JobFresh, Running
<1> QED
  BY <1>1, <1>2, OnlyJob DEF CatalogFresh, OneJob

LEMMA ReadFresh ==
    ASSUME ~Overlap, CatalogTypeOK, CatalogFresh, NEW q \in CatalogRequest,
           NEW e \in Entity, FreshRead(q, e)
    PROVE  CatalogFresh'
<1>1. PICK op \in Ops \ {"Create"}, new \in Row :
         /\ Read(q, op, e, new)
         /\ MarksFit(op, row[e], new)
         /\ op = "Update" => e \notin Vacancy
  BY DEF FreshRead
<1>2. /\ job' = [job EXCEPT ![q] = job'[q]]
      /\ job'[q].step = "check" /\ job'[q].op = op /\ job'[q].id = e
      /\ job'[q].new = new
  BY <1>1, ReadJob
<1>3. TakeUp(q) /\ UNCHANGED <<row, links, logged>>
  BY <1>1 DEF Read
<1>4. JobFresh(q)'
  BY <1>1, <1>2, <1>3 DEF JobFresh, CreatesVacancy
<1>5. OneJob' /\ \A p \in CatalogRequest : JobFresh(p)'
  BY <1>2, <1>3, <1>4, NoOtherJob, OnlyJob
<1> QED
  BY <1>3, <1>5 DEF CatalogFresh, LoggedIsStored, LogTellsMarks

LEMMA AddFresh ==
    ASSUME ~Overlap, CatalogTypeOK, CatalogFresh, NEW q \in CatalogRequest,
           NEW e \in Candidate \cup Competency, NEW new \in Row, Add(q, e, new)
    PROVE  CatalogFresh'
<1>1. /\ job' = [job EXCEPT ![q] = job'[q]]
      /\ job'[q].step = "check" /\ job'[q].op = "Create" /\ job'[q].id = e
  BY AddJob
<1>2. TakeUp(q) /\ UNCHANGED <<row, links, logged>>
  BY DEF Add
<1>3. JobFresh(q)'
  BY <1>1, Disjoint DEF JobFresh, CreatesVacancy, MarksFit
<1>4. OneJob' /\ \A p \in CatalogRequest : JobFresh(p)'
  BY <1>1, <1>2, <1>3, NoOtherJob, OnlyJob
<1> QED
  BY <1>2, <1>4 DEF CatalogFresh, LoggedIsStored, LogTellsMarks

LEMMA CreateVacancyFresh ==
    ASSUME ~Overlap, CatalogTypeOK, CatalogFresh, NEW q \in CatalogRequest,
           NEW v \in Vacancy, CreateVacancy(q, v)
    PROVE  CatalogFresh'
<1>1. /\ job' = [job EXCEPT ![q] = job'[q]]
      /\ job'[q].step # "diff" /\ job'[q].op = "Create" /\ job'[q].id = v
      /\ row' = [row EXCEPT ![v] = job'[q].new]
      /\ \E isActive \in BOOLEAN : job'[q].new = NewRow(isActive, 0)
  BY CreateVacancyJob
<1>2. TakeUp(q) /\ ~row[v].stored /\ logged' = logged
  BY DEF CreateVacancy
<1>3. JobFresh(q)'
  BY <1>1 DEF JobFresh, CreatesVacancy, MarksFit, CatalogTypeOK
<1>4. OneJob' /\ \A p \in CatalogRequest : JobFresh(p)'
  BY <1>1, <1>2, <1>3, NoOtherJob, OnlyJob
<1>5. ~logged[v].created
  BY <1>2 DEF CatalogFresh, LoggedIsStored
<1>6. \A e \in Entity : e # v => row'[e] = row[e]
  BY <1>1 DEF CatalogTypeOK
<1>7. LoggedIsStored' /\ LogTellsMarks'
  BY <1>2, <1>5, <1>6 DEF CatalogFresh, LoggedIsStored, LogTellsMarks
<1> QED
  BY <1>4, <1>7 DEF CatalogFresh

LEMMA UpdateVacancyFresh ==
    ASSUME ~Overlap, CatalogTypeOK, CatalogFresh, NEW q \in CatalogRequest,
           NEW v \in Vacancy, UpdateVacancy(q, v)
    PROVE  CatalogFresh'
<1>1. /\ job' = [job EXCEPT ![q] = job'[q]]
      /\ job'[q].op = "Update" /\ job'[q].add = {}
  BY UpdateVacancyJob
<1>2. /\ TakeUp(q) /\ job'[q].step = "diff"
      /\ UNCHANGED <<row, links, logged>>
  BY DEF UpdateVacancy, CatalogTypeOK, NoJob
<1>3. JobFresh(q)'
  BY <1>1, <1>2 DEF JobFresh, CreatesVacancy, MarksFit
<1>4. OneJob' /\ \A p \in CatalogRequest : JobFresh(p)'
  BY <1>1, <1>2, <1>3, NoOtherJob, OnlyJob
<1> QED
  BY <1>2, <1>4 DEF CatalogFresh, LoggedIsStored, LogTellsMarks

LEMMA LinksFresh ==
    ASSUME Types, CatalogFresh, NEW q \in CatalogRequest,
           DiffLinks(q) \/ CheckLink(q) \/ SaveNewLinks(q)
    PROVE  CatalogFresh'
<1>1. /\ job[q] \in Job /\ CatalogTypeOK /\ DiffOfVacancy
      /\ Running(q) /\ JobFresh(q)
      /\ \A p \in CatalogRequest : Running(p) => p = q
      /\ UNCHANGED <<row, logged>>
  BY DEF DiffLinks, CheckLink, SaveNewLinks, Types, CatalogTypeOK, Running,
         CatalogFresh, OneJob
<1>2. job' = [job EXCEPT ![q] = job'[q]]
  BY <1>1, DiffLinksJob, CheckLinkJob, SaveNewLinksJob
<1>3. ASSUME DiffLinks(q) PROVE JobFresh(q)'
  <2>1. job'[q] = [job[q] EXCEPT !.step = "check",
                      !.drop = links[job[q].id] \ job[q].want,
                      !.todo = job[q].want \ links[job[q].id]]
    BY <1>1, <1>3 DEF DiffLinks, CatalogTypeOK
  <2>2. /\ job'[q].step = "check" /\ job'[q].op = job[q].op
        /\ job'[q].id = job[q].id /\ job'[q].new = job[q].new
        /\ job'[q].want = job[q].want /\ job'[q].add = job[q].add
        /\ job'[q].drop = links[job[q].id] \ job[q].want
        /\ job'[q].todo = job[q].want \ links[job[q].id]
    BY <1>1, <2>1 DEF Job
  <2>3. links' = links /\ job[q].op = "Update" /\ job[q].add = {}
    BY <1>1, <1>3 DEF DiffLinks, JobFresh
  <2> QED
    BY <1>1, <2>2, <2>3 DEF JobFresh, CreatesVacancy, MarksFit
<1>4. ASSUME CheckLink(q) PROVE JobFresh(q)'
  <2>1. PICK k \in job[q].todo :
           job' = [job EXCEPT ![q].todo = @ \ {k}, ![q].add = @ \cup {k}]
    BY <1>4 DEF CheckLink
  <2>2. job'[q] = [job[q] EXCEPT !.todo = @ \ {k}, !.add = @ \cup {k}]
    BY <1>1, <2>1 DEF CatalogTypeOK
  <2>3. /\ job'[q].step = job[q].step /\ job'[q].op = job[q].op
        /\ job'[q].id = job[q].id /\ job'[q].new = job[q].new
        /\ job'[q].want = job[q].want /\ job'[q].drop = job[q].drop
        /\ job'[q].todo \cup job'[q].add = job[q].todo \cup job[q].add
    <3>1. DOMAIN job[q] = {"step", "op", "id", "seen", "new", "want", "todo",
                           "add", "drop"}
      BY <1>1 DEF Job
    <3>2. /\ job'[q].todo = job[q].todo \ {k}
          /\ job'[q].add = job[q].add \cup {k}
      BY <2>2, <3>1
    <3>3. /\ job'[q].step = job[q].step /\ job'[q].op = job[q].op
          /\ job'[q].id = job[q].id /\ job'[q].new = job[q].new
          /\ job'[q].want = job[q].want /\ job'[q].drop = job[q].drop
      BY <2>2, <3>1
    <3> QED  BY <2>1, <3>2, <3>3
  <2>4. links' = links /\ job[q].step = "check"
    BY <1>4 DEF CheckLink
  <2> QED
    BY <1>1, <2>3, <2>4 DEF JobFresh, CreatesVacancy, MarksFit
<1>5. ASSUME SaveNewLinks(q) PROVE JobFresh(q)'
  <2>0. job'[q] = [job[q] EXCEPT !.step = "log"]
    BY <1>1, <1>5, SaveNewLinksJob
  <2>1. /\ job'[q].step = "log" /\ job'[q].op = job[q].op
        /\ job'[q].id = job[q].id /\ job'[q].new = job[q].new
    BY <1>1, <2>0 DEF Job
  <2>2. CreatesVacancy(q)
    BY <1>5 DEF SaveNewLinks
  <2> QED
    BY <1>1, <2>1, <2>2 DEF JobFresh, CreatesVacancy, MarksFit
<1>6. JobFresh(q)'
  BY <1>3, <1>4, <1>5
<1>7. OneJob' /\ \A p \in CatalogRequest : JobFresh(p)'
  BY <1>1, <1>2, <1>6, OnlyJob
<1> QED
  BY <1>1, <1>7 DEF CatalogFresh, LoggedIsStored, LogTellsMarks

LEMMA LogVacancyFresh ==
    ASSUME Types, CatalogFresh, JobsSound, NEW q \in CatalogRequest, LogVacancy(q)
    PROVE  CatalogFresh'
<1> DEFINE v == job[q].id
           new == job[q].new
<1>1. /\ CatalogTypeOK /\ Running(q) /\ JobFresh(q) /\ JobSound(q)
      /\ Finish(q) /\ UNCHANGED <<row, links>>
  BY DEF LogVacancy, Types, Running, CatalogFresh, JobsSound
<1>2. v \in Vacancy /\ row[v] = new /\ new.stored
  BY <1>1 DEF LogVacancy, JobFresh, CreatesVacancy, JobSound
<1>3. \A e \in Entity : logged'[e] = IF e = v THEN Recorded(logged[v], "Create", new)
                                              ELSE logged[e]
  BY <1>1 DEF LogVacancy, CatalogTypeOK
<1>4. logged'[v].archived = row[v].archived /\ logged'[v].deleted = row[v].deleted
  BY <1>2, <1>3 DEF Recorded
<1>5. LoggedIsStored' /\ LogTellsMarks'
  BY <1>1, <1>2, <1>3, <1>4 DEF CatalogFresh, LoggedIsStored, LogTellsMarks
<1> QED
  BY <1>1, <1>5, JobEnds DEF CatalogFresh

LEMMA SavedFresh ==
    ASSUME Types, CatalogFresh, JobsSound, NEW q \in CatalogRequest, Save(q)
    PROVE  CatalogFresh'
<1> DEFINE n == job[q].id
           op == job[q].op
           new == job[q].new
<1>1. /\ CatalogTypeOK /\ Running(q) /\ JobFresh(q) /\ JobSound(q) /\ Finish(q)
  BY DEF Save, Types, Running, CatalogFresh, JobsSound
<1>2. MarksFit(op, row[n], new) /\ (n \in Entity => new.stored)
  BY <1>1 DEF JobFresh, JobSound
<1>3. \A e \in Entity :
        /\ row'[e] = IF e = n THEN new ELSE row[e]
        /\ logged'[e] = IF e = n THEN Recorded(logged[n], op, new) ELSE logged[e]
  BY <1>1 DEF Save, CatalogTypeOK
<1> HIDE DEF n, op, new
<1>4. ASSUME NEW e \in Entity, logged'[e].created
      PROVE  /\ row'[e].stored
             /\ logged'[e].archived = row'[e].archived
             /\ logged'[e].deleted = row'[e].deleted
  <2>1. CASE e # n
    BY <1>3, <1>4, <2>1 DEF CatalogFresh, LoggedIsStored, LogTellsMarks
  <2>2. CASE e = n
    <3>1. row'[e] = new /\ logged'[e] = Recorded(logged[e], op, new)
      BY <1>3, <2>2
    <3>2. op = "Create" \/ logged[e].created
      <4>1. Recorded(logged[e], op, new).created
              = (logged[e].created \/ op = "Create")
        BY DEF Recorded
      <4> QED  BY <1>4, <3>1, <4>1, Zenon
    <3>3. op # "Create" => /\ logged[e].archived = row[e].archived
                           /\ logged[e].deleted = row[e].deleted
      BY <3>2 DEF CatalogFresh, LogTellsMarks
    <3>4. row'[e].stored
      BY <1>2, <2>2, <3>1
    <3>5. /\ Recorded(logged[e], op, new).archived
               = IF op = "SoftDelete" THEN logged[e].archived ELSE new.archived
          /\ Recorded(logged[e], op, new).deleted
               = IF op \in {"Archive", "Unarchive"} THEN logged[e].deleted
                                                     ELSE new.deleted
      BY DEF Recorded
    <3>6. /\ op = "SoftDelete" => logged[e].archived = new.archived
          /\ op \in {"Archive", "Unarchive"} => logged[e].deleted = new.deleted
      BY <1>2, <2>2, <3>3 DEF MarksFit
    <3> QED
      BY <3>1, <3>4, <3>5, <3>6
  <2> QED  BY <2>1, <2>2
<1>5. LoggedIsStored' /\ LogTellsMarks'
  BY <1>4 DEF LoggedIsStored, LogTellsMarks
<1> QED
  BY <1>1, <1>5, JobEnds DEF CatalogFresh

LEMMA CatalogFreshStep ==
    ~Overlap /\ Types /\ Sound /\ CatalogFresh /\ [CatalogNext]_catalogVars
      => CatalogFresh'
<1> SUFFICES ASSUME ~Overlap, Types, Sound, CatalogFresh,
                    [CatalogNext]_catalogVars
             PROVE  CatalogFresh'
  OBVIOUS
<1>1. CASE UNCHANGED catalogVars
  BY <1>1 DEF catalogVars, CatalogFresh, OneJob, Running, JobFresh,
              CreatesVacancy, LoggedIsStored, LogTellsMarks
<1>2. ASSUME NEW q \in CatalogRequest, Abandon(q)
      PROVE  CatalogFresh'
  <2>1. Finish(q) /\ Running(q) /\ UNCHANGED <<row, links, logged>>
    BY <1>2 DEF Abandon
  <2> QED
    BY <2>1, JobEnds DEF Types, CatalogFresh, LoggedIsStored, LogTellsMarks
<1>3. ASSUME NEW q \in CatalogRequest,
             CandidateService(q) \/ CompetencyService(q) \/ VacancyService(q)
      PROVE  CatalogFresh'
  BY <1>3, ServiceKinds, ReadFresh, AddFresh, CreateVacancyFresh,
     UpdateVacancyFresh, LinksFresh, LogVacancyFresh DEF Types, Sound
<1> QED
  BY <1>1, <1>2, <1>3, SavedFresh DEF CatalogNext, Sound

LEMMA CatalogFreshInit == CatalogInit => CatalogFresh
<1> SUFFICES ASSUME CatalogInit PROVE CatalogFresh
  OBVIOUS
<1>1. \A q \in CatalogRequest : ~Running(q)
  BY DEF CatalogInit, NoJob, Running
<1>2. \A e \in Entity : row[e].archived = FALSE /\ row[e].deleted = FALSE
  <2>1. \A e \in Entity : row[e] = FirstRow(e) \/ row[e] = NotStored
    BY DEF CatalogInit
  <2>2. NotStored.archived = FALSE /\ NotStored.deleted = FALSE
    BY DEF NotStored, NewRow
  <2>3. \A e \in Entity : FirstRow(e).archived = FALSE
                          /\ FirstRow(e).deleted = FALSE
    BY DEF FirstRow, NewRow
  <2> QED  BY <2>1, <2>2, <2>3
<1>3. LoggedIsStored /\ LogTellsMarks
  <2> SUFFICES ASSUME NEW e \in Entity
               PROVE  /\ logged[e].created = row[e].stored
                      /\ logged[e].archived = FALSE
                      /\ logged[e].deleted = FALSE
    BY <1>2 DEF LoggedIsStored, LogTellsMarks
  <2>1. logged[e] = [created |-> row[e].stored, archived |-> FALSE,
                     deleted |-> FALSE]
    BY DEF CatalogInit
  <2> QED  BY <2>1
<1> QED
  BY <1>1, <1>3 DEF CatalogFresh, OneJob, JobFresh

LEMMA AlwaysCatalogFresh ==
    ASSUME ~Overlap
    PROVE  InterviewsSpec => [](Settled /\ CatalogFresh)
<1>1. InterviewsInit => CatalogFresh
  BY CatalogFreshInit DEF InterviewsInit
<1>2. Settled /\ CatalogFresh /\ [InterviewsNext]_vars => CatalogFresh'
  <2> SUFFICES ASSUME Settled, CatalogFresh, [InterviewsNext]_vars
               PROVE  CatalogFresh'
    OBVIOUS
  <2>1. [CatalogNext]_catalogVars
    BY TaskStepKinds DEF Settled, vars
  <2> QED
    BY <2>1, CatalogFreshStep DEF Settled
<1> QED
  BY <1>1, <1>2, AlwaysFresh, PTL DEF InterviewsSpec

(* Reading the audit log back gives the marks of every row it knows of.    *)
THEOREM LogAlwaysTellsMarks ==
    ASSUME ~Overlap PROVE InterviewsSpec => []LogTellsMarks
<1>1. CatalogFresh => LogTellsMarks
  BY DEF CatalogFresh
<1> QED  BY <1>1, AlwaysCatalogFresh, PTL

LinkedAsSubmitted ==
    \A q \in CatalogRequest, v \in Vacancy :
        (/\ Saves(q, v) /\ job[q].op = "Update"
         /\ <<row', links'>> # <<row, links>>)
          => links'[v] = job[q].want

LEMMA LinkedStep ==
    Settled /\ CatalogFresh /\ [CatalogNext]_catalogVars
      => [LinkedAsSubmitted]_catalogVars
<1> SUFFICES ASSUME Settled, CatalogFresh, CatalogNext,
                    NEW q \in CatalogRequest, NEW v \in Vacancy,
                    Saves(q, v), job[q].op = "Update",
                    <<row', links'>> # <<row, links>>
             PROVE  links'[v] = job[q].want
  BY DEF LinkedAsSubmitted
<1>1. CatalogTypeOK /\ Running(q) /\ JobFresh(q)
  BY DEF Settled, Types, Saves, Running, CatalogFresh
<1>2. \A p \in CatalogRequest :
         job' = [job EXCEPT ![p] = job'[p]] => p = q
  BY <1>1 DEF Saves, CatalogTypeOK
<1>3. ASSUME NEW p \in CatalogRequest, NEW u \in Vacancy, CreateVacancy(p, u)
      PROVE  FALSE
  <2>1. p = q
    BY <1>1, <1>2, <1>3, CreateVacancyJob
  <2> QED  BY <1>3, <2>1 DEF CreateVacancy, TakeUp, Saves
<1>4. ASSUME NEW p \in CatalogRequest, SaveNewLinks(p)
      PROVE  FALSE
  <2>1. p = q
    BY <1>1, <1>2, <1>4, SaveNewLinksJob
  <2> QED  BY <1>4, <2>1 DEF SaveNewLinks, CreatesVacancy
<1>5. ASSUME NEW p \in CatalogRequest, Save(p)
      PROVE  p = q
  <2>1. job' = [job EXCEPT ![p] = job'[p]]
    BY <1>1, <1>5 DEF Save, Finish, CatalogTypeOK
  <2> QED  BY <1>2, <2>1
<1>6. Save(q)
  <2>1. ~UNCHANGED <<row, links>>
    OBVIOUS
  <2> QED
    BY <1>1, <1>3, <1>4, <1>5, <2>1, StepKinds
    DEF SoundRead, Read, SoundAdd, Add, UpdateVacancy, DiffLinks, CheckLink,
        LogVacancy, Abandon
<1>7. /\ job[q].step = "check" /\ job[q].id = v /\ job[q].todo = {}
      /\ links' = [links EXCEPT ![v] = (@ \ job[q].drop) \cup job[q].add]
  BY <1>6 DEF Save, Saves
<1>8. /\ job[q].drop = links[v] \ job[q].want
      /\ job[q].add = job[q].want \ links[v]
  BY <1>1, <1>7 DEF JobFresh
<1> QED
  BY <1>1, <1>7, <1>8 DEF CatalogTypeOK

(* An update of a vacancy, written as a difference, leaves exactly the     *)
(* competencies it was sent.                                               *)
THEOREM LinksAlwaysAsSubmitted ==
    ASSUME ~Overlap PROVE InterviewsSpec => LinksAsSubmitted
<1>1. Settled /\ CatalogFresh /\ [InterviewsNext]_vars
        => [LinkedAsSubmitted]_catalogVars
  <2> SUFFICES ASSUME Settled, CatalogFresh, [InterviewsNext]_vars
               PROVE  [LinkedAsSubmitted]_catalogVars
    OBVIOUS
  <2>1. [CatalogNext]_catalogVars
    BY TaskStepKinds DEF Settled, vars
  <2> QED
    BY <2>1, LinkedStep
<1> QED
  BY <1>1, AlwaysCatalogFresh, PTL
  DEF InterviewsSpec, LinksAsSubmitted, LinkedAsSubmitted

=============================================================================
