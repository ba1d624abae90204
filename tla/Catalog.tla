------------------------------ MODULE Catalog ------------------------------
(***************************************************************************)
(* The candidates, vacancies and competencies of the HR platform, and the  *)
(* services of the .NET API that change them (ApplicationServices.cs:      *)
(* CandidateService, VacancyService, CompetencyService).                   *)
(*                                                                         *)
(* Every handler has the same shape: GetByIdAsync reads a row, the handler *)
(* checks it and computes the new row in memory, DbSet.Update marks every  *)
(* column modified, an audit entry joins the same unit of work and         *)
(* SaveChangesAsync writes all of it in one transaction.  There is no      *)
(* concurrency token, so a save overwrites the whole row with values       *)
(* computed from what the handler read, however long ago.  A request is    *)
(* therefore two steps or more, and steps of different requests interleave.*)
(***************************************************************************)
EXTENDS Naturals

CONSTANTS
    Candidate, Vacancy, Competency,  \* identifiers rows can have
    NoEntity,                        \* "no row", in a request that has none
    CatalogRequest,                  \* the HTTP requests, each served once
    ScoreInput,                      \* maximum scores that clients submit
    Overlap                          \* TRUE: requests overlap, as the server
                                     \* serves them; FALSE: one at a time

Entity == Candidate \cup Vacancy \cup Competency

ASSUME CatalogAssumption ==
    /\ Candidate \cap Vacancy = {}
    /\ Candidate \cap Competency = {}
    /\ Vacancy \cap Competency = {}
    /\ NoEntity \notin Entity
    /\ ScoreInput \subseteq Nat
    /\ Overlap \in BOOLEAN

VARIABLES
    row,     \* row[e]: the row of e in its table
    links,   \* links[v]: table vacancy_competencies, the competencies of v
    logged,  \* logged[e]: what the audit log says of e, read back in order
    job      \* job[q]: what the handler of request q holds in memory

catalogVars == <<row, links, logged, job>>

(***************************************************************************)
(* Rows.  A table without a column keeps its initial value there.  The     *)
(* three columns ArchivedAt, ArchivedById and ArchivedReason are written   *)
(* and cleared together, as are the three for deletion: one flag each.     *)
(***************************************************************************)
Row == [stored     : BOOLEAN,   \* the row is in the table
        active     : BOOLEAN,   \* IsActive
        maxScore   : Nat,       \* MaxScore
        archived   : BOOLEAN,   \* IsArchived
        archivedAt : BOOLEAN,   \* ArchivedAt is set
        deleted    : BOOLEAN,   \* IsDeleted
        deletedAt  : BOOLEAN]   \* DeletedAt is set

NewRow(isActive, maxScore) ==
    [stored |-> TRUE, active |-> isActive, maxScore |-> maxScore,
     archived |-> FALSE, archivedAt |-> FALSE,
     deleted |-> FALSE, deletedAt |-> FALSE]

NotStored == [NewRow(TRUE, 0) EXCEPT !.stored = FALSE]

(* What the audit entries of an entity, replayed in the order they were    *)
(* saved, say of it.                                                       *)
LogView == [created : BOOLEAN, archived : BOOLEAN, deleted : BOOLEAN]

(***************************************************************************)
(* Requests.  seen is the row as the handler read it, new the row it is    *)
(* going to save; want, todo, add and drop belong to the requests that     *)
(* set the competencies of a vacancy: the submitted set, the competencies  *)
(* still to be checked, the links to insert and the links to delete.       *)
(***************************************************************************)
Steps == {"new", "diff", "check", "log", "done"}

Ops == {"none", "Create", "Update", "Archive", "Unarchive", "SoftDelete",
        "Restore"}

Job == [step : Steps, op : Ops, id : Entity \cup {NoEntity},
        seen : Row, new : Row,
        want : SUBSET Competency, todo : SUBSET Competency,
        add : SUBSET Competency, drop : SUBSET Competency]

NoJob(step) ==
    [step |-> step, op |-> "none", id |-> NoEntity,
     seen |-> NotStored, new |-> NotStored,
     want |-> {}, todo |-> {}, add |-> {}, drop |-> {}]

Running(q) == job[q].step \in {"diff", "check", "log"}

(* The service starts over tables that earlier requests have filled: any   *)
(* rows as they are created, links between stored rows, all of it logged.  *)
FirstRow(e) == NewRow(TRUE, IF e \in Competency THEN 5 ELSE 0)

CatalogInit ==
    /\ \E stored \in SUBSET Entity :
          row = [e \in Entity |-> IF e \in stored THEN FirstRow(e) ELSE NotStored]
    /\ links \in [Vacancy -> SUBSET {k \in Competency : row[k].stored}]
    /\ \A v \in Vacancy : links[v] # {} => row[v].stored
    /\ logged = [e \in Entity |-> [created |-> row[e].stored,
                                   archived |-> FALSE, deleted |-> FALSE]]
    /\ job = [q \in CatalogRequest |-> NoJob("new")]

(* A request is taken up: it is new, and it overlaps others only if the    *)
(* instance lets requests overlap.                                         *)
TakeUp(q) ==
    /\ job[q].step = "new"
    /\ Overlap \/ \A p \in CatalogRequest : ~Running(p)

Finish(q) == job' = [job EXCEPT ![q] = NoJob("done")]

(* The handler has read the row of e and computed the row to save; the     *)
(* first throw of every handler is NotFoundException for a missing row.    *)
Read(q, op, e, new) ==
    /\ TakeUp(q)
    /\ row[e].stored
    /\ job' = [job EXCEPT ![q] = [NoJob("check") EXCEPT
                  !.op = op, !.id = e, !.seen = row[e], !.new = new]]
    /\ UNCHANGED <<row, links, logged>>

(* A creating handler allocates a fresh Guid and adds the row in memory.   *)
Add(q, e, new) ==
    /\ TakeUp(q)
    /\ ~row[e].stored
    /\ \A p \in CatalogRequest : job[p].id # e
    /\ job' = [job EXCEPT ![q] = [NoJob("check") EXCEPT
                  !.op = "Create", !.id = e, !.new = new]]
    /\ UNCHANGED <<row, links, logged>>

-----------------------------------------------------------------------------
(* Archive, unarchive, delete and restore are the same code in the three   *)
(* services.                                                               *)
Archive(q, e) ==
    /\ ~row[e].archived
    /\ Read(q, "Archive", e,
            [row[e] EXCEPT !.archived = TRUE, !.archivedAt = TRUE])

Unarchive(q, e) ==
    /\ row[e].archived
    /\ Read(q, "Unarchive", e,
            [row[e] EXCEPT !.archived = FALSE, !.archivedAt = FALSE])

Delete(q, e) ==
    /\ ~row[e].deleted
    /\ Read(q, "SoftDelete", e,
            [row[e] EXCEPT !.deleted = TRUE, !.deletedAt = TRUE])

(* Mutated form: the restore that forgets to clear DeletedAt.              *)
RestoredKeepsStamp(r) == [r EXCEPT !.deleted = FALSE, !.archived = FALSE,
                                   !.archivedAt = @ /\ ~r.archived]

(* Restoring clears whichever of the two marks is set, each with its stamp.*)
Restored(r) == [r EXCEPT !.deleted = FALSE, !.deletedAt = @ /\ ~r.deleted,
                         !.archived = FALSE, !.archivedAt = @ /\ ~r.archived]

Restore(q, e) ==
    /\ row[e].deleted \/ row[e].archived
    /\ Read(q, "Restore", e, Restored(row[e]))

MarkOrUnmark(q, e) ==
    Archive(q, e) \/ Unarchive(q, e) \/ Delete(q, e) \/ Restore(q, e)

-----------------------------------------------------------------------------
(* CandidateService.  Update copies IsArchived from the request and leaves *)
(* ArchivedAt alone.                                                       *)
CreateCandidate(q, c) == Add(q, c, NewRow(TRUE, 0))

UpdateCandidate(q, c) ==
    \E isArchived \in BOOLEAN :
        Read(q, "Update", c, [row[c] EXCEPT !.archived = isArchived])

CandidateService(q) ==
    \E c \in Candidate :
        CreateCandidate(q, c) \/ UpdateCandidate(q, c) \/ MarkOrUnmark(q, c)

-----------------------------------------------------------------------------
(* CompetencyService.                                                      *)

(* Mutated form: the scale check that tests only the lower bound.          *)
ScoreAboveZero(maxScore) == maxScore > 0

EnsureValidScore(maxScore) == maxScore > 0 /\ maxScore <= 5

CreateCompetency(q, k) ==
    \E isActive \in BOOLEAN, maxScore \in ScoreInput :
        /\ EnsureValidScore(maxScore)
        /\ Add(q, k, NewRow(isActive, maxScore))

UpdateCompetency(q, k) ==
    \E isActive \in BOOLEAN, maxScore \in ScoreInput :
        /\ EnsureValidScore(maxScore)
        /\ Read(q, "Update", k, [row[k] EXCEPT !.active = isActive,
                                               !.maxScore = maxScore])

CompetencyService(q) ==
    \E k \in Competency :
        CreateCompetency(q, k) \/ UpdateCompetency(q, k) \/ MarkOrUnmark(q, k)

-----------------------------------------------------------------------------
(* VacancyService.  Create saves the vacancy first and only then checks    *)
(* the submitted competencies, saves the links and saves the audit entry:  *)
(* three SaveChangesAsync calls, three transactions.                       *)
CreateVacancy(q, v) ==
    \E isActive \in BOOLEAN, want \in SUBSET Competency :
        /\ TakeUp(q)
        /\ ~row[v].stored
        /\ row' = [row EXCEPT ![v] = NewRow(isActive, 0)]
        /\ job' = [job EXCEPT ![q] =
              [NoJob(IF want = {} THEN "log" ELSE "check") EXCEPT
                  !.op = "Create", !.id = v, !.new = NewRow(isActive, 0),
                  !.want = want, !.todo = want]]
        /\ UNCHANGED <<links, logged>>

UpdateVacancy(q, v) ==
    \E isActive \in BOOLEAN, want \in SUBSET Competency :
        /\ TakeUp(q)
        /\ row[v].stored
        /\ job' = [job EXCEPT ![q] = [NoJob("diff") EXCEPT
                      !.op = "Update", !.id = v, !.seen = row[v],
                      !.new = [row[v] EXCEPT !.active = isActive],
                      !.want = want]]
        /\ UNCHANGED <<row, links, logged>>

(* Mutated form: links the request no longer lists are not deleted.        *)
DiffKeepsOldLinks(q) ==
    /\ job[q].step = "diff"
    /\ job' = [job EXCEPT ![q].step = "check",
                          ![q].todo = job[q].want \ links[job[q].id]]
    /\ UNCHANGED <<row, links, logged>>

(* Update reads the links: what is listed no more is to be deleted, what   *)
(* is newly listed is to be checked and inserted.                          *)
DiffLinks(q) ==
    LET existing == links[job[q].id] IN
    /\ job[q].step = "diff"
    /\ job' = [job EXCEPT ![q].step = "check",
                          ![q].drop = existing \ job[q].want,
                          ![q].todo = job[q].want \ existing]
    /\ UNCHANGED <<row, links, logged>>

(* Mutated form: the link is made from the wrong identifier.               *)
CheckLinkSwapsIds(q) ==
    /\ job[q].step = "check"
    /\ \E k \in job[q].todo :
          /\ row[k].stored /\ row[k].active
          /\ job' = [job EXCEPT ![q].todo = @ \ {k},
                                ![q].add = @ \cup {job[q].id}]
    /\ UNCHANGED <<row, links, logged>>

(* Mutated form: the submitted competencies are not looked up.             *)
CheckLinkBlindly(q) ==
    /\ job[q].step = "check"
    /\ job[q].todo # {}
    /\ job' = [job EXCEPT ![q].todo = {}, ![q].add = job[q].todo]
    /\ UNCHANGED <<row, links, logged>>

(* One competency is looked up; an inactive one makes the handler throw,   *)
(* which is Abandon.                                                       *)
CheckLink(q) ==
    /\ job[q].step = "check"
    /\ \E k \in job[q].todo :
          /\ row[k].stored /\ row[k].active
          /\ job' = [job EXCEPT ![q].todo = @ \ {k}, ![q].add = @ \cup {k}]
    /\ UNCHANGED <<row, links, logged>>

CreatesVacancy(q) == job[q].op = "Create" /\ job[q].id \in Vacancy

(* The second save of a creation.  The unique index on (VacancyId,         *)
(* CompetencyId) refuses a link that is there by now.                      *)
SaveNewLinks(q) ==
    LET v == job[q].id IN
    /\ CreatesVacancy(q) /\ job[q].step = "check" /\ job[q].todo = {}
    /\ job[q].add \cap links[v] = {}
    /\ links' = [links EXCEPT ![v] = @ \cup job[q].add]
    /\ job' = [job EXCEPT ![q].step = "log"]
    /\ UNCHANGED <<row, logged>>

(* Mutated form: Restore records the deletion it undoes and not the        *)
(* archiving it undoes with it.                                            *)
RecordedOneMark(view, op, new) ==
    [created  |-> view.created \/ op = "Create",
     archived |-> IF op \in {"SoftDelete", "Restore"} THEN view.archived
                                                     ELSE new.archived,
     deleted  |-> IF op \in {"Archive", "Unarchive"} THEN view.deleted
                                                     ELSE new.deleted]

(* What an audit entry adds to the log's view: Create, Update and Restore  *)
(* record both marks, the others the one they change.                      *)
Recorded(view, op, new) ==
    [created  |-> view.created \/ op = "Create",
     archived |-> IF op = "SoftDelete" THEN view.archived ELSE new.archived,
     deleted  |-> IF op \in {"Archive", "Unarchive"} THEN view.deleted
                                                     ELSE new.deleted]

(* The third save of a creation: the audit entry alone.                    *)
LogVacancy(q) ==
    LET v == job[q].id IN
    /\ job[q].step = "log"
    /\ logged' = [logged EXCEPT ![v] = Recorded(@, "Create", job[q].new)]
    /\ Finish(q)
    /\ UNCHANGED <<row, links>>

VacancyService(q) ==
    \/ \E v \in Vacancy :
          CreateVacancy(q, v) \/ UpdateVacancy(q, v) \/ MarkOrUnmark(q, v)
    \/ DiffLinks(q)
    \/ CheckLink(q)
    \/ SaveNewLinks(q)
    \/ LogVacancy(q)

-----------------------------------------------------------------------------
(* Mutated form: the audit entry is not part of the unit of work.          *)
SaveUnlogged(q) ==
    LET e == job[q].id IN
    /\ job[q].step = "check" /\ job[q].todo = {} /\ ~CreatesVacancy(q)
    /\ row' = [row EXCEPT ![e] = job[q].new]
    /\ links' = links
    /\ logged' = IF job[q].op = "Create" THEN logged
                 ELSE [logged EXCEPT ![e] = Recorded(@, job[q].op, job[q].new)]
    /\ Finish(q)

(* Mutated form: only the row that the handler saved before is kept, so a  *)
(* save resets the columns the request does not carry.                     *)
SaveFresh(q) ==
    LET e == job[q].id IN
    /\ job[q].step = "check" /\ job[q].todo = {} /\ ~CreatesVacancy(q)
    /\ row' = [row EXCEPT ![e] = IF job[q].op # "Update" THEN job[q].new
                ELSE [job[q].new EXCEPT !.deleted = FALSE,
                                        !.deletedAt = FALSE]]
    /\ links' = IF e \in Vacancy
                THEN [links EXCEPT ![e] = (@ \ job[q].drop) \cup job[q].add]
                ELSE links
    /\ logged' = [logged EXCEPT ![e] = Recorded(@, job[q].op, job[q].new)]
    /\ Finish(q)

(* SaveChangesAsync: the whole row, the links and the audit entry in one   *)
(* transaction.  Deleting a link that is gone (no row affected) and        *)
(* inserting one that is there (unique index) fail the transaction, which  *)
(* is Abandon.                                                             *)
Save(q) ==
    LET e == job[q].id IN
    /\ job[q].step = "check" /\ job[q].todo = {} /\ ~CreatesVacancy(q)
    /\ e \in Vacancy => /\ job[q].drop \subseteq links[e]
                        /\ job[q].add \cap links[e] = {}
    /\ row' = [row EXCEPT ![e] = job[q].new]
    /\ links' = IF e \in Vacancy
                THEN [links EXCEPT ![e] = (@ \ job[q].drop) \cup job[q].add]
                ELSE links
    /\ logged' = [logged EXCEPT ![e] = Recorded(@, job[q].op, job[q].new)]
    /\ Finish(q)

(* The handler ends without the saves it has not made: an exception, a     *)
(* failed transaction, the client gone (the request's cancellation token   *)
(* reaches every SaveChangesAsync) or the process killed.                  *)
Abandon(q) ==
    /\ Running(q)
    /\ Finish(q)
    /\ UNCHANGED <<row, links, logged>>

CatalogNext ==
    \E q \in CatalogRequest :
        \/ CandidateService(q)
        \/ CompetencyService(q)
        \/ VacancyService(q)
        \/ Save(q)
        \/ Abandon(q)

CatalogSpec == CatalogInit /\ [][CatalogNext]_catalogVars

-----------------------------------------------------------------------------
(* Type invariant.                                                         *)
CatalogTypeOK ==
    /\ row \in [Entity -> Row]
    /\ links \in [Vacancy -> SUBSET Competency]
    /\ logged \in [Entity -> LogView]
    /\ job \in [CatalogRequest -> Job]

(* A mark and its stamp are written together and never drift apart, though *)
(* whole rows are overwritten by whichever request saves last: IsDeleted   *)
(* iff DeletedAt is set, in every table; IsArchived iff ArchivedAt is set, *)
(* for vacancies and competencies.  Candidates are not covered: Update     *)
(* copies IsArchived from the request without its stamp.                   *)
StampsAgree ==
    /\ \A e \in Entity : row[e].deleted = row[e].deletedAt
    /\ \A e \in Vacancy \cup Competency : row[e].archived = row[e].archivedAt

(* Every stored competency has a scale of 1 to 5 points, whatever scores   *)
(* clients submit and whichever of several overlapping saves comes last.   *)
ScaleInRange ==
    \A k \in Competency : row[k].stored => row[k].maxScore \in 1 .. 5

(* The links of a vacancy point to stored rows at both ends, although a    *)
(* vacancy being created is visible before its links are.                  *)
LinksResolve ==
    \A v \in Vacancy : links[v] # {} =>
        row[v].stored /\ \A k \in links[v] : row[k].stored

(* No candidate and no competency exists whose creation the audit log      *)
(* misses, even when requests are cut off at any point.                    *)
CreationLogged ==
    \A e \in Candidate \cup Competency : row[e].stored => logged[e].created

(* The saves of a step: request q writes the row of e and ends.            *)
Saves(q, e) ==
    job[q].step = "check" /\ job[q].id = e /\ job'[q].step = "done"

(* A deletion is undone by Restore, or by a request that had read the row  *)
(* before it was deleted and saves it now: an edit or an archiving that    *)
(* overlapped the deletion.  No other request brings a deleted row back.   *)
DeletionUndone ==
    [][\A e \in Entity : row[e].deleted /\ ~row'[e].deleted =>
          \E q \in CatalogRequest :
              Saves(q, e) /\ (job[q].op = "Restore" \/ ~job[q].seen.deleted)
      ]_catalogVars

(* As long as requests do not overlap, an update of a vacancy leaves       *)
(* exactly the competencies it was sent, though it writes them as a        *)
(* difference to the links it has read.                                    *)
LinksAsSubmitted ==
    [][\A q \in CatalogRequest, v \in Vacancy :
          (/\ Saves(q, v) /\ job[q].op = "Update"
           /\ <<row', links'>> # <<row, links>>)
            => links'[v] = job[q].want
      ]_catalogVars

(* Reading the audit log back gives the marks of every row.                *)
LogTellsMarks ==
    \A e \in Entity : logged[e].created =>
        /\ logged[e].archived = row[e].archived
        /\ logged[e].deleted = row[e].deleted

=============================================================================
