--------------------------- MODULE Catalog_proofs --------------------------
(***************************************************************************)
(* Theorems about the catalog, for any sets of rows, requests and scores,  *)
(* and whether or not requests overlap.                                    *)
(*                                                                         *)
(* The invariants of Catalog speak of the tables.  They are inductive only *)
(* together with what the handlers hold in memory (JobsSound), because a   *)
(* save copies a row computed in an earlier state over the one that is     *)
(* there.                                                                  *)
(***************************************************************************)
EXTENDS Catalog, TLAPS

USE DEF Entity

(***************************************************************************)
(* The invariant.                                                          *)
(***************************************************************************)
(* The stamps of one row of e.                                             *)
StampedRow(e, r) ==
    /\ r.deleted = r.deletedAt
    /\ e \in Vacancy \cup Competency => r.archived = r.archivedAt

(* What request q is going to save is a row its table may hold, over a row *)
(* that is there unless q creates it; only a restore undeletes.            *)
JobSound(q) ==
    LET e == job[q].id
        new == job[q].new
    IN  e \in Entity =>
          /\ new.stored
          /\ StampedRow(e, new)
          /\ e \in Competency => new.maxScore \in 1 .. 5
          /\ job[q].op # "Create" \/ e \in Vacancy => row[e].stored
          /\ job[q].op # "Restore" /\ job[q].seen.deleted => new.deleted
          /\ \A k \in job[q].add : row[k].stored

JobsSound == \A q \in CatalogRequest : JobSound(q)

(* Only a vacancy is updated by way of the difference of its links.        *)
DiffOfVacancy ==
    \A q \in CatalogRequest : job[q].step = "diff" => job[q].id \in Vacancy

UnstoredUnmarked == \A e \in Entity : ~row[e].stored => ~row[e].deleted

Types == CatalogTypeOK /\ DiffOfVacancy

Sound ==
    /\ StampsAgree
    /\ ScaleInRange
    /\ LinksResolve
    /\ CreationLogged
    /\ UnstoredUnmarked
    /\ JobsSound

-----------------------------------------------------------------------------
(* Rows and requests.                                                      *)

LEMMA ScoresAreNumbers == ScoreInput \subseteq Nat
BY CatalogAssumption DEF CatalogAssumption

LEMMA Disjoint == /\ Vacancy \cap Competency = {}
                  /\ Vacancy \cap Candidate = {}
                  /\ NoEntity \notin Entity
BY CatalogAssumption DEF CatalogAssumption

LEMMA RowTypes ==
    /\ \A isActive \in BOOLEAN, maxScore \in Nat :
          NewRow(isActive, maxScore) \in Row
    /\ NotStored \in Row
    /\ \A e \in Entity : FirstRow(e) \in Row
BY DEF NewRow, NotStored, FirstRow, Row

LEMMA NoJobType ==
    \A step \in Steps : NoJob(step) \in Job
BY RowTypes DEF NoJob, Job, Steps, Ops

(***************************************************************************)
(* The kinds of step.  What a handler reads and computes, abstractly: the  *)
(* row it is going to save keeps every virtue of the row it has read.      *)
(***************************************************************************)
SoundChange(e, op, old, new) ==
    /\ new \in Row
    /\ old.stored => new.stored
    /\ StampedRow(e, old) => StampedRow(e, new)
    /\ e \in Competency => new.maxScore = old.maxScore \/ new.maxScore \in 1 .. 5
    /\ op # "Restore" /\ old.deleted => new.deleted

SoundRead(q, e) ==
    \E op \in Ops \ {"Create"}, new \in Row :
        Read(q, op, e, new) /\ SoundChange(e, op, row[e], new)

SoundNew(e, new) ==
    /\ new \in Row
    /\ new.stored
    /\ StampedRow(e, new)
    /\ e \in Competency => new.maxScore \in 1 .. 5

SoundAdd(q, e) ==
    \E new \in Row : Add(q, e, new) /\ SoundNew(e, new)

LEMMA MarksAreSound ==
    ASSUME CatalogTypeOK, NEW q \in CatalogRequest, NEW e \in Entity,
           MarkOrUnmark(q, e)
    PROVE  SoundRead(q, e)
<1>0. row[e] \in Row
  BY DEF CatalogTypeOK
<1>1. CASE Archive(q, e)
  <2> DEFINE new == [row[e] EXCEPT !.archived = TRUE, !.archivedAt = TRUE]
  <2>1. SoundChange(e, "Archive", row[e], new)
    BY <1>0 DEF Row, SoundChange, StampedRow
  <2> QED  BY <1>1, <2>1 DEF Archive, SoundRead, SoundChange, Ops
<1>2. CASE Unarchive(q, e)
  <2> DEFINE new == [row[e] EXCEPT !.archived = FALSE, !.archivedAt = FALSE]
  <2>1. SoundChange(e, "Unarchive", row[e], new)
    BY <1>0 DEF Row, SoundChange, StampedRow
  <2> QED  BY <1>2, <2>1 DEF Unarchive, SoundRead, SoundChange, Ops
<1>3. CASE Delete(q, e)
  <2> DEFINE new == [row[e] EXCEPT !.deleted = TRUE, !.deletedAt = TRUE]
  <2>1. SoundChange(e, "SoftDelete", row[e], new)
    BY <1>0 DEF Row, SoundChange, StampedRow
  <2> QED  BY <1>3, <2>1 DEF Delete, SoundRead, SoundChange, Ops
<1>4. CASE Restore(q, e)
  <2>1. SoundChange(e, "Restore", row[e], Restored(row[e]))
    BY <1>0 DEF Row, SoundChange, StampedRow, Restored
  <2> QED  BY <1>4, <2>1 DEF Restore, SoundRead, SoundChange, Ops
<1> QED
  BY <1>1, <1>2, <1>3, <1>4 DEF MarkOrUnmark

LEMMA CandidatesAreSound ==
    ASSUME CatalogTypeOK, NEW q \in CatalogRequest, CandidateService(q)
    PROVE  \E e \in Candidate \cup Competency : SoundRead(q, e) \/ SoundAdd(q, e)
<1>1. PICK c \in Candidate :
         CreateCandidate(q, c) \/ UpdateCandidate(q, c) \/ MarkOrUnmark(q, c)
  BY DEF CandidateService
<1>2. CASE CreateCandidate(q, c)
  <2>1. SoundNew(c, NewRow(TRUE, 0))
    BY RowTypes, CatalogAssumption
    DEF NewRow, SoundNew, StampedRow, CatalogAssumption
  <2> QED  BY <1>2, <2>1, RowTypes DEF CreateCandidate, SoundAdd
<1>3. CASE UpdateCandidate(q, c)
  <2>1. PICK isArchived \in BOOLEAN :
           Read(q, "Update", c, [row[c] EXCEPT !.archived = isArchived])
    BY <1>3 DEF UpdateCandidate
  <2>2. SoundChange(c, "Update", row[c],
                    [row[c] EXCEPT !.archived = isArchived])
    BY CatalogAssumption
    DEF CatalogTypeOK, Row, SoundChange, StampedRow, CatalogAssumption
  <2> QED  BY <2>1, <2>2 DEF SoundRead, SoundChange, Ops
<1> QED
  BY <1>1, <1>2, <1>3, MarksAreSound

LEMMA CompetenciesAreSound ==
    ASSUME CatalogTypeOK, NEW q \in CatalogRequest, CompetencyService(q)
    PROVE  \E e \in Candidate \cup Competency : SoundRead(q, e) \/ SoundAdd(q, e)
<1>1. PICK k \in Competency :
         \/ CreateCompetency(q, k)
         \/ UpdateCompetency(q, k)
         \/ MarkOrUnmark(q, k)
  BY DEF CompetencyService
<1>2. CASE CreateCompetency(q, k)
  <2>1. PICK isActive \in BOOLEAN, maxScore \in ScoreInput :
          EnsureValidScore(maxScore) /\ Add(q, k, NewRow(isActive, maxScore))
    BY <1>2 DEF CreateCompetency
  <2>2. maxScore \in Nat /\ maxScore \in 1 .. 5
    BY <2>1, ScoresAreNumbers DEF EnsureValidScore
  <2>3. SoundNew(k, NewRow(isActive, maxScore))
    BY <2>2, RowTypes DEF NewRow, SoundNew, StampedRow
  <2> QED  BY <2>1, <2>3 DEF SoundAdd, SoundNew
<1>3. CASE UpdateCompetency(q, k)
  <2>1. PICK isActive \in BOOLEAN, maxScore \in ScoreInput :
           /\ EnsureValidScore(maxScore)
           /\ Read(q, "Update", k, [row[k] EXCEPT !.active = isActive,
                                                  !.maxScore = maxScore])
    BY <1>3 DEF UpdateCompetency
  <2>2. maxScore \in Nat /\ maxScore \in 1 .. 5
    BY <2>1, ScoresAreNumbers DEF EnsureValidScore
  <2>3. SoundChange(k, "Update", row[k],
                    [row[k] EXCEPT !.active = isActive, !.maxScore = maxScore])
    BY <2>2 DEF CatalogTypeOK, Row, SoundChange, StampedRow
  <2> QED  BY <2>1, <2>3 DEF SoundRead, SoundChange, Ops
<1> QED
  BY <1>1, <1>2, <1>3, MarksAreSound

(* Every step is of one of ten kinds.                                      *)
LEMMA StepKinds ==
    ASSUME CatalogTypeOK, CatalogNext
    PROVE  \E q \in CatalogRequest :
              \/ \E e \in Entity : SoundRead(q, e)
              \/ \E e \in Candidate \cup Competency : SoundAdd(q, e)
              \/ \E v \in Vacancy : CreateVacancy(q, v)
              \/ \E v \in Vacancy : UpdateVacancy(q, v)
              \/ DiffLinks(q)
              \/ CheckLink(q)
              \/ SaveNewLinks(q)
              \/ LogVacancy(q)
              \/ Save(q)
              \/ Abandon(q)
BY CandidatesAreSound, CompetenciesAreSound, MarksAreSound
DEF CatalogNext, VacancyService

-----------------------------------------------------------------------------
(* Types.                                                                  *)

LEMMA FinishTypes ==
    ASSUME CatalogTypeOK, NEW q \in CatalogRequest, Finish(q)
    PROVE  /\ job' \in [CatalogRequest -> Job]
           /\ job' = [job EXCEPT ![q] = NoJob("done")]
BY NoJobType DEF Finish, CatalogTypeOK, Steps

(* What request q holds after a step; the other requests hold what they    *)
(* did.                                                                    *)
LEMMA ReadJob ==
    ASSUME CatalogTypeOK, NEW q \in CatalogRequest, NEW e \in Entity,
           NEW op \in Ops, NEW new \in Row, Read(q, op, e, new)
    PROVE  /\ job' = [job EXCEPT ![q] = job'[q]]
           /\ job'[q] \in Job
           /\ job'[q].step = "check" /\ job'[q].op = op /\ job'[q].id = e
           /\ job'[q].seen = row[e] /\ job'[q].new = new /\ job'[q].add = {}
<1>1. NoJob("check") \in Job /\ row[e] \in Row
  BY NoJobType DEF Steps, CatalogTypeOK
<1>2. job'[q] = [NoJob("check") EXCEPT !.op = op, !.id = e, !.seen = row[e],
                                       !.new = new]
  BY DEF Read, CatalogTypeOK
<1>3. job' = [job EXCEPT ![q] = job'[q]]
  BY DEF Read, CatalogTypeOK
<1> QED
  BY <1>1, <1>2, <1>3 DEF NoJob, Job

LEMMA AddJob ==
    ASSUME CatalogTypeOK, NEW q \in CatalogRequest, NEW e \in Entity,
           NEW new \in Row, Add(q, e, new)
    PROVE  /\ job' = [job EXCEPT ![q] = job'[q]]
           /\ job'[q] \in Job
           /\ job'[q].step = "check" /\ job'[q].op = "Create"
           /\ job'[q].id = e /\ job'[q].seen = NotStored
           /\ job'[q].new = new /\ job'[q].add = {}
<1>1. NoJob("check") \in Job
  BY NoJobType DEF Steps
<1>2. job'[q] = [NoJob("check") EXCEPT !.op = "Create", !.id = e, !.new = new]
  BY DEF Add, CatalogTypeOK
<1>3. job' = [job EXCEPT ![q] = job'[q]]
  BY DEF Add, CatalogTypeOK
<1> QED
  BY <1>1, <1>2, <1>3 DEF NoJob, Job, Ops

LEMMA CreateVacancyJob ==
    ASSUME CatalogTypeOK, NEW q \in CatalogRequest, NEW v \in Vacancy,
           CreateVacancy(q, v)
    PROVE  /\ job' = [job EXCEPT ![q] = job'[q]]
           /\ job'[q] \in Job
           /\ job'[q].step # "diff" /\ job'[q].op = "Create"
           /\ job'[q].id = v /\ job'[q].seen = NotStored
           /\ \E isActive \in BOOLEAN : job'[q].new = NewRow(isActive, 0)
           /\ row' = [row EXCEPT ![v] = job'[q].new]
           /\ job'[q].add = {}
<1>1. PICK isActive \in BOOLEAN, want \in SUBSET Competency :
         /\ row' = [row EXCEPT ![v] = NewRow(isActive, 0)]
         /\ job' = [job EXCEPT ![q] =
              [NoJob(IF want = {} THEN "log" ELSE "check") EXCEPT
                  !.op = "Create", !.id = v, !.new = NewRow(isActive, 0),
                  !.want = want, !.todo = want]]
  BY DEF CreateVacancy
<1>2. job'[q] = [NoJob(IF want = {} THEN "log" ELSE "check") EXCEPT
                    !.op = "Create", !.id = v, !.new = NewRow(isActive, 0),
                    !.want = want, !.todo = want]
  BY <1>1 DEF CatalogTypeOK
<1>3. NewRow(isActive, 0) \in Row
  BY RowTypes
<1>4. NoJob(IF want = {} THEN "log" ELSE "check") \in Job
  BY NoJobType DEF Steps
<1>5. job' = [job EXCEPT ![q] = job'[q]]
  BY <1>1 DEF CatalogTypeOK
<1>6. job'[q] \in Job
  BY <1>2, <1>3, <1>4 DEF Job, Ops
<1>7. /\ job'[q].step # "diff" /\ job'[q].op = "Create"
      /\ job'[q].id = v /\ job'[q].seen = NotStored
      /\ job'[q].new = NewRow(isActive, 0)
      /\ job'[q].add = {}
  BY <1>2 DEF NoJob
<1> QED
  BY <1>1, <1>5, <1>6, <1>7

LEMMA UpdateVacancyJob ==
    ASSUME CatalogTypeOK, NEW q \in CatalogRequest, NEW v \in Vacancy,
           UpdateVacancy(q, v)
    PROVE  /\ job' = [job EXCEPT ![q] = job'[q]]
           /\ job'[q] \in Job
           /\ job'[q].op = "Update" /\ job'[q].id = v
           /\ job'[q].seen = row[v] /\ job'[q].add = {}
           /\ row[v].stored
           /\ \E isActive \in BOOLEAN :
                 job'[q].new = [row[v] EXCEPT !.active = isActive]
           /\ UNCHANGED <<row, links, logged>>
<1>1. PICK isActive \in BOOLEAN, want \in SUBSET Competency :
         job' = [job EXCEPT ![q] = [NoJob("diff") EXCEPT
                    !.op = "Update", !.id = v, !.seen = row[v],
                    !.new = [row[v] EXCEPT !.active = isActive],
                    !.want = want]]
  BY DEF UpdateVacancy
<1>2. job'[q] = [NoJob("diff") EXCEPT
                    !.op = "Update", !.id = v, !.seen = row[v],
                    !.new = [row[v] EXCEPT !.active = isActive],
                    !.want = want]
  BY <1>1 DEF CatalogTypeOK
<1>3. row[v] \in Row /\ [row[v] EXCEPT !.active = isActive] \in Row
  BY DEF CatalogTypeOK, Row
<1>4. NoJob("diff") \in Job
  BY NoJobType DEF Steps
<1>5. job' = [job EXCEPT ![q] = job'[q]]
  BY <1>1 DEF CatalogTypeOK
<1>6. row[v].stored /\ UNCHANGED <<row, links, logged>>
  BY DEF UpdateVacancy
<1>7. job'[q] \in Job
  BY <1>2, <1>3, <1>4 DEF Job, Ops
<1>8. /\ job'[q].op = "Update" /\ job'[q].id = v
      /\ job'[q].seen = row[v] /\ job'[q].add = {}
      /\ job'[q].new = [row[v] EXCEPT !.active = isActive]
  BY <1>2 DEF NoJob
<1> QED
  BY <1>5, <1>6, <1>7, <1>8

LEMMA DiffLinksJob ==
    ASSUME CatalogTypeOK, DiffOfVacancy, NEW q \in CatalogRequest, DiffLinks(q)
    PROVE  /\ job' = [job EXCEPT ![q] = job'[q]]
           /\ job'[q] \in Job
           /\ job'[q].step = "check"
           /\ job'[q].op = job[q].op /\ job'[q].id = job[q].id
           /\ job'[q].seen = job[q].seen /\ job'[q].new = job[q].new
           /\ job'[q].add = job[q].add
<1>1. links[job[q].id] \in SUBSET Competency
  BY DEF DiffLinks, DiffOfVacancy, CatalogTypeOK
<1>2. job'[q] = [job[q] EXCEPT !.step = "check",
                    !.drop = links[job[q].id] \ job[q].want,
                    !.todo = job[q].want \ links[job[q].id]]
  BY DEF DiffLinks, CatalogTypeOK
<1>3. job[q] \in Job /\ job' = [job EXCEPT ![q] = job'[q]]
  BY DEF DiffLinks, CatalogTypeOK
<1> QED
  BY <1>1, <1>2, <1>3 DEF Job, Steps

LEMMA CheckLinkJob ==
    ASSUME CatalogTypeOK, NEW q \in CatalogRequest, CheckLink(q)
    PROVE  /\ job' = [job EXCEPT ![q] = job'[q]]
           /\ job'[q] \in Job
           /\ job'[q].step = "check"
           /\ job'[q].op = job[q].op /\ job'[q].id = job[q].id
           /\ job'[q].seen = job[q].seen /\ job'[q].new = job[q].new
           /\ \E k \in Competency : row[k].stored
                                    /\ job'[q].add = job[q].add \cup {k}
<1>1. PICK k \in job[q].todo :
         /\ row[k].stored
         /\ job' = [job EXCEPT ![q].todo = @ \ {k}, ![q].add = @ \cup {k}]
  BY DEF CheckLink
<1>2. job'[q] = [job[q] EXCEPT !.todo = @ \ {k}, !.add = @ \cup {k}]
  BY <1>1 DEF CatalogTypeOK
<1>3. job[q] \in Job /\ job' = [job EXCEPT ![q] = job'[q]]
  BY <1>1 DEF CatalogTypeOK
<1>4. job[q].step = "check"
  BY DEF CheckLink
<1>5. job'[q] \in Job /\ k \in Competency
  <2>1. k \in Competency
    BY <1>3 DEF Job
  <2>2. /\ job[q].todo \ {k} \in SUBSET Competency
        /\ job[q].add \cup {k} \in SUBSET Competency
    BY <1>3, <2>1 DEF Job
  <2> QED  BY <1>2, <1>3, <2>1, <2>2 DEF Job
<1>6. DOMAIN job[q] = {"step", "op", "id", "seen", "new", "want", "todo", "add",
                       "drop"}
  BY <1>3 DEF Job
<1>7. /\ job'[q].step = job[q].step
      /\ job'[q].op = job[q].op /\ job'[q].id = job[q].id
      /\ job'[q].seen = job[q].seen /\ job'[q].new = job[q].new
  BY <1>2, <1>6
<1>8. job'[q].add = job[q].add \cup {k}
  BY <1>2, <1>6
<1> QED
  BY <1>1, <1>3, <1>4, <1>5, <1>7, <1>8

LEMMA SaveNewLinksJob ==
    ASSUME CatalogTypeOK, NEW q \in CatalogRequest, SaveNewLinks(q)
    PROVE  /\ job' = [job EXCEPT ![q] = job'[q]]
           /\ job'[q] = [job[q] EXCEPT !.step = "log"]
           /\ job'[q] \in Job
<1>1. job'[q] = [job[q] EXCEPT !.step = "log"] /\ job[q] \in Job
  BY DEF SaveNewLinks, CatalogTypeOK
<1>2. job' = [job EXCEPT ![q] = job'[q]]
  BY DEF SaveNewLinks, CatalogTypeOK
<1> QED
  BY <1>1, <1>2 DEF Job, Steps

LEMMA RecordedType ==
    ASSUME NEW view \in LogView, NEW op \in Ops, NEW new \in Row
    PROVE  Recorded(view, op, new) \in LogView
BY DEF Recorded, LogView, Row

(* Whatever the requests do, the variables keep their types.               *)
LEMMA TypesStep == Types /\ [CatalogNext]_catalogVars => Types'
<1> SUFFICES ASSUME CatalogTypeOK, DiffOfVacancy, [CatalogNext]_catalogVars
             PROVE  CatalogTypeOK' /\ DiffOfVacancy'
  BY DEF Types
<1>1. CASE UNCHANGED catalogVars
  BY <1>1 DEF catalogVars, CatalogTypeOK, DiffOfVacancy
<1> SUFFICES ASSUME CatalogNext PROVE CatalogTypeOK' /\ DiffOfVacancy'
  BY <1>1
<1>2. ASSUME NEW q \in CatalogRequest, NEW e \in Entity, SoundRead(q, e)
      PROVE  CatalogTypeOK' /\ DiffOfVacancy'
  <2>1. PICK op \in Ops, new \in Row : Read(q, op, e, new)
    BY <1>2 DEF SoundRead
  <2> QED
    BY <2>1, ReadJob DEF Read, CatalogTypeOK, DiffOfVacancy
<1>3. ASSUME NEW q \in CatalogRequest, NEW e \in Entity, SoundAdd(q, e)
      PROVE  CatalogTypeOK' /\ DiffOfVacancy'
  <2>1. PICK new \in Row : Add(q, e, new)
    BY <1>3 DEF SoundAdd
  <2> QED
    BY <2>1, AddJob DEF Add, CatalogTypeOK, DiffOfVacancy
<1>4. ASSUME NEW q \in CatalogRequest, NEW v \in Vacancy, CreateVacancy(q, v)
      PROVE  CatalogTypeOK' /\ DiffOfVacancy'
  <2>1. UNCHANGED <<links, logged>> /\ job'[q].new \in Row
    BY <1>4, CreateVacancyJob DEF CreateVacancy, Job
  <2> QED
    BY <1>4, <2>1, CreateVacancyJob DEF CatalogTypeOK, DiffOfVacancy
<1>5. ASSUME NEW q \in CatalogRequest, NEW v \in Vacancy, UpdateVacancy(q, v)
      PROVE  CatalogTypeOK' /\ DiffOfVacancy'
  BY <1>5, UpdateVacancyJob DEF CatalogTypeOK, DiffOfVacancy
<1>6. ASSUME NEW q \in CatalogRequest, DiffLinks(q)
      PROVE  CatalogTypeOK' /\ DiffOfVacancy'
  <2>1. UNCHANGED <<row, links, logged>>
    BY <1>6 DEF DiffLinks
  <2> QED
    BY <1>6, <2>1, DiffLinksJob DEF CatalogTypeOK, DiffOfVacancy
<1>7. ASSUME NEW q \in CatalogRequest, CheckLink(q)
      PROVE  CatalogTypeOK' /\ DiffOfVacancy'
  <2>1. UNCHANGED <<row, links, logged>>
    BY <1>7 DEF CheckLink
  <2> QED
    BY <1>7, <2>1, CheckLinkJob DEF CatalogTypeOK, DiffOfVacancy
<1>8. ASSUME NEW q \in CatalogRequest, SaveNewLinks(q)
      PROVE  CatalogTypeOK' /\ DiffOfVacancy'
  <2>1. UNCHANGED <<row, logged>> /\ job[q].add \subseteq Competency
    BY <1>8 DEF SaveNewLinks, CatalogTypeOK, Job
  <2>2. links' \in [Vacancy -> SUBSET Competency]
    BY <1>8, <2>1 DEF SaveNewLinks, CatalogTypeOK
  <2>3. job'[q].step = "log"
    BY <1>8, SaveNewLinksJob DEF CatalogTypeOK, Job
  <2> QED
    BY <1>8, <2>1, <2>2, <2>3, SaveNewLinksJob DEF CatalogTypeOK, DiffOfVacancy
<1>9. ASSUME NEW q \in CatalogRequest, LogVacancy(q) \/ Save(q) \/ Abandon(q)
      PROVE  CatalogTypeOK' /\ DiffOfVacancy'
  <2>1. job[q] \in Job
    BY DEF CatalogTypeOK
  <2>2. job' \in [CatalogRequest -> Job] /\ DiffOfVacancy'
    BY <1>9, FinishTypes
    DEF LogVacancy, Save, Abandon, NoJob, DiffOfVacancy
  <2>3. row' \in [Entity -> Row]
    BY <1>9, <2>1 DEF LogVacancy, Save, Abandon, CatalogTypeOK, Job
  <2>4. links' \in [Vacancy -> SUBSET Competency]
    BY <1>9, <2>1 DEF LogVacancy, Save, Abandon, CatalogTypeOK, Job
  <2>5. job[q].op \in Ops /\ job[q].new \in Row /\ "Create" \in Ops
    BY <2>1 DEF Job, Ops
  <2>6. logged' \in [Entity -> LogView]
    BY <1>9, <2>5, RecordedType DEF LogVacancy, Save, Abandon, CatalogTypeOK
  <2> QED
    BY <2>2, <2>3, <2>4, <2>6 DEF CatalogTypeOK
<1> QED
  BY <1>2, <1>3, <1>4, <1>5, <1>6, <1>7, <1>8, <1>9, StepKinds

LEMMA TypesInit == CatalogInit => Types
<1> SUFFICES ASSUME CatalogInit PROVE Types
  OBVIOUS
<1>1. row \in [Entity -> Row]
  BY RowTypes DEF CatalogInit
<1>2. links \in [Vacancy -> SUBSET Competency]
  BY DEF CatalogInit
<1>3. logged \in [Entity -> LogView]
  BY <1>1 DEF CatalogInit, LogView, Row
<1>4. job \in [CatalogRequest -> Job]
  BY NoJobType DEF CatalogInit, Steps
<1>5. \A q \in CatalogRequest : job[q].step = "new"
  BY DEF CatalogInit, NoJob
<1> QED
  BY <1>1, <1>2, <1>3, <1>4, <1>5 DEF Types, CatalogTypeOK, DiffOfVacancy

(* The variables always have their types: no handler saves anything that   *)
(* is not a row of the table it saves to.                                  *)
THEOREM CatalogTypes == CatalogSpec => []CatalogTypeOK
<1>1. Types => CatalogTypeOK
  BY DEF Types
<1> QED  BY <1>1, TypesInit, TypesStep, PTL DEF CatalogSpec

-----------------------------------------------------------------------------
(* The safety invariants.                                                  *)

Grows == \A e \in Entity : row[e].stored => row'[e].stored

(* A step of request q leaves the other requests sound, as no row goes.    *)
LEMMA OtherJobs ==
    ASSUME CatalogTypeOK, JobsSound, NEW q \in CatalogRequest, Grows,
           job' = [job EXCEPT ![q] = job'[q]], JobSound(q)'
    PROVE  JobsSound'
<1> SUFFICES ASSUME NEW p \in CatalogRequest, p # q PROVE JobSound(p)'
  BY DEF JobsSound
<1>1. job'[p] = job[p]
  BY DEF CatalogTypeOK
<1>2. JobSound(p) /\ job[p].add \subseteq Entity
  BY DEF JobsSound, CatalogTypeOK, Job
<1> QED
  BY <1>1, <1>2 DEF JobSound, Grows

(* A step that writes no table.                                            *)
LEMMA QuietStep ==
    ASSUME CatalogTypeOK, Sound, NEW q \in CatalogRequest,
           UNCHANGED <<row, links, logged>>,
           job' = [job EXCEPT ![q] = job'[q]], JobSound(q)'
    PROVE  Sound'
<1>1. JobsSound'
  BY OtherJobs DEF Sound, Grows
<1> QED
  BY <1>1 DEF Sound, StampsAgree, ScaleInRange, LinksResolve, CreationLogged,
              UnstoredUnmarked

LEMMA IdleIsSound ==
    ASSUME CatalogTypeOK, NEW q \in CatalogRequest, Finish(q)
    PROVE  job' = [job EXCEPT ![q] = job'[q]] /\ JobSound(q)'
BY Disjoint DEF Finish, CatalogTypeOK, JobSound, NoJob

LEMMA ReadSound ==
    ASSUME CatalogTypeOK, Sound, NEW q \in CatalogRequest, NEW e \in Entity,
           SoundRead(q, e)
    PROVE  Sound'
<1>1. PICK op \in Ops \ {"Create"}, new \in Row :
         Read(q, op, e, new) /\ SoundChange(e, op, row[e], new)
  BY DEF SoundRead
<1>2. row[e].stored /\ UNCHANGED <<row, links, logged>>
  BY <1>1 DEF Read
<1>3. /\ job' = [job EXCEPT ![q] = job'[q]]
      /\ job'[q].op = op /\ job'[q].id = e /\ job'[q].seen = row[e]
      /\ job'[q].new = new /\ job'[q].add = {}
  BY <1>1, ReadJob
<1>4. StampedRow(e, row[e]) /\ (e \in Competency => row[e].maxScore \in 1 .. 5)
  BY <1>2 DEF Sound, StampsAgree, ScaleInRange, StampedRow
<1>5. JobSound(q)'
  BY <1>1, <1>2, <1>3, <1>4 DEF JobSound, SoundChange, StampedRow
<1> QED
  BY <1>2, <1>3, <1>5, QuietStep

LEMMA AddSound ==
    ASSUME CatalogTypeOK, Sound, NEW q \in CatalogRequest,
           NEW e \in Candidate \cup Competency, SoundAdd(q, e)
    PROVE  Sound'
<1>1. PICK new \in Row : Add(q, e, new) /\ SoundNew(e, new)
  BY DEF SoundAdd
<1>2. UNCHANGED <<row, links, logged>>
  BY <1>1 DEF Add
<1>3. /\ job' = [job EXCEPT ![q] = job'[q]]
      /\ job'[q].op = "Create" /\ job'[q].id = e /\ job'[q].seen = NotStored
      /\ job'[q].new = new /\ job'[q].add = {}
  BY <1>1, AddJob
<1>4. JobSound(q)'
  BY <1>1, <1>3, Disjoint
  DEF JobSound, SoundNew, StampedRow, NotStored, NewRow
<1> QED
  BY <1>2, <1>3, <1>4, QuietStep

LEMMA CreateVacancySound ==
    ASSUME CatalogTypeOK, Sound, NEW q \in CatalogRequest, NEW v \in Vacancy,
           CreateVacancy(q, v)
    PROVE  Sound'
<1>1. PICK isActive \in BOOLEAN :
         /\ job'[q].new = NewRow(isActive, 0)
         /\ row' = [row EXCEPT ![v] = job'[q].new]
  BY CreateVacancyJob
<1>2. /\ job' = [job EXCEPT ![q] = job'[q]]
      /\ job'[q].id = v /\ job'[q].seen = NotStored /\ job'[q].add = {}
  BY CreateVacancyJob
<1>3. UNCHANGED <<links, logged>>
  BY DEF CreateVacancy
<1>4. \A e \in Entity : row'[e] = IF e = v THEN NewRow(isActive, 0) ELSE row[e]
  BY <1>1 DEF CatalogTypeOK
<1>5. Grows
  BY <1>4 DEF Grows, NewRow
<1>6. JobSound(q)'
  BY <1>1, <1>2, <1>4, Disjoint DEF JobSound, StampedRow, NotStored, NewRow
<1>7. JobsSound'
  BY <1>2, <1>5, <1>6, OtherJobs DEF Sound
<1>8. StampsAgree' /\ UnstoredUnmarked'
  <2> DEFINE fresh == NewRow(isActive, 0)
  <2>1. /\ fresh.stored /\ ~fresh.deleted /\ ~fresh.deletedAt
        /\ ~fresh.archived /\ ~fresh.archivedAt
    BY DEF NewRow
  <2>2. StampsAgree /\ UnstoredUnmarked
    BY DEF Sound
  <2>3. fresh.deleted = fresh.deletedAt /\ fresh.archived = fresh.archivedAt
    BY DEF NewRow
  <2> HIDE DEF fresh
  <2>4. \A e \in Entity : row'[e] = IF e = v THEN fresh ELSE row[e]
    BY <1>4 DEF fresh
  <2>5. StampsAgree'
    BY <2>2, <2>3, <2>4 DEF StampsAgree
  <2>6. UnstoredUnmarked'
    BY <2>1, <2>2, <2>4 DEF UnstoredUnmarked
  <2> QED  BY <2>5, <2>6
<1>9. ScaleInRange'
  BY <1>4, Disjoint DEF Sound, ScaleInRange
<1>10. LinksResolve'
  BY <1>3, <1>5 DEF Sound, LinksResolve, Grows, CatalogTypeOK
<1>11. CreationLogged'
  BY <1>3, <1>4, Disjoint DEF Sound, CreationLogged
<1> QED
  BY <1>7, <1>8, <1>9, <1>10, <1>11 DEF Sound

LEMMA UpdateVacancySound ==
    ASSUME CatalogTypeOK, Sound, NEW q \in CatalogRequest, NEW v \in Vacancy,
           UpdateVacancy(q, v)
    PROVE  Sound'
<1>1. PICK isActive \in BOOLEAN :
         job'[q].new = [row[v] EXCEPT !.active = isActive]
  BY UpdateVacancyJob
<1>2. /\ job' = [job EXCEPT ![q] = job'[q]]
      /\ job'[q].id = v /\ job'[q].seen = row[v] /\ job'[q].add = {}
      /\ row[v].stored
      /\ UNCHANGED <<row, links, logged>>
  BY UpdateVacancyJob
<1>3. /\ job'[q].new.stored = row[v].stored
      /\ job'[q].new.deleted = row[v].deleted
      /\ job'[q].new.deletedAt = row[v].deletedAt
      /\ job'[q].new.archived = row[v].archived
      /\ job'[q].new.archivedAt = row[v].archivedAt
  BY <1>1 DEF CatalogTypeOK, Row
<1>4. JobSound(q)'
  BY <1>2, <1>3, Disjoint DEF JobSound, StampedRow, Sound, StampsAgree
<1> QED
  BY <1>2, <1>4, QuietStep

LEMMA DiffLinksSound ==
    ASSUME CatalogTypeOK, DiffOfVacancy, Sound, NEW q \in CatalogRequest,
           DiffLinks(q)
    PROVE  Sound'
<1>1. UNCHANGED <<row, links, logged>>
  BY DEF DiffLinks
<1>2. JobSound(q)'
  BY <1>1, DiffLinksJob DEF Sound, JobsSound, JobSound, StampedRow
<1> QED
  BY <1>1, <1>2, DiffLinksJob, QuietStep

LEMMA CheckLinkSound ==
    ASSUME CatalogTypeOK, Sound, NEW q \in CatalogRequest, CheckLink(q)
    PROVE  Sound'
<1>1. UNCHANGED <<row, links, logged>>
  BY DEF CheckLink
<1>2. JobSound(q)'
  BY <1>1, CheckLinkJob DEF Sound, JobsSound, JobSound, StampedRow
<1> QED
  BY <1>1, <1>2, CheckLinkJob, QuietStep

LEMMA SaveNewLinksSound ==
    ASSUME CatalogTypeOK, Sound, NEW q \in CatalogRequest, SaveNewLinks(q)
    PROVE  Sound'
<1> DEFINE v == job[q].id
<1>1. /\ v \in Vacancy /\ UNCHANGED <<row, logged>>
      /\ links' = [links EXCEPT ![v] = @ \cup job[q].add]
  BY DEF SaveNewLinks, CreatesVacancy
<1>2. row[v].stored /\ \A k \in job[q].add : row[k].stored
  BY <1>1 DEF Sound, JobsSound, JobSound
<1>3. LinksResolve'
  BY <1>1, <1>2 DEF Sound, LinksResolve, CatalogTypeOK
<1>4. /\ job'[q].op = job[q].op /\ job'[q].id = job[q].id
      /\ job'[q].seen = job[q].seen /\ job'[q].new = job[q].new
      /\ job'[q].add = job[q].add
  BY SaveNewLinksJob DEF CatalogTypeOK, Job
<1>5. JobSound(q)'
  BY <1>1, <1>4 DEF Sound, JobsSound, JobSound, StampedRow
<1>6. JobsSound'
  BY <1>1, <1>5, SaveNewLinksJob, OtherJobs DEF Sound, Grows
<1> QED
  BY <1>1, <1>3, <1>6 DEF Sound, StampsAgree, ScaleInRange, CreationLogged,
                          UnstoredUnmarked

LEMMA LogVacancySound ==
    ASSUME CatalogTypeOK, Sound, NEW q \in CatalogRequest, LogVacancy(q)
    PROVE  Sound'
<1>1. UNCHANGED <<row, links>> /\ Finish(q)
  BY DEF LogVacancy
<1>2. JobsSound'
  BY <1>1, IdleIsSound, OtherJobs DEF Sound, Grows
<1>3. \A e \in Entity : logged[e].created => logged'[e].created
  BY DEF LogVacancy, CatalogTypeOK, Recorded
<1> QED
  BY <1>1, <1>2, <1>3 DEF Sound, StampsAgree, ScaleInRange, LinksResolve,
                          CreationLogged, UnstoredUnmarked

LEMMA SaveSound ==
    ASSUME CatalogTypeOK, Sound, NEW q \in CatalogRequest, Save(q)
    PROVE  Sound'
<1> DEFINE e == job[q].id
           new == job[q].new
<1>1. \A x \in Entity : row'[x] = IF x = e THEN new ELSE row[x]
  BY DEF Save, CatalogTypeOK
<1>2. JobSound(q)
  BY DEF Sound, JobsSound
<1>3. Grows
  BY <1>1, <1>2 DEF Grows, JobSound
<1>4. JobsSound'
  BY <1>3, IdleIsSound, OtherJobs DEF Sound, Save
<1>5. StampsAgree'
  BY <1>1, <1>2 DEF Sound, StampsAgree, JobSound, StampedRow
<1>6. ScaleInRange'
  BY <1>1, <1>2 DEF Sound, ScaleInRange, JobSound
<1>7. UnstoredUnmarked'
  BY <1>1, <1>2 DEF Sound, UnstoredUnmarked, JobSound
<1>8. CreationLogged'
  <2> SUFFICES ASSUME NEW x \in Candidate \cup Competency, row'[x].stored
               PROVE  logged'[x].created
    BY DEF CreationLogged
  <2>1. logged[x].created => logged'[x].created
    BY DEF Save, CatalogTypeOK, Recorded
  <2>2. x = e /\ job[q].op = "Create" => logged'[x].created
    BY DEF Save, CatalogTypeOK, Recorded
  <2>3. x # e \/ job[q].op # "Create" => row[x].stored
    BY <1>1, <1>2 DEF JobSound
  <2> QED  BY <2>1, <2>2, <2>3 DEF Sound, CreationLogged
<1>9. LinksResolve'
  <2> SUFFICES ASSUME NEW v \in Vacancy, NEW k \in links'[v]
               PROVE  row'[v].stored /\ row'[k].stored
    BY DEF LinksResolve
  <2>1. CASE v = e
    <3>1. k \in links[v] \/ k \in job[q].add
      BY <2>1 DEF Save, CatalogTypeOK
    <3>2. k \in Entity
      BY <3>1 DEF CatalogTypeOK, Job
    <3>3. row[k].stored
      BY <1>2, <2>1, <3>1 DEF JobSound, Sound, LinksResolve
    <3>4. row'[v].stored
      BY <1>1, <1>2, <2>1 DEF JobSound
    <3> QED  BY <1>3, <3>2, <3>3, <3>4 DEF Grows
  <2>2. CASE v # e
    <3>1. k \in links[v] /\ k \in Entity
      BY <2>2 DEF Save, CatalogTypeOK
    <3>2. row[v].stored /\ row[k].stored
      BY <3>1 DEF Sound, LinksResolve
    <3> QED  BY <1>3, <3>1, <3>2 DEF Grows
  <2> QED  BY <2>1, <2>2
<1> QED
  BY <1>4, <1>5, <1>6, <1>7, <1>8, <1>9 DEF Sound

LEMMA SoundStep == Types /\ Sound /\ [CatalogNext]_catalogVars => Sound'
<1> SUFFICES ASSUME CatalogTypeOK, DiffOfVacancy, Sound,
                    [CatalogNext]_catalogVars
             PROVE  Sound'
  BY DEF Types
<1>1. CASE UNCHANGED catalogVars
  BY <1>1 DEF catalogVars, Sound, StampsAgree, ScaleInRange, LinksResolve,
              CreationLogged, UnstoredUnmarked, JobsSound, JobSound, StampedRow
<1>2. ASSUME NEW q \in CatalogRequest, Abandon(q)
      PROVE  Sound'
  BY <1>2, IdleIsSound, QuietStep DEF Abandon
<1> QED
  BY <1>1, <1>2, StepKinds, ReadSound, AddSound, CreateVacancySound,
     UpdateVacancySound, DiffLinksSound, CheckLinkSound, SaveNewLinksSound,
     LogVacancySound, SaveSound

LEMMA SoundInit == CatalogInit => Sound
<1> SUFFICES ASSUME CatalogInit PROVE Sound
  OBVIOUS
<1>1. PICK stored \in SUBSET Entity :
         row = [e \in Entity |-> IF e \in stored THEN FirstRow(e) ELSE NotStored]
  BY DEF CatalogInit
<1>2. StampsAgree /\ UnstoredUnmarked
  BY <1>1 DEF StampsAgree, UnstoredUnmarked, FirstRow, NotStored, NewRow
<1>3. ScaleInRange
  BY <1>1 DEF ScaleInRange, FirstRow, NotStored, NewRow
<1>4. LinksResolve
  BY DEF CatalogInit, LinksResolve
<1>5. CreationLogged
  BY DEF CatalogInit, CreationLogged
<1>6. JobsSound
  BY Disjoint DEF CatalogInit, JobsSound, JobSound, NoJob
<1> QED
  BY <1>2, <1>3, <1>4, <1>5, <1>6 DEF Sound

LEMMA Invariance == CatalogSpec => [](Types /\ Sound)
BY TypesInit, TypesStep, SoundInit, SoundStep, PTL DEF CatalogSpec

(* Marks and stamps agree in every table, whichever requests overlap.      *)
THEOREM StampsAlwaysAgree == CatalogSpec => []StampsAgree
<1>1. Sound => StampsAgree
  BY DEF Sound
<1> QED  BY <1>1, Invariance, PTL

(* Every competency has a scale of 1 to 5 points, whatever is submitted.   *)
THEOREM ScaleAlwaysInRange == CatalogSpec => []ScaleInRange
<1>1. Sound => ScaleInRange
  BY DEF Sound
<1> QED  BY <1>1, Invariance, PTL

(* Links of vacancies never dangle.                                        *)
THEOREM LinksAlwaysResolve == CatalogSpec => []LinksResolve
<1>1. Sound => LinksResolve
  BY DEF Sound
<1> QED  BY <1>1, Invariance, PTL

(* Candidates and competencies do not come into being behind the back of   *)
(* the audit log.                                                          *)
THEOREM CreationAlwaysLogged == CatalogSpec => []CreationLogged
<1>1. Sound => CreationLogged
  BY DEF Sound
<1> QED  BY <1>1, Invariance, PTL

-----------------------------------------------------------------------------
(* The action property.                                                    *)

(* The part of DeletionUndone that speaks of one step.                     *)
UndoneBySave ==
    \A e \in Entity : row[e].deleted /\ ~row'[e].deleted =>
        \E q \in CatalogRequest :
            Saves(q, e) /\ (job[q].op = "Restore" \/ ~job[q].seen.deleted)

(* Only CreateVacancy and Save write rows; a row that CreateVacancy writes *)
(* was not there.                                                          *)
LEMMA UndoneStep ==
    Types /\ Sound /\ [CatalogNext]_catalogVars => [UndoneBySave]_catalogVars
<1> SUFFICES ASSUME CatalogTypeOK, Sound, CatalogNext,
                    NEW e \in Entity, row[e].deleted, ~row'[e].deleted
             PROVE  \E q \in CatalogRequest :
                       /\ Saves(q, e)
                       /\ job[q].op = "Restore" \/ ~job[q].seen.deleted
  BY DEF UndoneBySave, Types
<1>1. PICK q \in CatalogRequest :
         (\E v \in Vacancy : CreateVacancy(q, v)) \/ Save(q)
  <2>1. row' # row
    OBVIOUS
  <2> QED
    BY <2>1, StepKinds
    DEF SoundRead, SoundAdd, Read, Add, UpdateVacancy, DiffLinks, CheckLink,
        SaveNewLinks, LogVacancy, Abandon
<1>2. ASSUME NEW v \in Vacancy, CreateVacancy(q, v) PROVE FALSE
  <2>1. ~row[v].stored /\ \A x \in Entity : x # v => row'[x] = row[x]
    BY <1>2 DEF CreateVacancy, CatalogTypeOK
  <2>2. ~row[v].deleted
    BY <2>1 DEF Sound, UnstoredUnmarked
  <2> QED  BY <2>1, <2>2
<1>3. CASE Save(q)
  <2>1. \A x \in Entity : row'[x] = IF x = job[q].id THEN job[q].new ELSE row[x]
    BY <1>3 DEF Save, CatalogTypeOK
  <2>2. job[q].id = e /\ ~job[q].new.deleted
    BY <2>1
  <2>3. job[q].op = "Restore" \/ ~job[q].seen.deleted
    BY <2>2 DEF Sound, JobsSound, JobSound
  <2>4. Saves(q, e)
    BY <1>3, <2>2 DEF Save, Saves, Finish, NoJob, CatalogTypeOK
  <2> QED  BY <2>3, <2>4
<1> QED  BY <1>1, <1>2, <1>3

(* A deleted row comes back by a restore or by a request that had read it  *)
(* before it was deleted, and in no other way.                             *)
THEOREM DeletionOnlyUndone == CatalogSpec => DeletionUndone
BY Invariance, UndoneStep, PTL DEF CatalogSpec, DeletionUndone, UndoneBySave

=============================================================================
