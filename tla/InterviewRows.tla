--------------------------- MODULE InterviewRows ----------------------------
(***************************************************************************)
(* Rows of the table interviews and what each operation of the API's       *)
(* InterviewService makes of one, as functions from the row read to the    *)
(* row saved.  The handlers that read and save are in Interviews; the      *)
(* promise they are held to is in InterviewBook.                           *)
(***************************************************************************)

(* Enumerations of DomainModels.cs.                                        *)
Status == {"Planned", "Completed", "Cancelled"}
Decision == {"Pending", "Hired", "Rejected", "NextStage", "TalentPool"}

(* A nullable field of a request that is null: the column keeps its value. *)
Keep == "keep"

Given(field, old) == IF field = Keep THEN old ELSE field

(* A new row: what CreateAsync sets and the defaults of the entity class.  *)
Planned(candidate, vacancy, interviewer, comment) ==
    [stored |-> TRUE, candidate |-> candidate, vacancy |-> vacancy,
     interviewer |-> interviewer, comment |-> comment,
     status |-> "Planned", decision |-> "Pending", archived |-> FALSE,
     deleted |-> FALSE, deletedAt |-> FALSE]

(* Mutated form: the update fills in a new entity, not the one it loaded.  *)
RebookedAfresh(r, candidate, vacancy, interviewer, comment) ==
    [stored |-> r.stored, candidate |-> candidate, vacancy |-> vacancy,
     interviewer |-> interviewer, comment |-> Given(comment, r.comment),
     status |-> "Planned", decision |-> "Pending", archived |-> FALSE,
     deleted |-> FALSE, deletedAt |-> FALSE]

(* UpdateAsync: the three references, whatever the state of the interview. *)
Rebooked(r, candidate, vacancy, interviewer, comment) ==
    [r EXCEPT !.candidate = candidate, !.vacancy = vacancy,
              !.interviewer = interviewer, !.comment = Given(comment, @)]

(* Mutated form: the decision is stored in the column of the status.       *)
StatusSetSwapped(r, status, decision, comment) ==
    [r EXCEPT !.status = Given(decision, status),
              !.comment = Given(comment, @)]

(* UpdateStatusAsync: any status after any status, and optionally a        *)
(* decision.                                                               *)
StatusSet(r, status, decision, comment) ==
    [r EXCEPT !.status = status, !.decision = Given(decision, @),
              !.comment = Given(comment, @)]

(* DecideAsync: a decision completes the interview.                        *)
Decided(r, decision, comment) ==
    [r EXCEPT !.decision = decision, !.status = "Completed",
              !.comment = Given(comment, @)]

(* DeleteAsync, RestoreAsync, ArchiveAsync, UnarchiveAsync.                *)
SoftDeleted(r) == [r EXCEPT !.deleted = TRUE, !.deletedAt = TRUE]
Undeleted(r) == [r EXCEPT !.deleted = FALSE, !.deletedAt = FALSE]
Archived(r, isArchived) == [r EXCEPT !.archived = isArchived]

=============================================================================
