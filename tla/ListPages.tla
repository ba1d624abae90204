----------------------------- MODULE ListPages -----------------------------
(***************************************************************************)
(* The pages of the React client that list candidates, vacancies,          *)
(* competencies and users (App.js), the archive page and the page of       *)
(* deleted entries (DeletedPage.js), over the tables of the API.           *)
(*                                                                         *)
(* Every handler is an async function of the render it was clicked in: it  *)
(* sends a request, awaits the answer and then sets the list to a value    *)
(* computed from the list of THAT render.  Whatever reached the list in    *)
(* between is overwritten.  DeletedPage passes a function to its setter    *)
(* instead and so works on the list as it is when the answer is handled.   *)
(*                                                                         *)
(* The lists are separate pieces of state, filled by separate requests,    *)
(* and no handler writes two of them, so a behaviour shows one list: kind  *)
(* says which.  Texts stand for the columns a form edits; of what a row    *)
(* says only the marks that the handlers look at are kept apart.           *)
(***************************************************************************)
EXTENDS Naturals

CONSTANTS
    Id, NoId,   \* identifiers of rows, and "none"
    NoRow,      \* what a list shows of a row it does not list
    Text,       \* what the text columns of a row can say
    Kind,       \* the lists considered
    Clicks,     \* how many requests the page sends in a behaviour
    Others      \* how many changes other clients commit in a behaviour

ASSUME ListPagesAssumption ==
    /\ NoId \notin Id
    /\ NoRow \notin [text : Text, archived : BOOLEAN,
                    status : {"open", "closed"}, guess : BOOLEAN]
    /\ Kind \subseteq {"candidate", "vacancy", "competency", "user"}
    /\ Clicks \in Nat
    /\ Others \in Nat

VARIABLES
    kind,      \* the list shown
    table,     \* table[i]: the row of the API's table
    list,      \* list[i]: what the page's list shows of i
    form,      \* the modal form, and the row it was opened on
    card,      \* whose card is open
    page,      \* the path: a list or the deleted entries
    bin,       \* what the deleted page lists
    fetch,     \* the request that fills the deleted page
    job,       \* job[q]: the q-th request, with what its handler captured
    others,    \* changes of other clients so far
    doubt,     \* history: ids changed since the list was last told of them
    binDoubt   \* history: the same for the deleted page

pagesVars == <<kind, table, list, form, card, page, bin, fetch, job,
               others, doubt, binDoubt>>

Request == 1..Clicks

-----------------------------------------------------------------------------
(* Rows of the tables and what the page keeps of them.  guess marks a row  *)
(* of the list one of whose fields did not come from the API.              *)
Row == [stored : BOOLEAN, text : Text, active : BOOLEAN, archived : BOOLEAN,
        deleted : BOOLEAN]

Status == {"open", "closed"}

Shown == [text : Text, archived : BOOLEAN, status : Status, guess : BOOLEAN]

View == [Id -> Shown \cup {NoRow}]

Listed(t, i) == t[i].stored /\ ~t[i].deleted

(* mapVacancyFromApi and its like.                                         *)
FromApi(r) ==
    [text |-> r.text, archived |-> r.archived,
     status |-> IF r.active /\ ~(kind = "vacancy" /\ r.archived)
                THEN "open" ELSE "closed",
     guess |-> FALSE]

Told(t) == [i \in Id |-> IF Listed(t, i) THEN FromApi(t[i]) ELSE NoRow]

Binned(t) == {i \in Id : t[i].stored /\ t[i].deleted}

-----------------------------------------------------------------------------
(* Requests.  base and seen are what the handler captured: the list, and   *)
(* the card that was open.  got is the answer; gone says that the page     *)
(* that waits for it has been left.  doubt and sure are history: ids       *)
(* changed since base was right, and whether the status in the form was    *)
(* the row's own and left alone.                                           *)
Ops == {"create", "update", "archive", "unarchive", "delete", "restore",
        "load"}

Job == [step : {"free", "sent", "answered", "done"},
        op : Ops, id : Id \cup {NoId}, text : Text \cup {NoId},
        status : Status, base : View, seen : Id \cup {NoId},
        ok : BOOLEAN, got : View, gone : BOOLEAN,
        doubt : SUBSET Id, sure : BOOLEAN]

Blank == [i \in Id |-> NoRow]

NoJob(step) ==
    [step |-> step, op |-> "load", id |-> NoId, text |-> NoId,
     status |-> "open", base |-> Blank, seen |-> NoId, ok |-> FALSE,
     got |-> Blank, gone |-> FALSE, doubt |-> {}, sure |-> FALSE]

Fetch == [step : {"idle", "sent", "answered", "failed"}, got : SUBSET Id,
          doubt : SUBSET Id]

NoFetch == [step |-> "idle", got |-> {}, doubt |-> {}]

InFlight(q) == job[q].step \in {"sent", "answered"}

(* Requests are numbered in the order they are sent.                       *)
Free(q) == /\ job[q].step = "free"
           /\ \A p \in Request : p < q => job[p].step # "free"

(* A click sends a request; the handler keeps the list of this render.     *)
Asked(op, i) ==
    [NoJob("sent") EXCEPT !.op = op, !.id = i, !.base = list,
                          !.seen = card, !.doubt = doubt]

Send(q, asked) == Free(q) /\ job' = [job EXCEPT ![q] = asked]

NoForm == [open |-> FALSE, id |-> NoId, status |-> "open", sure |-> FALSE]

(* The client has just read a table of rows in any state, on a list or on  *)
(* the path of the deleted page.                                           *)
PagesInit ==
    /\ kind \in Kind
    /\ \E stored, archived, deleted \in SUBSET Id, text \in Text,
          active \in BOOLEAN :
          /\ archived \subseteq stored /\ deleted \subseteq stored
          /\ kind # "vacancy" => active
          /\ kind = "user" => archived = {}
          /\ table = [i \in Id |-> [stored |-> i \in stored, text |-> text,
                        active |-> active, archived |-> i \in archived,
                        deleted |-> i \in deleted]]
    /\ list = Told(table)
    /\ form = NoForm /\ card = NoId
    /\ page \in {"list", "bin"} /\ bin = {}
    /\ fetch = IF page = "bin" THEN [NoFetch EXCEPT !.step = "sent"]
                               ELSE NoFetch
    /\ job = [q \in Request |-> NoJob("free")]
    /\ others = 0
    /\ doubt = {}
    /\ binDoubt = IF page = "bin" THEN Binned(table) ELSE {}

(* The deleted page comes into view, and goes.                             *)
Mount ==
    /\ bin' = {}
    /\ fetch' = [NoFetch EXCEPT !.step = "sent"]
    /\ binDoubt' = Binned(table)

Unmount ==
    /\ bin' = {}
    /\ fetch' = NoFetch
    /\ binDoubt' = {}

-----------------------------------------------------------------------------
(* Forms.  The overlay of an open form covers the page, the card replaces  *)
(* it.  Whether the card is in its editing mode is left out: the user can  *)
(* switch it between any two clicks.                                       *)
OnList == page = "list" /\ ~form.open /\ card = NoId

OpenAdd ==
    /\ OnList
    /\ form' = [NoForm EXCEPT !.open = TRUE]
    /\ UNCHANGED <<kind, table, list, card, page, bin, fetch, job,
                   others, doubt, binDoubt>>

(* Mutated forms of OpenEdit: the status is not taken from the row; the    *)
(* row is kept in place of its identifier.                                 *)
OpenEditUnset(i) ==
    /\ OnList /\ kind # "candidate"
    /\ list[i] # NoRow /\ ~list[i].archived
    /\ form' = [open |-> TRUE, id |-> i, status |-> "open",
                sure |-> i \notin doubt /\ ~list[i].guess]
    /\ UNCHANGED <<kind, table, list, card, page, bin, fetch, job,
                   others, doubt, binDoubt>>

OpenEditRow(i) ==
    /\ OnList /\ kind # "candidate"
    /\ list[i] # NoRow /\ ~list[i].archived
    /\ form' = [open |-> TRUE, id |-> list[i], status |-> "open",
                sure |-> FALSE]
    /\ UNCHANGED <<kind, table, list, card, page, bin, fetch, job,
                   others, doubt, binDoubt>>

(* Edit buttons are shown for rows that are not archived.                  *)
OpenEdit(i) ==
    /\ OnList /\ kind # "candidate"
    /\ list[i] # NoRow /\ ~list[i].archived
    /\ form' = [open |-> TRUE, id |-> i, status |-> list[i].status,
                sure |-> i \notin doubt /\ ~list[i].guess]
    /\ UNCHANGED <<kind, table, list, card, page, bin, fetch, job,
                   others, doubt, binDoubt>>

OpenCard(i) ==
    /\ OnList /\ kind = "candidate"
    /\ list[i] # NoRow /\ ~list[i].archived
    /\ card' = i
    /\ UNCHANGED <<kind, table, list, form, page, bin, fetch, job,
                   others, doubt, binDoubt>>

CloseForm ==
    /\ form.open
    /\ form' = NoForm
    /\ UNCHANGED <<kind, table, list, card, page, bin, fetch, job,
                   others, doubt, binDoubt>>

(* A card that opened over the deleted page gives way to it again.         *)
CloseCard ==
    /\ card # NoId
    /\ card' = NoId
    /\ IF page = "bin" THEN Mount
                       ELSE UNCHANGED <<bin, fetch, binDoubt>>
    /\ UNCHANGED <<kind, table, list, form, page, job, others, doubt>>

-----------------------------------------------------------------------------
(* Clicks that send a request.  Nothing disables a button while a request  *)
(* is in flight, and the form stays open until its answer.                 *)
Clicked(q, asked) ==
    /\ Send(q, asked)
    /\ UNCHANGED <<kind, table, list, form, page, bin, fetch, others,
                   doubt, binDoubt>>

Submit(q, text, status) ==
    /\ form.open
    /\ Clicked(q, [Asked(IF form.id = NoId THEN "create" ELSE "update",
                         form.id) EXCEPT
                      !.text = text, !.status = status,
                      !.sure = form.sure /\ status = form.status])
    /\ UNCHANGED card

handleSaveVacancy(q) ==
    /\ kind = "vacancy"
    /\ \E text \in Text, status \in Status : Submit(q, text, status)

handleSaveUser(q) ==
    /\ kind = "user"
    /\ \E text \in Text : Submit(q, text, "open")

handleSaveCompetency(q) ==
    /\ kind = "competency"
    /\ \E text \in Text : Submit(q, text, "open")

handleAddCandidate(q) ==
    /\ kind = "candidate"
    /\ \E text \in Text : Submit(q, text, "open")

handleSaveEdit(q) ==
    /\ card # NoId
    /\ \E text \in Text :
          Clicked(q, [Asked("update", card) EXCEPT !.text = text])
    /\ UNCHANGED card

(* The list decides between archiving and unarchiving.                     *)
Toggle(q, i) ==
    /\ list[i] # NoRow
    /\ Clicked(q, Asked(IF list[i].archived THEN "unarchive" ELSE "archive",
                        i))

handleArchiveVacancy(q) ==
    /\ kind = "vacancy" /\ OnList
    /\ \E i \in Id : Toggle(q, i)
    /\ UNCHANGED card

handleArchiveCompetency(q) ==
    /\ kind = "competency" /\ OnList
    /\ \E i \in Id : Toggle(q, i)
    /\ UNCHANGED card

handleArchiveCandidate(q) ==
    /\ kind = "candidate" /\ OnList
    /\ \E i \in Id : Toggle(q, i)
    /\ UNCHANGED card

(* The archive button of the card; with no row in the list the handler     *)
(* throws before it sends anything.  What the card itself shows is not     *)
(* modelled.                                                               *)
ArchiveFromCard(q) ==
    /\ card # NoId
    /\ Toggle(q, card)
    /\ UNCHANGED card

Remove(q, i) ==
    /\ Clicked(q, Asked("delete", i))
    /\ UNCHANGED card

handleDeleteVacancy(q) ==
    /\ kind = "vacancy" /\ OnList
    /\ \E i \in Id : list[i] # NoRow /\ ~list[i].archived /\ Remove(q, i)

handleDeleteCompetency(q) ==
    /\ kind = "competency" /\ OnList
    /\ \E i \in Id : list[i] # NoRow /\ ~list[i].archived /\ Remove(q, i)

handleDeleteUser(q) ==
    /\ kind = "user" /\ OnList
    /\ \E i \in Id : list[i] # NoRow /\ Remove(q, i)

handleDeleteCandidate(q) == card # NoId /\ Remove(q, card)

(* DeletedPage.                                                            *)
handleRestore(q) ==
    /\ page = "bin" /\ card = NoId
    /\ \E i \in bin :
          Clicked(q, [NoJob("sent") EXCEPT !.op = "restore", !.id = i])
    /\ UNCHANGED card

-----------------------------------------------------------------------------
(* A change of page closes forms and card and loads the lists again; the   *)
(* deleted page starts empty whenever it is shown, and answers meant for   *)
(* an earlier visit find it gone.  Only the fetch of the visit is kept.    *)
LeftAll(j) == [p \in Request |-> IF j[p].op = "restore"
                                 THEN [j[p] EXCEPT !.gone = TRUE] ELSE j[p]]

Reload(q) == [LeftAll(job) EXCEPT ![q] = NoJob("sent")]

GoTo(q, to) ==
    /\ Free(q)
    /\ page' = to
    /\ job' = Reload(q)
    /\ form' = NoForm /\ card' = NoId
    /\ UNCHANGED <<kind, table, list, others, doubt>>

GoToList(q) == GoTo(q, "list") /\ Unmount
GoToDeleted(q) == page = "list" /\ GoTo(q, "bin") /\ Mount

-----------------------------------------------------------------------------
(* The API.  A row changes in one transaction (its interleavings are the   *)
(* subject of Catalog and AuthService); from then on nobody who read it    *)
(* before knows it.                                                        *)
Doubted(j, i) == IF j.step = "sent" \/ j.ok
                 THEN [j EXCEPT !.doubt = @ \cup {i}] ELSE j

Touch(i) ==
    /\ doubt' = doubt \cup {i}
    /\ binDoubt' = binDoubt \cup {i}
    /\ form' = IF form.id = i THEN [form EXCEPT !.sure = FALSE] ELSE form
    /\ fetch' = IF fetch.step = "answered"
                THEN [fetch EXCEPT !.doubt = @ \cup {i}] ELSE fetch

(* What a request makes of the row, and the rows it is refused for.        *)
Applied(j, r) ==
    CASE j.op = "create" ->
            [stored |-> TRUE, text |-> j.text, active |-> j.status = "open",
             archived |-> FALSE, deleted |-> FALSE]
      [] j.op = "update" ->
            [r EXCEPT !.text = j.text, !.active = (j.status = "open"),
                      !.archived = @ /\ kind # "candidate"]
      [] j.op \in {"archive", "unarchive"} -> [r EXCEPT !.archived = ~@]
      [] j.op = "delete" -> [r EXCEPT !.deleted = TRUE]
      [] j.op = "restore" -> [r EXCEPT !.deleted = FALSE, !.archived = FALSE]

Accepts(j, r) ==
    CASE j.op = "create" -> ~r.stored
      [] j.op = "update" -> r.stored
      [] j.op = "archive" -> r.stored /\ ~r.archived
      [] j.op = "unarchive" -> r.stored /\ r.archived
      [] j.op = "delete" -> r.stored /\ ~r.deleted
      [] j.op = "restore" -> r.stored /\ (r.deleted \/ r.archived)
      [] OTHER -> FALSE

(* History: the answer of a create or an update tells all of the row, if   *)
(* the list the handler captured has a place for it and the row is not     *)
(* deleted; that of a delete tells that it is gone.                        *)
Tells(j, r) ==
    \/ j.op = "create"
    \/ j.op = "update" /\ ~r.deleted /\ j.base[j.id] # NoRow
    \/ j.op = "delete"
    \/ j.op = "restore"

(* The request is served.  The answer may be lost on its way: ok says      *)
(* whether the page gets it.  Of a request whose answer is an error only   *)
(* its kind and row matter, of one that was answered not what it sent.     *)
Refused(j) == [NoJob("answered") EXCEPT !.op = j.op, !.id = j.id]

Serve(q) ==
    LET j == job[q] IN
    /\ j.step = "sent"
    /\ \E i \in Id, ok \in BOOLEAN :
          LET r == Applied(j, table[i])
              heard == [j EXCEPT
                  !.step = "answered", !.ok = TRUE, !.id = i,
                  !.got = [Blank EXCEPT ![i] = FromApi(r)],
                  !.text = NoId, !.status = "open", !.sure = FALSE,
                  !.doubt = IF Tells(j, r) THEN @ \ {i} ELSE @]
          IN  /\ j.id \in {i, NoId} /\ Accepts(j, table[i])
              /\ table' = [table EXCEPT ![i] = r]
              /\ job' = [p \in Request |->
                            IF p # q THEN Doubted(job[p], i)
                            ELSE IF ok THEN heard ELSE Refused(j)]
              /\ Touch(i)
    /\ UNCHANGED <<kind, list, card, page, bin, others>>

(* The lists are read.                                                     *)
ServeLoad(q) ==
    /\ job[q].step = "sent" /\ job[q].op = "load"
    /\ job' = [job EXCEPT ![q] = [@ EXCEPT !.step = "answered", !.ok = TRUE,
                  !.got = Told(table), !.doubt = {}]]
    /\ UNCHANGED <<kind, table, list, form, card, page, bin, fetch, others,
                   doubt, binDoubt>>

ServeBin ==
    /\ fetch.step = "sent"
    /\ fetch' \in {[step |-> "answered", got |-> Binned(table), doubt |-> {}],
                   [step |-> "failed", got |-> {}, doubt |-> Id]}
    /\ UNCHANGED <<kind, table, list, form, card, page, bin, job,
                   others, doubt, binDoubt>>

(* Refused, or not delivered.                                              *)
Fail(q) ==
    /\ job[q].step = "sent"
    /\ job' = [job EXCEPT ![q] = Refused(@)]
    /\ UNCHANGED <<kind, table, list, form, card, page, bin, fetch, others,
                   doubt, binDoubt>>

(* Another client makes one of the same requests.                          *)
OtherClient ==
    /\ others < Others
    /\ \E i \in Id, op \in Ops \ {"load"}, text \in Text, status \in Status :
          LET j == [op |-> op, text |-> text, status |-> status]
              r == Applied(j, table[i])
          IN
          /\ kind # "vacancy" => status = "open"
          /\ kind = "user" => op \notin {"archive", "unarchive"}
          /\ Accepts(j, table[i])
          /\ table' = [table EXCEPT ![i] = r]
          /\ job' = [p \in Request |-> Doubted(job[p], i)]
          /\ Touch(i)
    /\ others' = others + 1
    /\ UNCHANGED <<kind, list, card, page, bin>>

-----------------------------------------------------------------------------
(* The answer is handled.  A failure only shows an alert.                  *)
End(q) ==
    /\ job[q].step = "answered"
    /\ job' = [job EXCEPT ![q] = NoJob("done")]
    /\ UNCHANGED <<kind, table, others>>

Alerted(q) ==
    /\ ~job[q].ok
    /\ End(q)
    /\ UNCHANGED <<list, form, card, page, bin, fetch, doubt,
                   binDoubt>>

(* The list becomes what the handler makes of the one it captured.         *)
Relist(q, new) ==
    /\ job[q].ok
    /\ End(q)
    /\ list' = new
    /\ doubt' = job[q].doubt

(* Mutated form of Saved: the row is put into the list in either case.     *)
Upserted(j, row) == [j.base EXCEPT ![j.id] = row]

(* A create adds a row, an update replaces one, if the captured list has   *)
(* it.                                                                     *)
Saved(j, row) ==
    [j.base EXCEPT ![j.id] =
        IF j.op = "update" /\ @ = NoRow THEN NoRow ELSE row]

(* Whatever form is open by now is closed, its entries gone.               *)
EndSave(q, row) ==
    /\ job[q].op \in {"create", "update"}
    /\ \/ /\ Relist(q, Saved(job[q], row))
          /\ form' = NoForm
          /\ UNCHANGED <<card, page, bin, fetch, binDoubt>>
       \/ Alerted(q)

EndSaveVacancy(q) ==
    kind = "vacancy" /\ EndSave(q, job[q].got[job[q].id])

EndSaveUser(q) ==
    kind = "user" /\ EndSave(q, job[q].got[job[q].id])

(* The new row of a competency has no archive mark.                        *)
EndSaveCompetency(q) ==
    /\ kind = "competency"
    /\ EndSave(q, [job[q].got[job[q].id] EXCEPT !.archived = FALSE,
                                                !.guess = TRUE])

EndAddCandidate(q) ==
    /\ kind = "candidate" /\ job[q].op = "create"
    /\ EndSave(q, job[q].got[job[q].id])

(* The card of the row that was saved is opened, wherever the user is now; *)
(* it replaces the deleted page.                                           *)
EndSaveEdit(q) ==
    /\ kind = "candidate" /\ job[q].op = "update"
    /\ \/ LET j == job[q] IN
          /\ j.ok /\ j.step = "answered"
          /\ list' = Saved(j, j.got[j.id])
          /\ doubt' = j.doubt
          /\ card' = j.id
          /\ job' = [LeftAll(job) EXCEPT ![q] = NoJob("done")]
          /\ Unmount
          /\ UNCHANGED <<kind, table, others, form, page>>
       \/ Alerted(q)

Turned(row) == [row EXCEPT !.archived = ~@]

EndArchive(q, row) ==
    /\ job[q].op \in {"archive", "unarchive"}
    /\ \/ /\ Relist(q, [job[q].base EXCEPT ![job[q].id] = row])
          /\ UNCHANGED <<form, card, page, bin, fetch, binDoubt>>
       \/ Alerted(q)

(* A vacancy taken out of the archive is shown as open, whatever it is.    *)
EndArchiveVacancy(q) ==
    LET row == job[q].base[job[q].id] IN
    /\ kind = "vacancy"
    /\ EndArchive(q, [Turned(row) EXCEPT
                        !.status = IF row.archived THEN "open" ELSE "closed",
                        !.guess = row.archived])

EndArchiveCompetency(q) ==
    /\ kind = "competency"
    /\ EndArchive(q, [Turned(job[q].base[job[q].id]) EXCEPT !.guess = FALSE])

EndArchiveCandidate(q) ==
    kind = "candidate" /\ EndArchive(q, Turned(job[q].base[job[q].id]))

EndDelete(q) ==
    /\ job[q].op = "delete"
    /\ \/ /\ Relist(q, [job[q].base EXCEPT ![job[q].id] = NoRow])
          /\ IF card # NoId /\ job[q].seen = job[q].id
             THEN /\ card' = NoId
                  /\ IF page = "bin" THEN Mount
                     ELSE UNCHANGED <<bin, fetch, binDoubt>>
             ELSE UNCHANGED <<card, bin, fetch, binDoubt>>
          /\ UNCHANGED <<form, page>>
       \/ Alerted(q)

EndDeleteVacancy(q) == kind = "vacancy" /\ EndDelete(q)
EndDeleteCompetency(q) == kind = "competency" /\ EndDelete(q)
EndDeleteUser(q) == kind = "user" /\ EndDelete(q)

(* The card that is open by now is closed, whosever it is.                 *)
EndDeleteCandidate(q) == kind = "candidate" /\ EndDelete(q)

(* Mutated form of EndRestore: the entry goes although the restore failed. *)
EndRestoreAlways(q) ==
    /\ job[q].op = "restore" /\ ~job[q].gone
    /\ End(q)
    /\ bin' = bin \ {job[q].id}
    /\ binDoubt' = IF job[q].id \in job[q].doubt
                   THEN binDoubt \cup {job[q].id} ELSE binDoubt \ {job[q].id}
    /\ UNCHANGED <<list, form, card, page, fetch, doubt>>

(* DeletedPage takes the entry off the list as it is now.                  *)
EndRestore(q) ==
    /\ job[q].op = "restore"
    /\ \/ /\ job[q].ok /\ ~job[q].gone
          /\ End(q)
          /\ bin' = bin \ {job[q].id}
          /\ binDoubt' = IF job[q].id \in job[q].doubt
                         THEN binDoubt \cup {job[q].id}
                         ELSE binDoubt \ {job[q].id}
          /\ UNCHANGED <<list, form, card, page, fetch, doubt>>
       \/ /\ job[q].ok /\ job[q].gone
          /\ End(q)
          /\ UNCHANGED <<list, form, card, page, bin, fetch, doubt,
                         binDoubt>>
       \/ Alerted(q)

(* A part of loadData that fails leaves an empty list; without the list of *)
(* users the old one stays.                                                *)
EndLoad(q) ==
    /\ job[q].op = "load"
    /\ \/ Relist(q, job[q].got)
       \/ /\ ~job[q].ok /\ kind # "user"
          /\ End(q)
          /\ list' = Blank
          /\ doubt' = Id
       \/ /\ ~job[q].ok /\ kind = "user"
          /\ End(q)
          /\ UNCHANGED <<list, doubt>>
    /\ UNCHANGED <<form, card, page, bin, fetch, binDoubt>>

EndLoadBin ==
    /\ fetch.step \in {"answered", "failed"}
    /\ bin' = fetch.got
    /\ binDoubt' = fetch.doubt
    /\ fetch' = NoFetch
    /\ UNCHANGED <<kind, table, list, form, card, page, job, others, doubt>>

-----------------------------------------------------------------------------
Click(q) ==
    \/ handleSaveVacancy(q) \/ handleSaveUser(q) \/ handleSaveCompetency(q)
    \/ handleAddCandidate(q) \/ handleSaveEdit(q)
    \/ handleArchiveVacancy(q) \/ handleArchiveCompetency(q)
    \/ handleArchiveCandidate(q) \/ ArchiveFromCard(q)
    \/ handleDeleteVacancy(q) \/ handleDeleteCompetency(q)
    \/ handleDeleteUser(q) \/ handleDeleteCandidate(q)
    \/ handleRestore(q)
    \/ GoToList(q) \/ GoToDeleted(q)

Answer(q) == Serve(q) \/ ServeLoad(q) \/ Fail(q)

Handle(q) ==
    \/ EndSaveVacancy(q) \/ EndSaveUser(q) \/ EndSaveCompetency(q)
    \/ EndAddCandidate(q) \/ EndSaveEdit(q)
    \/ EndArchiveVacancy(q) \/ EndArchiveCompetency(q)
    \/ EndArchiveCandidate(q)
    \/ EndDeleteVacancy(q) \/ EndDeleteCompetency(q) \/ EndDeleteUser(q)
    \/ EndDeleteCandidate(q)
    \/ EndRestore(q) \/ EndLoad(q)

PagesNext ==
    \/ OpenAdd \/ CloseForm \/ CloseCard
    \/ \E i \in Id : OpenEdit(i) \/ OpenCard(i)
    \/ \E q \in Request : Click(q) \/ Answer(q) \/ Handle(q)
    \/ ServeBin \/ EndLoadBin
    \/ OtherClient

PagesSpec == PagesInit /\ [][PagesNext]_pagesVars

-----------------------------------------------------------------------------
(* What every variable holds.                                              *)
PagesTypeOK ==
    /\ kind \in Kind
    /\ table \in [Id -> Row]
    /\ list \in View
    /\ form \in [open : BOOLEAN, id : Id \cup {NoId}, status : Status,
                 sure : BOOLEAN]
    /\ card \in Id \cup {NoId}
    /\ page \in {"list", "bin"}
    /\ bin \subseteq Id
    /\ fetch \in Fetch
    /\ job \in [Request -> Job]
    /\ others \in 0..Others
    /\ doubt \subseteq Id /\ binDoubt \subseteq Id

(* A shown row says what the stored one says; of the two fields the page   *)
(* makes up itself (the status of a vacancy taken out of the archive, the  *)
(* archive mark of a competency that was edited) nothing is claimed.       *)
Agrees(s, r) ==
    IF r.stored /\ ~r.deleted
    THEN /\ s # NoRow
         /\ s.text = r.text
         /\ s.archived = r.archived \/ (s.guess /\ kind = "competency")
         /\ s.status = FromApi(r).status \/ (s.guess /\ kind = "vacancy")
    ELSE s = NoRow

(* The list shows of a row what the table says of it, unless somebody (the *)
(* page itself included) has changed the row after the list or the list    *)
(* captured by the handler that wrote it was told of it, or the answer was *)
(* lost: the handlers' own computation never makes a row wrong, however    *)
(* late and in whatever order the answers come.                            *)
ListTellsTable == \A i \in Id \ doubt : Agrees(list[i], table[i])

(* The deleted page lists an entry exactly when it is deleted, but for     *)
(* those changed since the page was told: restoring several entries at     *)
(* once loses none, since each handler works on the list as it is.         *)
BinTellsTable ==
    page = "bin" /\ card = NoId =>
        \A i \in Id \ binDoubt : i \in bin <=> i \in Binned(table)

(* Saving a vacancy's form with the status it was opened with leaves the   *)
(* vacancy open or closed as it was, when the form was opened on a row the *)
(* list was right about and nobody has changed the vacancy since.          *)
UntouchedStatusKept ==
    [][\A q \in Request, i \in Id :
          (/\ job[q].step = "sent" /\ job'[q].step = "answered"
           /\ job[q].op = "update" /\ job[q].id = i /\ job[q].sure
           /\ i \notin job[q].doubt)
          => table'[i].active = table[i].active]_pagesVars

=============================================================================
