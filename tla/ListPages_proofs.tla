-------------------------- MODULE ListPages_proofs --------------------------
(***************************************************************************)
(* Theorems about the list pages, for any number of rows, of requests      *)
(* under way and of changes by other clients.                              *)
(*                                                                         *)
(* A handler writes a list that it computes from one captured long before. *)
(* That the list is right about every row that is not in doubt is thus     *)
(* inductive only together with the same claim about every list a handler  *)
(* holds or would write (Right), and the rows a save or a toggle is about  *)
(* (Formed).  The status in a form and the entries of the deleted page are *)
(* carried along in the same way.                                          *)
(***************************************************************************)
EXTENDS ListPages, TLAPS

(* FromApi and Agrees with the kind of list as a parameter.                *)
FromApiAs(r, k) ==
    [text |-> r.text, archived |-> r.archived,
     status |-> IF r.active /\ ~(k = "vacancy" /\ r.archived)
                THEN "open" ELSE "closed",
     guess |-> FALSE]

AgreesAs(s, r, k) ==
    IF r.stored /\ ~r.deleted
    THEN /\ s # NoRow
         /\ s.text = r.text
         /\ s.archived = r.archived \/ (s.guess /\ k = "competency")
         /\ s.status = FromApiAs(r, k).status \/ (s.guess /\ k = "vacancy")
    ELSE s = NoRow

(* The row that the handler of an answer puts into its list, and the list  *)
(* it writes.                                                              *)
SavedRow(j, k) ==
    IF k = "competency"
    THEN [j.got[j.id] EXCEPT !.archived = FALSE, !.guess = TRUE]
    ELSE j.got[j.id]

ToggledRow(j, k) ==
    LET row == j.base[j.id] IN
    IF k = "vacancy"
    THEN [Turned(row) EXCEPT !.status = IF row.archived THEN "open"
                                                        ELSE "closed",
                             !.guess = row.archived]
    ELSE IF k = "competency" THEN [Turned(row) EXCEPT !.guess = FALSE]
    ELSE Turned(row)

Result(j, k) ==
    IF j.op = "load" THEN j.got
    ELSE IF j.op \in {"create", "update"} THEN Saved(j, SavedRow(j, k))
    ELSE IF j.op \in {"archive", "unarchive"}
         THEN [j.base EXCEPT ![j.id] = ToggledRow(j, k)]
    ELSE [j.base EXCEPT ![j.id] = NoRow]

Toggles == {"archive", "unarchive"}
Saves == {"create", "update"}
Edits == Saves \cup Toggles \cup {"delete"}

Live(j) == j.step = "sent" \/ j.ok

(* What a request under way is about.                                      *)
Formed(j) ==
    /\ j.step = "sent" /\ j.op \in Saves => j.text \in Text
    /\ Live(j) /\ j.op \notin {"create", "load"} => j.id \in Id
    /\ Live(j) /\ j.op \in Toggles =>
          /\ j.base[j.id] \in Shown
          /\ j.op = "archive" <=> ~j.base[j.id].archived
    /\ j.ok /\ j.op \in Saves => j.id \in Id /\ j.got[j.id] \in Shown

(* What it would write is right about the rows that are not in doubt.      *)
Right(j, t, k) ==
    /\ j.step = "sent" /\ j.op \in Edits =>
          \A i \in Id \ j.doubt : AgreesAs(j.base[i], t[i], k)
    /\ j.ok /\ j.op # "restore" =>
          \A i \in Id \ j.doubt : AgreesAs(Result(j, k)[i], t[i], k)
    /\ j.ok /\ j.op = "restore" => j.id \in j.doubt \/ ~t[j.id].deleted
    /\ j.step = "sent" /\ j.op = "update" /\ j.sure =>
          j.id \in j.doubt \/ (j.status = "open" <=> t[j.id].active)

JobInv(j, t, k) == j \in Job /\ Formed(j) /\ Right(j, t, k)

Base == kind \in Kind /\ table \in [Id -> Row] /\ others \in 0..Others

JobsInv ==
    /\ job \in [Request -> Job]
    /\ \A q \in Request : JobInv(job[q], table, kind)

ListInv ==
    /\ list \in View /\ doubt \subseteq Id
    /\ \A i \in Id \ doubt : AgreesAs(list[i], table[i], kind)

FormInv ==
    /\ form \in [open : BOOLEAN, id : Id \cup {NoId}, status : Status,
                 sure : BOOLEAN]
    /\ form.sure => /\ form.id \in Id
                    /\ form.status = "open" <=> table[form.id].active

BinInv ==
    /\ card \in Id \cup {NoId} /\ page \in {"list", "bin"}
    /\ bin \subseteq Id /\ fetch \in Fetch /\ binDoubt \subseteq Id
    /\ fetch.step = "answered" =>
          \A i \in Id \ fetch.doubt : i \in fetch.got <=> i \in Binned(table)
    /\ fetch.step = "failed" => fetch.doubt = Id
    /\ page = "bin" /\ card = NoId =>
          \A i \in Id \ binDoubt : i \in bin <=> i \in Binned(table)

PagesInv == Base /\ JobsInv /\ ListInv /\ FormInv /\ BinInv

-----------------------------------------------------------------------------
(* Types of what the model is built from.                                  *)

LEMMA Constants == NoId \notin Id /\ NoRow \notin Shown
BY ListPagesAssumption DEF ListPagesAssumption, Shown, Status

LEMMA FromApiType ==
    \A r \in Row : FromApi(r) \in Shown /\ FromApi(r) = FromApiAs(r, kind)
BY DEF Row, FromApi, FromApiAs, Shown, Status

LEMMA AgreesIs == \A s, r : Agrees(s, r) <=> AgreesAs(s, r, kind)
BY DEF Agrees, AgreesAs, FromApi, FromApiAs

LEMMA FromApiRight ==
    ASSUME NEW r \in Row, r.stored, ~r.deleted
    PROVE  AgreesAs(FromApi(r), r, kind)
<1>1. FromApi(r) # NoRow
  BY FromApiType, Constants
<1>2. /\ FromApi(r).text = r.text
      /\ FromApi(r).archived = r.archived
      /\ FromApi(r).status = FromApiAs(r, kind).status
  BY FromApiType DEF FromApi
<1> QED
  BY <1>1, <1>2 DEF AgreesAs

LEMMA BlankType == Blank \in View /\ \A i \in Id : Blank[i] = NoRow
BY DEF Blank, View

LEMMA ToldType ==
    ASSUME NEW t \in [Id -> Row]
    PROVE  /\ Told(t) \in View
           /\ \A i \in Id : AgreesAs(Told(t)[i], t[i], kind)
<1>1. \A i \in Id : Told(t)[i] = IF Listed(t, i) THEN FromApi(t[i]) ELSE NoRow
  BY DEF Told
<1>2. Told(t) \in View
  BY FromApiType DEF Told, View
<1>3. \A i \in Id : AgreesAs(Told(t)[i], t[i], kind)
  <2> TAKE i \in Id
  <2>1. CASE Listed(t, i)
    BY <1>1, <2>1, FromApiRight DEF Listed
  <2>2. CASE ~Listed(t, i)
    BY <1>1, <2>2 DEF Listed, AgreesAs
  <2> QED
    BY <2>1, <2>2
<1> QED
  BY <1>2, <1>3

LEMMA NoJobType ==
    ASSUME NEW step \in {"free", "sent", "answered", "done"}
    PROVE  /\ NoJob(step) \in Job
           /\ NoJob(step).step = step /\ NoJob(step).op = "load"
           /\ NoJob(step).ok = FALSE /\ NoJob(step).doubt = {}
BY BlankType DEF NoJob, Job, Ops, Status

(* A request of nothing, or one that has failed, may say anything.         *)
LEMMA NoJobInv ==
    ASSUME NEW step \in {"free", "sent", "answered", "done"}, NEW t, NEW k
    PROVE  JobInv(NoJob(step), t, k)
BY NoJobType DEF JobInv, Formed, Right, Live, Edits, Saves, Toggles

LEMMA RefusedInv ==
    ASSUME NEW j \in Job, NEW t, NEW k
    PROVE  JobInv(Refused(j), t, k)
<1>1. /\ Refused(j) \in Job
      /\ Refused(j).step = "answered" /\ Refused(j).ok = FALSE
  BY NoJobType, BlankType DEF Refused, NoJob, Job, Status
<1> QED
  BY <1>1 DEF JobInv, Formed, Right, Live

LEMMA ToggledType ==
    ASSUME NEW j \in Job, NEW k, j.id \in Id, j.base[j.id] \in Shown
    PROVE  ToggledRow(j, k) \in Shown
BY DEF ToggledRow, Turned, Shown, Status

LEMMA ResultType ==
    ASSUME NEW j \in Job, NEW k, Formed(j), j.ok, j.op # "restore"
    PROVE  Result(j, k) \in View
<1>1. j.base \in View /\ j.got \in View /\ j.op \in Ops
  BY DEF Job
<1>2. CASE j.op \in Saves
  <2>1. SavedRow(j, k) \in Shown
    BY <1>2 DEF SavedRow, Formed, Shown
  <2> QED
    BY <1>1, <1>2, <2>1 DEF Result, Saved, Saves, View
<1>3. CASE j.op \in Toggles
  <2>1. ToggledRow(j, k) \in Shown /\ j.id \in Id
    BY <1>3, ToggledType DEF Formed, Live, Toggles
  <2> QED
    BY <1>1, <1>3, <2>1 DEF Result, Toggles, View
<1>4. CASE j.op = "load"
  BY <1>1, <1>4 DEF Result
<1>5. CASE j.op = "delete"
  BY <1>1, <1>5 DEF Result, View, Formed, Live
<1> QED
  BY <1>1, <1>2, <1>3, <1>4, <1>5 DEF Ops, Saves, Toggles

-----------------------------------------------------------------------------
(* Changes of a row.                                                       *)

(* Whoever else waits for an answer puts the changed row in doubt.         *)
LEMMA DoubtedInv ==
    ASSUME NEW j, NEW t \in [Id -> Row], NEW k, JobInv(j, t, k),
           NEW i \in Id, NEW r \in Row
    PROVE  JobInv(Doubted(j, i), [t EXCEPT ![i] = r], k)
<1> DEFINE d == [j EXCEPT !.doubt = @ \cup {i}]
           u == [t EXCEPT ![i] = r]
<1>1. j \in Job
  BY DEF JobInv
<1>2. CASE ~Live(j)
  BY <1>1, <1>2 DEF Doubted, Live, JobInv, Formed, Right
<1>3. CASE Live(j)
  <2>1. Doubted(j, i) = d
    BY <1>3 DEF Doubted, Live
  <2>2. /\ d \in Job
        /\ d.step = j.step /\ d.op = j.op /\ d.id = j.id /\ d.ok = j.ok
        /\ d.base = j.base /\ d.got = j.got /\ d.text = j.text
        /\ d.sure = j.sure /\ d.status = j.status
        /\ d.doubt = j.doubt \cup {i}
    BY <1>1 DEF Job
  <2>3. Formed(d)
    BY <2>2 DEF JobInv, Formed, Live
  <2>4. Result(d, k) = Result(j, k)
    BY <2>2 DEF Result, Saved, SavedRow, ToggledRow
  <2>5. /\ \A p \in Id \ d.doubt : p \notin j.doubt /\ u[p] = t[p]
        /\ d.id \in Id /\ d.id \notin d.doubt =>
              d.id \notin j.doubt /\ u[d.id] = t[d.id]
    BY <2>2
  <2>6. /\ d.step = "sent" /\ d.op \in Edits =>
              \A p \in Id \ d.doubt : AgreesAs(d.base[p], u[p], k)
        /\ d.ok /\ d.op # "restore" =>
              \A p \in Id \ d.doubt : AgreesAs(Result(d, k)[p], u[p], k)
    BY <2>2, <2>4, <2>5 DEF JobInv, Right
  <2>7. Live(d) /\ d.op \in {"restore", "update"} => d.id \in Id
    BY <2>3 DEF Formed
  <2>8. /\ d.ok /\ d.op = "restore" => d.id \in d.doubt \/ ~u[d.id].deleted
        /\ d.step = "sent" /\ d.op = "update" /\ d.sure =>
              d.id \in d.doubt \/ (d.status = "open" <=> u[d.id].active)
    BY <2>2, <2>5, <2>7 DEF JobInv, Right, Live
  <2> QED
    BY <2>1, <2>2, <2>3, <2>6, <2>8 DEF JobInv, Right
<1> QED
  BY <1>2, <1>3

(* What a request makes of a row.                                          *)
LEMMA AppliedType ==
    ASSUME NEW j \in Job, Formed(j), j.step = "sent", NEW r \in Row,
           Accepts(j, r)
    PROVE  Applied(j, r) \in Row
<1>1. j.op \in {"create", "update", "archive", "unarchive", "delete", "restore"}
  BY DEF Accepts
<1>2. CASE j.op = "create"
  BY <1>2 DEF Applied, Row, Formed, Saves
<1>3. CASE j.op = "update"
  BY <1>3 DEF Applied, Row, Formed, Saves
<1>4. CASE j.op \in {"archive", "unarchive"}
  BY <1>4 DEF Applied, Row
<1>5. CASE j.op = "delete"
  BY <1>5 DEF Applied, Row
<1>6. CASE j.op = "restore"
  BY <1>6 DEF Applied, Row
<1> QED
  BY <1>1, <1>2, <1>3, <1>4, <1>5, <1>6

(* The rows in doubt once it has been granted, and the answer to it, as    *)
(* Serve has it.                                                           *)
StillDoubted(j, i, r) == IF Tells(j, r) THEN j.doubt \ {i} ELSE j.doubt

Heard(j, i, r) ==
    [j EXCEPT !.step = "answered", !.ok = TRUE, !.id = i,
              !.got = [Blank EXCEPT ![i] = FromApi(r)],
              !.text = NoId, !.status = "open", !.sure = FALSE,
              !.doubt = StillDoubted(j, i, r)]

(* What a save puts into the list, if the row can be listed.               *)
LEMMA SavedRight ==
    ASSUME NEW j \in Job, NEW r \in Row, r.stored, ~r.deleted,
           j.got[j.id] = FromApi(r)
    PROVE  AgreesAs(SavedRow(j, kind), r, kind)
<1>1. /\ FromApi(r) \in Shown
      /\ AgreesAs(FromApi(r), r, kind)
  BY FromApiRight, FromApiType
<1>2. CASE kind = "competency"
  <2>1. SavedRow(j, kind) = [FromApi(r) EXCEPT !.archived = FALSE, !.guess = TRUE]
    BY <1>2 DEF SavedRow
  <2>2. /\ SavedRow(j, kind) \in Shown
        /\ SavedRow(j, kind).text = FromApi(r).text
        /\ SavedRow(j, kind).status = FromApi(r).status
        /\ SavedRow(j, kind).guess = TRUE
    BY <1>1, <2>1 DEF Shown
  <2>3. FromApi(r).text = r.text /\ FromApi(r).status = FromApiAs(r, kind).status
    BY FromApiType DEF FromApi
  <2> QED
    BY <1>2, <2>2, <2>3, Constants DEF AgreesAs
<1>3. CASE kind # "competency"
  BY <1>1, <1>3 DEF SavedRow
<1> QED
  BY <1>2, <1>3

(* The row that was changed, in the list that the handler will write.      *)
LEMMA HeardRow ==
    ASSUME NEW j \in Job, NEW i \in Id, NEW o \in Row, NEW r \in Row,
           Formed(j), j.step = "sent", j.op # "restore",
           j.id \in {i, NoId}, Accepts(j, o), r = Applied(j, o),
           NEW h \in Job, h.ok = TRUE, h.id = i, h.op = j.op,
           h.base = j.base, h.got[i] = FromApi(r),
           h.doubt = StillDoubted(j, i, r),
           i \notin h.doubt,
           i \in j.doubt \/ (j.op \in Edits => AgreesAs(j.base[i], o, kind))
    PROVE  AgreesAs(Result(h, kind)[i], r, kind)
<1>2. j.base \in View /\ j.op \in Ops
  BY DEF Job
<1>3. CASE j.op = "create"
  <2>1. r.stored /\ ~r.deleted
    BY <1>3 DEF Applied
  <2>3. Result(h, kind)[i] = SavedRow(h, kind)
    BY <1>2, <1>3 DEF Result, Saved, Saves, View
  <2>4. AgreesAs(SavedRow(h, kind), r, kind)
    BY <2>1, SavedRight
  <2> QED
    BY <2>3, <2>4
<1>4. CASE j.op = "update"
  <2>1. /\ j.id = i /\ o.stored
        /\ r.stored /\ (r.deleted <=> o.deleted)
    BY <1>4, Constants
    DEF Formed, Live, Accepts, Applied, Row
  <2>2. Result(h, kind)[i] = IF j.base[i] = NoRow THEN NoRow
                             ELSE SavedRow(h, kind)
    BY <1>2, <1>4 DEF Result, Saved, Saves, View
  <2>3. CASE ~r.deleted /\ j.base[i] # NoRow
    <3>1. AgreesAs(SavedRow(h, kind), r, kind)
      BY <2>1, <2>3, SavedRight
    <3> QED
      BY <2>2, <2>3, <3>1
  <2>4. CASE r.deleted \/ j.base[i] = NoRow
    <3>1. ~Tells(j, r)
      BY <1>4, <2>1, <2>4 DEF Tells, StillDoubted
    <3>2. AgreesAs(j.base[i], o, kind)
      BY <1>4, <3>1 DEF Edits, Saves, StillDoubted
    <3>3. r.deleted /\ j.base[i] = NoRow
      BY <2>1, <2>4, <3>2 DEF AgreesAs
    <3> QED
      BY <2>2, <3>3 DEF AgreesAs
  <2> QED
    BY <2>3, <2>4
<1>5. CASE j.op \in Toggles
  <2>1. /\ j.id = i /\ j.base[i] \in Shown
        /\ j.op = "archive" <=> ~j.base[i].archived
    BY <1>5, Constants DEF Formed, Live, Toggles
  <2>2. /\ o.stored /\ (o.archived <=> j.base[i].archived)
        /\ r = [o EXCEPT !.archived = ~o.archived]
    BY <1>5, <2>1 DEF Accepts, Applied, Toggles, Row
  <2>3. ~Tells(j, r)
    BY <1>5 DEF Tells, Toggles, StillDoubted
  <2>4. AgreesAs(j.base[i], o, kind)
    BY <1>5, <2>3 DEF Edits, StillDoubted
  <2>5. ~o.deleted /\ j.base[i].text = o.text
        /\ (j.base[i].status = FromApiAs(o, kind).status
              \/ (j.base[i].guess /\ kind = "vacancy"))
    BY <2>1, <2>2, <2>4, Constants DEF AgreesAs
  <2>6. Result(h, kind)[i] = ToggledRow(h, kind)
    BY <1>2, <1>5 DEF Result, Saves, Toggles, View
  <2>7. ToggledRow(h, kind) # NoRow
    BY <2>1, ToggledType, Constants
  <2>8. /\ r.stored /\ ~r.deleted /\ r.text = o.text
        /\ r.active = o.active /\ r.archived = ~o.archived
    BY <2>2, <2>5 DEF Row
  <2>9. /\ ToggledRow(h, kind).text = r.text
        /\ ToggledRow(h, kind).archived = r.archived
    BY <2>1, <2>2, <2>5, <2>8 DEF ToggledRow, Turned, Shown, Row
  <2>10. \/ ToggledRow(h, kind).status = FromApiAs(r, kind).status
         \/ ToggledRow(h, kind).guess /\ kind = "vacancy"
    <3>1. CASE kind = "vacancy"
      BY <2>1, <2>2, <2>8, <3>1
      DEF ToggledRow, Turned, Shown, Row, FromApiAs
    <3>2. CASE kind # "vacancy"
      BY <2>1, <2>5, <2>8, <3>2
      DEF ToggledRow, Turned, Shown, FromApiAs
    <3> QED
      BY <3>1, <3>2
  <2> QED
    BY <2>6, <2>7, <2>8, <2>9, <2>10 DEF AgreesAs
<1>6. CASE j.op = "delete"
  <2>1. Result(h, kind)[i] = NoRow
    BY <1>2, <1>6 DEF Result, Saves, Toggles, View
  <2>2. r.deleted
    BY <1>6 DEF Applied, Row
  <2> QED
    BY <2>1, <2>2 DEF AgreesAs
<1> QED
  BY <1>2, <1>3, <1>4, <1>5, <1>6 DEF Ops, Toggles, Accepts

(* A request that is granted: what its handler would write is right about  *)
(* the table as the request leaves it.                                     *)
LEMMA HeardInv ==
    ASSUME NEW j, NEW t \in [Id -> Row], JobInv(j, t, kind), j.step = "sent",
           NEW i \in Id, j.id \in {i, NoId}, Accepts(j, t[i])
    PROVE  JobInv(Heard(j, i, Applied(j, t[i])),
                  [t EXCEPT ![i] = Applied(j, t[i])], kind)
<1> DEFINE r == Applied(j, t[i])
           h == Heard(j, i, r)
           u == [t EXCEPT ![i] = r]
<1>1. j \in Job /\ Formed(j) /\ Right(j, t, kind) /\ t[i] \in Row
  BY DEF JobInv
<1>2. r \in Row
  BY <1>1, AppliedType
<1>3. /\ h \in Job /\ h.step = "answered" /\ h.ok = TRUE /\ h.id = i
      /\ h.op = j.op /\ h.base = j.base
      /\ h.got \in View /\ h.got[i] = FromApi(r)
      /\ h.doubt = StillDoubted(j, i, r)
  <2> DEFINE g == [Blank EXCEPT ![i] = FromApi(r)]
             d == StillDoubted(j, i, r)
  <2> HIDE DEF r
  <2>1. g \in View /\ g[i] = FromApi(r)
    BY <1>2, FromApiType, BlankType DEF View
  <2>2. d \in SUBSET Id
    BY <1>1 DEF Job, StillDoubted
  <2>3. h = [j EXCEPT !.step = "answered", !.ok = TRUE, !.id = i,
                      !.got = g, !.text = NoId, !.status = "open",
                      !.sure = FALSE, !.doubt = d]
    BY DEF Heard
  <2> HIDE DEF g, d, h
  <2>4. /\ h \in Job /\ h.step = "answered" /\ h.ok = TRUE /\ h.id = i
        /\ h.op = j.op /\ h.base = j.base /\ h.got = g /\ h.doubt = d
    BY <1>1, <2>1, <2>2, <2>3 DEF Job, Status
  <2> QED
    BY <2>1, <2>4 DEF d
<1>4. /\ u \in [Id -> Row] /\ u[i] = r
      /\ \A x \in Id \ {i} : u[x] = t[x]
  BY <1>2
<1>5. /\ j.op \in Edits \cup {"restore"}
      /\ j.op # "create" => j.id = i
  BY <1>1, Constants
  DEF Accepts, Edits, Saves, Toggles, Formed, Live
<1>6. r.deleted = FALSE \/ j.op # "restore"
  BY <1>1 DEF Applied, Row
<1> HIDE DEF h, u
<1>7. Formed(h)
  <2>1. FromApi(r) \in Shown
    BY <1>2, FromApiType
  <2>2. j.op \in Toggles => /\ h.base[h.id] \in Shown
                            /\ j.op = "archive" <=> ~h.base[h.id].archived
    BY <1>1, <1>3, <1>5 DEF Formed, Live, Toggles
  <2> QED
    BY <1>3, <2>1, <2>2 DEF Formed, Live
<1> HIDE DEF r
<1>8. j.op # "restore" =>
          \A x \in Id \ h.doubt : AgreesAs(Result(h, kind)[x], u[x], kind)
  <2> SUFFICES ASSUME j.op # "restore", NEW x \in Id, x \notin h.doubt
               PROVE  AgreesAs(Result(h, kind)[x], u[x], kind)
    OBVIOUS
  <2>1. j.op \in Edits /\ (x \in j.doubt \/ AgreesAs(j.base[x], t[x], kind))
    BY <1>1, <1>5 DEF Right
  <2>2. CASE x = i
    <3>1. i \in j.doubt \/ (j.op \in Edits => AgreesAs(j.base[i], t[i], kind))
      BY <2>1, <2>2
    <3>2. AgreesAs(Result(h, kind)[i], r, kind)
      BY <1>1, <1>2, <1>3, <2>2, <3>1, HeardRow DEF r
    <3> QED
      BY <1>4, <2>2, <3>2
  <2>3. CASE x # i
    <3>1. x \notin j.doubt
      BY <1>3, <2>3 DEF StillDoubted
    <3>2. Result(h, kind)[x] = j.base[x]
      BY <1>1, <1>3, <2>1, <2>3
      DEF Result, Saved, Edits, Saves, Toggles, Job, View
    <3> QED
      BY <1>4, <2>1, <2>3, <3>1, <3>2
  <2> QED
    BY <2>2, <2>3
<1>9. Right(h, u, kind)
  BY <1>3, <1>4, <1>6, <1>8 DEF Right
<1>10. JobInv(h, u, kind)
  BY <1>3, <1>7, <1>9 DEF JobInv
<1> QED
  BY <1>10 DEF h, u, r

-----------------------------------------------------------------------------
(* Clicks.                                                                 *)

(* Only one request changes, and the rows do not.                          *)
LEMMA SetJobInv ==
    ASSUME Base, JobsInv, NEW q \in Request, NEW n, JobInv(n, table, kind),
           job' = [job EXCEPT ![q] = n], UNCHANGED <<kind, table, others>>
    PROVE  Base' /\ JobsInv'
<1>1. Base'
  BY DEF Base
<1>2. n \in Job
  BY DEF JobInv
<1>3. job' \in [Request -> Job]
  BY <1>2 DEF JobsInv
<1>4. ASSUME NEW p \in Request
      PROVE  JobInv(job'[p], table, kind)
  <2>1. CASE p = q
    BY <2>1 DEF JobsInv
  <2>2. CASE p # q
    BY <2>2 DEF JobsInv
  <2> QED
    BY <2>1, <2>2
<1>5. JobsInv'
  <2>1. table' = table /\ kind' = kind
    OBVIOUS
  <2> QED
    BY <1>3, <1>4, <2>1 DEF JobsInv
<1> QED
  BY <1>1, <1>5

(* What was left alone still holds.                                        *)
LEMMA SameList ==
    ASSUME ListInv, UNCHANGED <<kind, table, list, doubt>>
    PROVE  ListInv'
<1> USE DEF ListInv
<1> QED
  OBVIOUS

LEMMA SameForm ==
    ASSUME FormInv, UNCHANGED <<table, form>>
    PROVE  FormInv'
BY DEF FormInv

LEMMA SameBin ==
    ASSUME BinInv, UNCHANGED <<table, card, page, bin, fetch, binDoubt>>
    PROVE  BinInv'
BY DEF BinInv, Binned

(* A request carries the list of the render it was clicked in.             *)
LEMMA SentInv ==
    ASSUME Base, ListInv, NEW n \in Job,
           n.step = "sent", n.ok = FALSE, n.op \in Edits,
           n.base = list, n.doubt = doubt,
           n.op \in Saves => n.text \in Text,
           n.op # "create" => n.id \in Id,
           n.op \in Toggles => /\ list[n.id] \in Shown
                               /\ n.op = "archive" <=> ~list[n.id].archived,
           n.op = "update" /\ n.sure =>
               n.id \in doubt \/ (n.status = "open" <=> table[n.id].active)
    PROVE  JobInv(n, table, kind)
<1>1. Formed(n)
  BY DEF Formed, Live
<1>2. Right(n, table, kind)
  BY DEF Right, ListInv
<1> QED
  BY <1>1, <1>2 DEF JobInv

LEMMA ClickedInv ==
    ASSUME PagesInv, NEW q \in Request, NEW n, JobInv(n, table, kind),
           Clicked(q, n), card' = card
    PROVE  PagesInv'
<1>1. Base' /\ JobsInv'
  BY SetJobInv DEF Clicked, Send, PagesInv
<1>2. ListInv'
  BY SameList DEF Clicked, PagesInv
<1>3. FormInv'
  BY SameForm DEF Clicked, PagesInv
<1>4. BinInv'
  BY SameBin DEF Clicked, PagesInv
<1> QED
  BY <1>1, <1>2, <1>3, <1>4 DEF PagesInv

(* A form that is submitted carries the status it was opened with.         *)
LEMMA SubmitInv ==
    ASSUME PagesInv, NEW q \in Request, NEW text \in Text,
           NEW status \in Status, Submit(q, text, status)
    PROVE  PagesInv'
<1> DEFINE op == IF form.id = NoId THEN "create" ELSE "update"
           a == Asked(op, form.id)
           n == [a EXCEPT !.text = text, !.status = status,
                          !.sure = form.sure /\ status = form.status]
<1>1. Base /\ ListInv /\ BinInv /\ FormInv
  BY DEF PagesInv
<1>2. op \in Ops /\ form.id \in Id \cup {NoId} /\ form.sure \in BOOLEAN
  BY <1>1 DEF Ops, FormInv
<1>3. /\ a \in Job /\ a.step = "sent" /\ a.ok = FALSE /\ a.op = op
      /\ a.id = form.id /\ a.base = list /\ a.doubt = doubt
  BY <1>1, <1>2, NoJobType
  DEF Asked, NoJob, Job, ListInv, BinInv
<1> HIDE DEF a
<1>4. /\ n \in Job /\ n.step = "sent" /\ n.ok = FALSE /\ n.op = op
      /\ n.id = form.id /\ n.base = list /\ n.doubt = doubt
      /\ n.text = text /\ n.status = status
      /\ n.sure <=> form.sure /\ status = form.status
  BY <1>2, <1>3 DEF Job, Status
<1> HIDE DEF n
<1>5. n.op \in {"create", "update"}
      /\ (n.op = "update" => n.id \in Id)
      /\ (n.op = "update" /\ n.sure =>
              (n.status = "open" <=> table[n.id].active))
  BY <1>1, <1>2, <1>4 DEF FormInv
<1>6. JobInv(n, table, kind)
  BY <1>1, <1>4, <1>5, SentInv DEF Edits, Saves, Toggles
<1>7. Clicked(q, n) /\ card' = card
  BY DEF Submit, n, a
<1> QED
  BY <1>6, <1>7, ClickedInv

LEMMA SaveEditInv ==
    ASSUME PagesInv, NEW q \in Request, handleSaveEdit(q)
    PROVE  PagesInv'
<1>1. Base /\ ListInv /\ BinInv /\ card \in Id
      /\ card \in Id \cup {NoId} /\ "update" \in Ops
  BY DEF PagesInv, BinInv, handleSaveEdit, Ops
<1>2. PICK text \in Text :
          Clicked(q, [Asked("update", card) EXCEPT !.text = text])
          /\ card' = card
  BY DEF handleSaveEdit
<1> DEFINE a == Asked("update", card)
           n == [a EXCEPT !.text = text]
<1>3. /\ a \in Job /\ a.step = "sent" /\ a.ok = FALSE /\ a.op = "update"
      /\ a.id = card /\ a.base = list /\ a.doubt = doubt /\ a.sure = FALSE
  BY <1>1, NoJobType
  DEF Asked, NoJob, Job, ListInv, BinInv
<1> HIDE DEF a
<1>4. /\ n \in Job /\ n.step = "sent" /\ n.ok = FALSE /\ n.op = "update"
      /\ n.id = card /\ n.base = list /\ n.doubt = doubt
      /\ n.text = text /\ n.sure = FALSE
  BY <1>3 DEF Job
<1> HIDE DEF n
<1>5. JobInv(n, table, kind)
  BY <1>1, <1>4, SentInv DEF Edits, Saves, Toggles
<1> QED
  BY <1>2, <1>5, ClickedInv DEF n, a

(* The list the user sees decides which of the two a toggle asks for.      *)
LEMMA ToggleInv ==
    ASSUME PagesInv, NEW q \in Request, NEW i \in Id, Toggle(q, i),
           card' = card
    PROVE  PagesInv'
<1> DEFINE op == IF list[i].archived THEN "unarchive" ELSE "archive"
           n == Asked(op, i)
<1>1. Base /\ ListInv /\ BinInv /\ list[i] \in Shown
  BY DEF PagesInv, ListInv, View, Toggle
<1>2. op \in Ops /\ i \in Id \cup {NoId}
  BY DEF Ops
<1> HIDE DEF op
<1>3. /\ n \in Job /\ n.step = "sent" /\ n.ok = FALSE /\ n.op = op
      /\ n.id = i /\ n.base = list /\ n.doubt = doubt
  BY <1>1, <1>2, NoJobType
  DEF Asked, NoJob, Job, ListInv, BinInv
<1> HIDE DEF n
<1>4. op \in Toggles /\ (op = "archive" <=> ~list[i].archived)
  BY <1>1 DEF Toggles, Shown, op
<1>5. JobInv(n, table, kind)
  BY <1>1, <1>3, <1>4, SentInv DEF Edits, Saves, Toggles
<1>6. Clicked(q, n)
  BY DEF Toggle, n, op
<1> QED
  BY <1>5, <1>6, ClickedInv

LEMMA RemoveInv ==
    ASSUME PagesInv, NEW q \in Request, NEW i \in Id, Remove(q, i)
    PROVE  PagesInv'
<1> DEFINE n == Asked("delete", i)
<1>1. Base /\ ListInv /\ BinInv /\ "delete" \in Ops /\ i \in Id \cup {NoId}
  BY DEF PagesInv, Ops
<1>2. /\ n \in Job /\ n.step = "sent" /\ n.ok = FALSE /\ n.op = "delete"
      /\ n.id = i /\ n.base = list /\ n.doubt = doubt
  BY <1>1, NoJobType
  DEF Asked, NoJob, Job, ListInv, BinInv
<1> HIDE DEF n
<1>3. JobInv(n, table, kind)
  BY <1>1, <1>2, SentInv DEF Edits, Saves, Toggles
<1>4. Clicked(q, n) /\ card' = card
  BY DEF Remove, n
<1> QED
  BY <1>3, <1>4, ClickedInv

LEMMA RestoreInv ==
    ASSUME PagesInv, NEW q \in Request, handleRestore(q)
    PROVE  PagesInv'
<1>1. PICK i \in bin :
          Clicked(q, [NoJob("sent") EXCEPT !.op = "restore", !.id = i])
          /\ card' = card
  BY DEF handleRestore
<1>2. i \in Id
  BY <1>1 DEF PagesInv, BinInv
<1> DEFINE n == [NoJob("sent") EXCEPT !.op = "restore", !.id = i]
<1>3. /\ n \in Job /\ n.step = "sent" /\ n.ok = FALSE /\ n.op = "restore"
      /\ n.id = i
  BY <1>2, NoJobType DEF NoJob, Job, Ops
<1> HIDE DEF n
<1>4. JobInv(n, table, kind)
  BY <1>2, <1>3 DEF JobInv, Formed, Right, Edits, Saves, Toggles
<1> QED
  BY <1>1, <1>4, ClickedInv DEF n

-----------------------------------------------------------------------------
(* Forms, cards and pages.                                                 *)

LEMMA SameJobs ==
    ASSUME Base, JobsInv, UNCHANGED <<kind, table, others, job>>
    PROVE  Base' /\ JobsInv'
<1>1. Base'
  BY DEF Base
<1>2. JobsInv'
  <2>1. kind' = kind /\ table' = table /\ job' = job
    OBVIOUS
  <2> QED
    BY <2>1 DEF JobsInv
<1> QED
  BY <1>1, <1>2

LEMMA OpenAddInv ==
    ASSUME PagesInv, OpenAdd
    PROVE  PagesInv'
<1>1. Base' /\ JobsInv' /\ ListInv' /\ BinInv'
  BY SameJobs, SameList, SameBin DEF PagesInv, OpenAdd
<1>2. FormInv'
  BY DEF OpenAdd, NoForm, FormInv, Status
<1> QED
  BY <1>1, <1>2 DEF PagesInv

LEMMA CloseFormInv ==
    ASSUME PagesInv, CloseForm
    PROVE  PagesInv'
<1>1. Base' /\ JobsInv' /\ ListInv' /\ BinInv'
  BY SameJobs, SameList, SameBin DEF PagesInv, CloseForm
<1>2. FormInv'
  BY DEF CloseForm, NoForm, FormInv, Status
<1> QED
  BY <1>1, <1>2 DEF PagesInv

(* A form opened on a row the list is right about shows its status: the    *)
(* edit buttons are not offered for archived rows, whose vacancies are     *)
(* listed as closed.                                                       *)
LEMMA OpenEditInv ==
    ASSUME PagesInv, NEW i \in Id, OpenEdit(i)
    PROVE  PagesInv'
<1>1. Base' /\ JobsInv' /\ ListInv' /\ BinInv'
  BY SameJobs, SameList, SameBin DEF PagesInv, OpenEdit
<1> DEFINE sure == i \notin doubt /\ ~list[i].guess
<1>2. /\ list[i] \in Shown /\ list[i] # NoRow /\ ~list[i].archived
      /\ table[i] \in Row /\ table' = table
      /\ form' = [open |-> TRUE, id |-> i, status |-> list[i].status,
                  sure |-> sure]
  BY DEF PagesInv, ListInv, View, Base, OpenEdit
<1>3. sure => (list[i].status = "open" <=> table[i].active)
  <2> SUFFICES ASSUME sure
               PROVE  list[i].status = "open" <=> table[i].active
    OBVIOUS
  <2>1. AgreesAs(list[i], table[i], kind)
    BY DEF PagesInv, ListInv
  <2>2. /\ list[i].status = FromApiAs(table[i], kind).status
        /\ ~table[i].archived
    BY <1>2, <2>1 DEF AgreesAs, Shown, Row
  <2> QED
    BY <1>2, <2>2 DEF FromApiAs, Row
<1>4. FormInv'
  <2>1. sure \in BOOLEAN /\ list[i].status \in Status
    BY <1>2 DEF Shown
  <2> HIDE DEF sure
  <2> QED
    BY <1>2, <1>3, <2>1 DEF FormInv
<1> QED
  BY <1>1, <1>4 DEF PagesInv

LEMMA OpenCardInv ==
    ASSUME PagesInv, NEW i \in Id, OpenCard(i)
    PROVE  PagesInv'
<1>1. Base' /\ JobsInv' /\ ListInv' /\ FormInv'
  BY SameJobs, SameList, SameForm DEF PagesInv, OpenCard
<1>2. BinInv'
  BY DEF PagesInv, OpenCard, OnList, BinInv, Binned
<1> QED
  BY <1>1, <1>2 DEF PagesInv

(* The deleted page appears empty: whatever is deleted is in doubt.        *)
LEMMA MountInv ==
    ASSUME Mount, page' \in {"list", "bin"}, card' \in Id \cup {NoId},
           table' = table
    PROVE  BinInv'
<1>1. Binned(table) \subseteq Id /\ Binned(table') = Binned(table)
  BY DEF Binned
<1> QED
  BY <1>1 DEF Mount, NoFetch, Fetch, BinInv

LEMMA UnmountInv ==
    ASSUME Unmount, page' \in {"list", "bin"}, card' \in Id \cup {NoId},
           page' = "list" \/ card' # NoId
    PROVE  BinInv'
BY DEF Unmount, NoFetch, Fetch, BinInv

LEMMA CloseCardInv ==
    ASSUME PagesInv, CloseCard
    PROVE  PagesInv'
<1>1. Base' /\ JobsInv' /\ ListInv' /\ FormInv'
  BY SameJobs, SameList, SameForm DEF PagesInv, CloseCard
<1>2. page \in {"list", "bin"} /\ page' = page /\ card' = NoId
      /\ table' = table
  BY DEF PagesInv, BinInv, CloseCard
<1>3. CASE page = "bin"
  BY <1>1, <1>2, <1>3, MountInv DEF CloseCard, PagesInv
<1>4. CASE page # "bin"
  <2>1. BinInv'
    BY <1>2, <1>4 DEF CloseCard, PagesInv, BinInv, Binned
  <2> QED
    BY <1>1, <2>1 DEF PagesInv
<1> QED
  BY <1>3, <1>4

(* Leaving a page changes no request but for the mark that it is gone.     *)
LEMMA LeftInv ==
    ASSUME JobsInv, NEW n, JobInv(n, table, kind), NEW q \in Request,
           job' = [LeftAll(job) EXCEPT ![q] = n], UNCHANGED <<kind, table>>
    PROVE  JobsInv'
<1>1. n \in Job
  BY DEF JobInv
<1>2. ASSUME NEW p \in Request
      PROVE  LeftAll(job)[p] \in Job /\ JobInv(LeftAll(job)[p], table, kind)
  <2> DEFINE j == job[p]
             g == [j EXCEPT !.gone = TRUE]
  <2>1. j \in Job /\ JobInv(j, table, kind)
    BY DEF JobsInv
  <2>2. CASE j.op # "restore"
    BY <2>1, <2>2 DEF LeftAll
  <2>3. CASE j.op = "restore"
    <3>1. LeftAll(job)[p] = g
      BY <2>3 DEF LeftAll
    <3>2. /\ g \in Job /\ g.step = j.step /\ g.op = "restore"
          /\ g.id = j.id /\ g.ok = j.ok /\ g.doubt = j.doubt
      BY <2>1, <2>3 DEF Job
    <3> HIDE DEF g
    <3>3. JobInv(g, table, kind)
      BY <2>1, <2>3, <3>2
      DEF JobInv, Formed, Right, Live, Edits, Saves, Toggles
    <3> QED
      BY <3>1, <3>2, <3>3
  <2> QED
    BY <2>2, <2>3
<1>3. LeftAll(job) \in [Request -> Job]
  BY <1>2 DEF LeftAll
<1>4. job' \in [Request -> Job]
  BY <1>1, <1>3
<1>5. ASSUME NEW p \in Request
      PROVE  JobInv(job'[p], table, kind)
  <2>1. CASE p = q
    BY <1>3, <2>1
  <2>2. CASE p # q
    BY <1>2, <1>3, <2>2
  <2> QED
    BY <2>1, <2>2
<1>6. table' = table /\ kind' = kind
  OBVIOUS
<1> QED
  BY <1>4, <1>5, <1>6 DEF JobsInv

LEMMA GoToInv ==
    ASSUME PagesInv, NEW q \in Request, GoToList(q) \/ GoToDeleted(q)
    PROVE  PagesInv'
<1>1. /\ job' = [LeftAll(job) EXCEPT ![q] = NoJob("sent")]
      /\ form' = NoForm /\ card' = NoId
      /\ UNCHANGED <<kind, table, list, others, doubt>>
      /\ (page' = "list" /\ Unmount) \/ (page' = "bin" /\ Mount)
  BY DEF GoToList, GoToDeleted, GoTo, Reload
<1>2. JobsInv'
  BY <1>1, NoJobInv, LeftInv DEF PagesInv
<1>3. Base' /\ ListInv'
  BY <1>1, SameList DEF PagesInv, Base
<1>4. FormInv'
  BY <1>1 DEF NoForm, FormInv, Status
<1>5. BinInv'
  BY <1>1, MountInv, UnmountInv
<1> QED
  BY <1>2, <1>3, <1>4, <1>5 DEF PagesInv

-----------------------------------------------------------------------------
(* Answers.                                                                *)

(* A row changes: what was known of it is in doubt.                        *)
LEMMA TouchInv ==
    ASSUME Base, ListInv, FormInv, BinInv, NEW i \in Id, NEW r \in Row,
           Touch(i), table' = [table EXCEPT ![i] = r],
           UNCHANGED <<kind, list, card, page, bin>>
    PROVE  ListInv' /\ FormInv' /\ BinInv'
<1>1. /\ table \in [Id -> Row] /\ table'[i] = r
      /\ \A x \in Id \ {i} : table'[x] = table[x]
  BY DEF Base
<1>2. ListInv'
  BY <1>1 DEF Touch, ListInv
<1>3. FormInv'
  <2>1. CASE form.id = i
    BY <2>1 DEF Touch, FormInv
  <2>2. CASE form.id # i
    <3>1. form' = form
      BY <2>2 DEF Touch
    <3> QED
      BY <1>1, <2>2, <3>1 DEF FormInv
  <2> QED
    BY <2>1, <2>2
<1>4. \A x \in Id \ {i} : x \in Binned(table') <=> x \in Binned(table)
  BY <1>1 DEF Binned
<1>5. BinInv'
  <2>1. /\ card' \in Id \cup {NoId} /\ page' \in {"list", "bin"}
        /\ bin' \subseteq Id /\ binDoubt' \subseteq Id
        /\ page' = "bin" /\ card' = NoId =>
              \A x \in Id \ binDoubt' : x \in bin' <=> x \in Binned(table')
    BY <1>4 DEF Touch, BinInv
  <2>2. /\ fetch' \in Fetch
        /\ fetch'.step = "answered" =>
              \A x \in Id \ fetch'.doubt :
                  x \in fetch'.got <=> x \in Binned(table')
        /\ fetch'.step = "failed" => fetch'.doubt = Id
    <3>1. CASE fetch.step = "answered"
      <4>1. fetch' = [fetch EXCEPT !.doubt = fetch.doubt \cup {i}]
        BY <3>1 DEF Touch
      <4>2. /\ fetch' \in Fetch /\ fetch'.step = "answered"
            /\ fetch'.got = fetch.got /\ fetch'.doubt = fetch.doubt \cup {i}
        BY <3>1, <4>1 DEF BinInv, Fetch
      <4> QED
        BY <1>4, <3>1, <4>2 DEF BinInv
    <3>2. CASE fetch.step # "answered"
      <4>1. fetch' = fetch
        BY <3>2 DEF Touch
      <4> QED
        BY <3>2, <4>1 DEF BinInv
    <3> QED
      BY <3>1, <3>2
  <2> QED
    BY <2>1, <2>2 DEF BinInv
<1> QED
  BY <1>2, <1>3, <1>5

LEMMA ServeInv ==
    ASSUME PagesInv, NEW q \in Request, Serve(q)
    PROVE  PagesInv'
<1> DEFINE j == job[q]
<1>1. PICK i \in Id, ok \in BOOLEAN :
          /\ j.id \in {i, NoId} /\ Accepts(j, table[i])
          /\ table' = [table EXCEPT ![i] = Applied(j, table[i])]
          /\ job' = [p \in Request |->
                        IF p # q THEN Doubted(job[p], i)
                        ELSE IF ok THEN Heard(j, i, Applied(j, table[i]))
                        ELSE Refused(j)]
          /\ Touch(i)
  BY DEF Serve, Heard, StillDoubted
<1>2. j.step = "sent" /\ UNCHANGED <<kind, list, card, page, bin, others>>
  BY DEF Serve
<1>3. /\ Base /\ JobsInv /\ ListInv /\ FormInv /\ BinInv
      /\ table \in [Id -> Row] /\ j \in Job /\ JobInv(j, table, kind)
  BY DEF PagesInv, Base, JobsInv
<1> DEFINE r == Applied(j, table[i])
           u == [table EXCEPT ![i] = r]
<1>4. r \in Row /\ u \in [Id -> Row]
  BY <1>1, <1>2, <1>3, AppliedType DEF JobInv
<1>5. ASSUME NEW p \in Request
      PROVE  JobInv(job'[p], u, kind)
  <2>1. CASE p # q
    <3>1. JobInv(job[p], table, kind)
      BY <1>3 DEF JobsInv
    <3> HIDE DEF r
    <3>2. JobInv(Doubted(job[p], i), u, kind)
      BY <1>3, <1>4, <3>1, DoubtedInv
    <3> QED
      BY <1>1, <2>1, <3>2
  <2>2. CASE p = q /\ ok
    <3>1. JobInv(Heard(j, i, r), u, kind)
      BY <1>1, <1>2, <1>3, HeardInv
    <3> QED
      BY <1>1, <2>2, <3>1
  <2>3. CASE p = q /\ ~ok
    <3>1. JobInv(Refused(j), u, kind)
      BY <1>3, RefusedInv
    <3> QED
      BY <1>1, <2>3, <3>1
  <2> QED
    BY <2>1, <2>2, <2>3
<1>6. job' \in [Request -> Job]
  <2>1. \A p \in Request : job'[p] \in Job
    BY <1>5 DEF JobInv
  <2>2. job' = [p \in Request |-> job'[p]]
    BY <1>1
  <2> QED
    BY <2>1, <2>2
<1>7. table' = u /\ kind' = kind
  BY <1>1, <1>2
<1>8. JobsInv'
  <2> HIDE DEF u
  <2> QED
    BY <1>5, <1>6, <1>7 DEF JobsInv
<1>9. Base'
  BY <1>2, <1>3, <1>4, <1>7 DEF Base
<1>10. ListInv' /\ FormInv' /\ BinInv'
  <2> HIDE DEF r
  <2> QED
    BY <1>1, <1>2, <1>3, <1>4, <1>7, TouchInv
<1> QED
  BY <1>8, <1>9, <1>10 DEF PagesInv

LEMMA OtherClientInv ==
    ASSUME PagesInv, OtherClient
    PROVE  PagesInv'
<1>1. PICK i \in Id, op \in Ops \ {"load"}, text \in Text, status \in Status :
          LET j == [op |-> op, text |-> text, status |-> status] IN
          /\ Accepts(j, table[i])
          /\ table' = [table EXCEPT ![i] = Applied(j, table[i])]
          /\ job' = [p \in Request |-> Doubted(job[p], i)]
          /\ Touch(i)
  BY DEF OtherClient
<1>2. /\ UNCHANGED <<kind, list, card, page, bin>>
      /\ others < Others /\ others' = others + 1
  BY DEF OtherClient
<1>3. /\ Base /\ JobsInv /\ ListInv /\ FormInv /\ BinInv
      /\ table \in [Id -> Row] /\ kind \in Kind /\ others \in 0..Others
  BY DEF PagesInv, Base
<1> DEFINE r == Applied([op |-> op, text |-> text, status |-> status],
                        table[i])
           u == [table EXCEPT ![i] = r]
<1>4. r \in Row
  <2>1. table[i] \in Row
    BY <1>3
  <2> QED
    BY <2>1 DEF Applied, Row, Ops
<1> HIDE DEF r
<1>5. table' = u /\ kind' = kind /\ u \in [Id -> Row]
  BY <1>1, <1>2, <1>3, <1>4 DEF r
<1>6. ASSUME NEW p \in Request
      PROVE  JobInv(Doubted(job[p], i), u, kind)
  <2>1. JobInv(job[p], table, kind)
    BY <1>3 DEF JobsInv
  <2> QED
    BY <1>3, <1>4, <2>1, DoubtedInv
<1>7. job' = [p \in Request |-> Doubted(job[p], i)]
  BY <1>1
<1>8. job' \in [Request -> Job] /\ \A p \in Request : JobInv(job'[p], u, kind)
  BY <1>6, <1>7 DEF JobInv
<1>9. JobsInv'
  <2> HIDE DEF u
  <2> QED
    BY <1>5, <1>8 DEF JobsInv
<1>10. Base'
  BY <1>2, <1>3, <1>5, ListPagesAssumption DEF Base, ListPagesAssumption
<1>11. ListInv' /\ FormInv' /\ BinInv'
  BY <1>1, <1>2, <1>3, <1>4, <1>5, TouchInv
<1> QED
  BY <1>9, <1>10, <1>11 DEF PagesInv

LEMMA FailInv ==
    ASSUME PagesInv, NEW q \in Request, Fail(q)
    PROVE  PagesInv'
<1>1. JobInv(Refused(job[q]), table, kind)
  BY RefusedInv DEF PagesInv, JobsInv
<1>2. Base' /\ JobsInv'
  BY <1>1, SetJobInv DEF PagesInv, Fail
<1>3. ListInv' /\ FormInv' /\ BinInv'
  BY SameList, SameForm, SameBin DEF PagesInv, Fail
<1> QED
  BY <1>2, <1>3 DEF PagesInv

LEMMA ServeLoadInv ==
    ASSUME PagesInv, NEW q \in Request, ServeLoad(q)
    PROVE  PagesInv'
<1> DEFINE j == job[q]
           n == [j EXCEPT !.step = "answered", !.ok = TRUE,
                          !.got = Told(table), !.doubt = {}]
<1>1. j \in Job /\ j.op = "load" /\ table \in [Id -> Row]
  BY DEF PagesInv, JobsInv, Base, ServeLoad
<1>2. /\ Told(table) \in View
      /\ \A i \in Id : AgreesAs(Told(table)[i], table[i], kind)
  BY <1>1, ToldType
<1>3. /\ n \in Job /\ n.step = "answered" /\ n.op = "load"
      /\ n.got = Told(table)
  BY <1>1, <1>2 DEF Job
<1> HIDE DEF n
<1>4. JobInv(n, table, kind)
  BY <1>2, <1>3 DEF JobInv, Formed, Right, Result, Saves, Toggles
<1>5. job' = [job EXCEPT ![q] = n] /\ UNCHANGED <<kind, table, others>>
  BY DEF ServeLoad, n
<1>6. Base' /\ JobsInv'
  BY <1>4, <1>5, SetJobInv DEF PagesInv
<1>7. ListInv' /\ FormInv' /\ BinInv'
  BY SameList, SameForm, SameBin DEF PagesInv, ServeLoad
<1> QED
  BY <1>6, <1>7 DEF PagesInv

LEMMA ServeBinInv ==
    ASSUME PagesInv, ServeBin
    PROVE  PagesInv'
<1>1. Base' /\ JobsInv' /\ ListInv' /\ FormInv'
  BY SameJobs, SameList, SameForm DEF PagesInv, ServeBin
<1>2. Binned(table) \subseteq Id /\ Binned(table') = Binned(table)
  BY DEF Binned, ServeBin
<1>3. BinInv'
  BY <1>2 DEF PagesInv, ServeBin, BinInv, Fetch
<1> QED
  BY <1>1, <1>3 DEF PagesInv

-----------------------------------------------------------------------------
(* Handlers.                                                               *)

LEMMA EndInv ==
    ASSUME PagesInv, NEW q \in Request, End(q)
    PROVE  Base' /\ JobsInv'
<1>1. JobInv(NoJob("done"), table, kind)
  BY NoJobInv
<1> QED
  BY <1>1, SetJobInv DEF PagesInv, End

LEMMA AlertedInv ==
    ASSUME PagesInv, NEW q \in Request, Alerted(q)
    PROVE  PagesInv'
<1>1. Base' /\ JobsInv'
  BY EndInv DEF Alerted
<1>2. ListInv' /\ FormInv' /\ BinInv'
  BY SameList, SameForm, SameBin DEF PagesInv, Alerted, End
<1> QED
  BY <1>1, <1>2 DEF PagesInv

(* The list a handler writes is right about the rows not in doubt.         *)
LEMMA WrittenInv ==
    ASSUME PagesInv, NEW q \in Request, job[q].ok, job[q].op # "restore",
           list' = Result(job[q], kind), doubt' = job[q].doubt,
           UNCHANGED <<kind, table>>
    PROVE  ListInv'
<1> DEFINE j == job[q]
<1>1. j \in Job /\ Formed(j) /\ Right(j, table, kind)
  BY DEF PagesInv, JobsInv, JobInv
<1>2. Result(j, kind) \in View
  BY <1>1, ResultType
<1>3. /\ j.doubt \subseteq Id
      /\ \A i \in Id \ j.doubt : AgreesAs(Result(j, kind)[i], table[i], kind)
  BY <1>1 DEF Right, Job
<1> QED
  BY <1>2, <1>3 DEF ListInv

LEMMA EndSaveInv ==
    ASSUME PagesInv, NEW q \in Request, EndSave(q, SavedRow(job[q], kind))
    PROVE  PagesInv'
<1>1. CASE Alerted(q)
  BY <1>1, AlertedInv
<1>2. CASE ~Alerted(q)
  <2>1. /\ Relist(q, Saved(job[q], SavedRow(job[q], kind)))
        /\ form' = NoForm /\ UNCHANGED <<card, page, bin, fetch, binDoubt>>
        /\ job[q].op \in {"create", "update"}
    BY <1>2 DEF EndSave
  <2>2. Result(job[q], kind) = Saved(job[q], SavedRow(job[q], kind))
    BY <2>1 DEF Result
  <2>3. Base' /\ JobsInv' /\ UNCHANGED <<kind, table>>
    BY <2>1, EndInv DEF Relist, End
  <2>4. ListInv'
    BY <2>1, <2>2, <2>3, WrittenInv DEF Relist
  <2>5. FormInv'
    BY <2>1 DEF NoForm, FormInv, Status
  <2>6. BinInv'
    BY <2>1, <2>3, SameBin DEF PagesInv
  <2> QED
    BY <2>3, <2>4, <2>5, <2>6 DEF PagesInv
<1> QED
  BY <1>1, <1>2

LEMMA EndSaveEditInv ==
    ASSUME PagesInv, NEW q \in Request, EndSaveEdit(q)
    PROVE  PagesInv'
<1> DEFINE j == job[q]
<1>1. CASE Alerted(q)
  BY <1>1, AlertedInv
<1>2. CASE ~Alerted(q)
  <2>1. /\ kind = "candidate" /\ j.op = "update" /\ j.ok
        /\ list' = Saved(j, j.got[j.id]) /\ doubt' = j.doubt /\ card' = j.id
        /\ job' = [LeftAll(job) EXCEPT ![q] = NoJob("done")]
        /\ Unmount
        /\ UNCHANGED <<kind, table, others, form, page>>
    BY <1>2 DEF EndSaveEdit
  <2>2. j.id \in Id
    BY <2>1 DEF PagesInv, JobsInv, JobInv, Formed, Saves
  <2>3. Result(j, kind) = Saved(j, j.got[j.id])
    BY <2>1 DEF Result, SavedRow
  <2>4. ListInv'
    BY <2>1, <2>3, WrittenInv
  <2>5. JobsInv'
    BY <2>1, NoJobInv, LeftInv DEF PagesInv
  <2>6. Base' /\ FormInv'
    BY <2>1, SameForm DEF PagesInv, Base
  <2>7. BinInv'
    <3>1. page' \in {"list", "bin"} /\ card' \in Id \cup {NoId} /\ card' # NoId
      BY <2>1, <2>2, Constants DEF PagesInv, BinInv
    <3> QED
      BY <2>1, <3>1, UnmountInv
  <2> QED
    BY <2>4, <2>5, <2>6, <2>7 DEF PagesInv
<1> QED
  BY <1>1, <1>2

LEMMA EndArchiveInv ==
    ASSUME PagesInv, NEW q \in Request,
           EndArchive(q, ToggledRow(job[q], kind))
    PROVE  PagesInv'
<1> DEFINE j == job[q]
<1>1. CASE Alerted(q)
  BY <1>1, AlertedInv
<1>2. CASE ~Alerted(q)
  <2>1. /\ Relist(q, [j.base EXCEPT ![j.id] = ToggledRow(j, kind)])
        /\ UNCHANGED <<form, card, page, bin, fetch, binDoubt>>
        /\ j.op \in {"archive", "unarchive"}
    BY <1>2 DEF EndArchive
  <2>2. Result(j, kind) = [j.base EXCEPT ![j.id] = ToggledRow(j, kind)]
    BY <2>1 DEF Result
  <2>3. Base' /\ JobsInv' /\ UNCHANGED <<kind, table>>
    BY <2>1, EndInv DEF Relist, End
  <2>4. ListInv'
    BY <2>1, <2>2, <2>3, WrittenInv DEF Relist
  <2>5. FormInv' /\ BinInv'
    BY <2>1, <2>3, SameForm, SameBin DEF PagesInv
  <2> QED
    BY <2>3, <2>4, <2>5 DEF PagesInv
<1> QED
  BY <1>1, <1>2

LEMMA EndDeleteInv ==
    ASSUME PagesInv, NEW q \in Request, EndDelete(q)
    PROVE  PagesInv'
<1> DEFINE j == job[q]
<1>1. CASE Alerted(q)
  BY <1>1, AlertedInv
<1>2. CASE ~Alerted(q)
  <2>1. /\ Relist(q, [j.base EXCEPT ![j.id] = NoRow])
        /\ UNCHANGED <<form, page>>
        /\ j.op = "delete"
    BY <1>2 DEF EndDelete
  <2>2. Result(j, kind) = [j.base EXCEPT ![j.id] = NoRow]
    BY <2>1 DEF Result
  <2>3. Base' /\ JobsInv' /\ UNCHANGED <<kind, table>>
    BY <2>1, EndInv DEF Relist, End
  <2>4. ListInv'
    BY <2>1, <2>2, <2>3, WrittenInv DEF Relist
  <2>5. FormInv'
    BY <2>1, <2>3, SameForm DEF PagesInv
  <2>6. BinInv'
    <3>1. CASE UNCHANGED <<card, bin, fetch, binDoubt>>
      BY <2>1, <2>3, <3>1, SameBin DEF PagesInv
    <3>2. CASE card' = NoId /\ page = "bin" /\ Mount
      BY <2>1, <2>3, <3>2, MountInv
    <3>3. CASE card' = NoId /\ page # "bin" /\ UNCHANGED <<bin, fetch, binDoubt>>
      BY <2>1, <2>3, <3>3 DEF PagesInv, BinInv, Binned
    <3> QED
      BY <1>2, <3>1, <3>2, <3>3 DEF EndDelete
  <2> QED
    BY <2>3, <2>4, <2>5, <2>6 DEF PagesInv
<1> QED
  BY <1>1, <1>2

(* The deleted page drops the entry, and knows it restored unless somebody *)
(* has changed it since.                                                   *)
LEMMA EndRestoreInv ==
    ASSUME PagesInv, NEW q \in Request, EndRestore(q)
    PROVE  PagesInv'
<1> DEFINE j == job[q]
<1>1. CASE Alerted(q)
  BY <1>1, AlertedInv
<1>2. CASE ~Alerted(q)
  <2>1. /\ j.op = "restore" /\ j.ok /\ End(q)
        /\ UNCHANGED <<list, form, card, page, fetch, doubt>>
    BY <1>2 DEF EndRestore
  <2>2. Base' /\ JobsInv' /\ UNCHANGED <<kind, table>>
    BY <2>1, EndInv DEF End
  <2>3. ListInv' /\ FormInv'
    BY <2>1, <2>2, SameList, SameForm DEF PagesInv
  <2>4. BinInv'
    <3>1. CASE UNCHANGED <<bin, binDoubt>>
      BY <2>1, <2>2, <3>1, SameBin DEF PagesInv
    <3>2. CASE ~UNCHANGED <<bin, binDoubt>>
      <4>1. /\ bin' = bin \ {j.id}
            /\ binDoubt' = IF j.id \in j.doubt THEN binDoubt \cup {j.id}
                           ELSE binDoubt \ {j.id}
        BY <1>2, <3>2 DEF EndRestore
      <4>2. j.id \in Id /\ (j.id \in j.doubt \/ ~table[j.id].deleted)
        BY <2>1
        DEF PagesInv, JobsInv, JobInv, Formed, Right, Live, Edits, Saves,
            Toggles
      <4>3. j.id \in j.doubt \/ j.id \notin Binned(table)
        BY <4>2 DEF Binned
      <4>4. Binned(table') = Binned(table)
        BY <2>2
      <4> QED
        BY <2>1, <4>1, <4>2, <4>3, <4>4 DEF PagesInv, BinInv
    <3> QED
      BY <3>1, <3>2
  <2> QED
    BY <2>2, <2>3, <2>4 DEF PagesInv
<1> QED
  BY <1>1, <1>2

LEMMA EndLoadInv ==
    ASSUME PagesInv, NEW q \in Request, EndLoad(q)
    PROVE  PagesInv'
<1> DEFINE j == job[q]
<1>1. /\ j.op = "load" /\ End(q)
      /\ UNCHANGED <<form, card, page, bin, fetch, binDoubt>>
      /\ \/ j.ok /\ list' = j.got /\ doubt' = j.doubt
         \/ list' = Blank /\ doubt' = Id
         \/ UNCHANGED <<list, doubt>>
  BY DEF EndLoad, Relist
<1>2. Base' /\ JobsInv' /\ UNCHANGED <<kind, table>>
  BY <1>1, EndInv DEF End
<1>3. FormInv' /\ BinInv'
  BY <1>1, <1>2, SameForm, SameBin DEF PagesInv
<1>4. ListInv'
  <2>1. CASE j.ok /\ list' = j.got /\ doubt' = j.doubt
    <3>1. Result(j, kind) = j.got
      BY <1>1 DEF Result
    <3> QED
      BY <1>1, <1>2, <2>1, <3>1, WrittenInv
  <2>2. CASE list' = Blank /\ doubt' = Id
    BY <2>2, BlankType DEF ListInv
  <2>3. CASE UNCHANGED <<list, doubt>>
    BY <1>2, <2>3, SameList DEF PagesInv
  <2> QED
    BY <1>1, <2>1, <2>2, <2>3
<1> QED
  BY <1>2, <1>3, <1>4 DEF PagesInv

LEMMA EndLoadBinInv ==
    ASSUME PagesInv, EndLoadBin
    PROVE  PagesInv'
<1>1. Base' /\ JobsInv' /\ ListInv' /\ FormInv'
  BY SameJobs, SameList, SameForm DEF PagesInv, EndLoadBin
<1>2. Binned(table') = Binned(table)
  BY DEF EndLoadBin
<1>3. NoFetch \in Fetch /\ NoFetch.step = "idle"
  BY DEF NoFetch, Fetch
<1>4. BinInv'
  BY <1>2, <1>3 DEF PagesInv, EndLoadBin, BinInv, Fetch
<1> QED
  BY <1>1, <1>4 DEF PagesInv

-----------------------------------------------------------------------------
(* The theorems.                                                           *)

LEMMA InitInv == PagesInit => PagesInv
<1> SUFFICES ASSUME PagesInit
             PROVE  PagesInv
  OBVIOUS
<1>1. kind \in Kind /\ table \in [Id -> Row]
  BY DEF PagesInit, Row
<1>2. Base
  BY <1>1, ListPagesAssumption DEF PagesInit, Base, ListPagesAssumption
<1>3. JobsInv
  <2>1. NoJob("free") \in Job /\ JobInv(NoJob("free"), table, kind)
    BY NoJobType, NoJobInv
  <2>2. job = [q \in Request |-> NoJob("free")]
    BY DEF PagesInit
  <2> QED
    BY <2>1, <2>2 DEF JobsInv
<1>4. ListInv
  BY <1>1, ToldType DEF PagesInit, ListInv
<1>5. FormInv
  BY DEF PagesInit, NoForm, FormInv, Status
<1>6. BinInv
  BY DEF PagesInit, NoFetch, Fetch, BinInv, Binned
<1> QED
  BY <1>2, <1>3, <1>4, <1>5, <1>6 DEF PagesInv

LEMMA ClickKeepsInv ==
    ASSUME PagesInv, NEW q \in Request, Click(q)
    PROVE  PagesInv'
<1>1. CASE handleSaveVacancy(q)
  BY <1>1, SubmitInv DEF handleSaveVacancy
<1>2. CASE handleSaveUser(q) \/ handleSaveCompetency(q) \/ handleAddCandidate(q)
  <2>1. PICK text \in Text : Submit(q, text, "open")
    BY <1>2 DEF handleSaveUser, handleSaveCompetency, handleAddCandidate
  <2>2. "open" \in Status
    BY DEF Status
  <2> QED
    BY <2>1, <2>2, SubmitInv
<1>3. CASE handleSaveEdit(q)
  BY <1>3, SaveEditInv
<1>4. CASE \/ handleArchiveVacancy(q) \/ handleArchiveCompetency(q)
           \/ handleArchiveCandidate(q) \/ ArchiveFromCard(q)
  <2>1. PICK i \in Id : Toggle(q, i) /\ card' = card
    BY <1>4
    DEF handleArchiveVacancy, handleArchiveCompetency,
        handleArchiveCandidate, ArchiveFromCard, PagesInv, BinInv
  <2> QED
    BY <2>1, ToggleInv
<1>5. CASE \/ handleDeleteVacancy(q) \/ handleDeleteCompetency(q)
           \/ handleDeleteUser(q) \/ handleDeleteCandidate(q)
  <2>1. PICK i \in Id : Remove(q, i)
    BY <1>5
    DEF handleDeleteVacancy, handleDeleteCompetency, handleDeleteUser,
        handleDeleteCandidate, PagesInv, BinInv
  <2> QED
    BY <2>1, RemoveInv
<1>6. CASE handleRestore(q)
  BY <1>6, RestoreInv
<1>7. CASE GoToList(q) \/ GoToDeleted(q)
  BY <1>7, GoToInv
<1> QED
  BY <1>1, <1>2, <1>3, <1>4, <1>5, <1>6, <1>7 DEF Click

LEMMA HandleKeepsInv ==
    ASSUME PagesInv, NEW q \in Request, Handle(q)
    PROVE  PagesInv'
<1>1. CASE \/ EndSaveVacancy(q) \/ EndSaveUser(q) \/ EndSaveCompetency(q)
           \/ EndAddCandidate(q)
  <2>1. EndSave(q, SavedRow(job[q], kind))
    BY <1>1
    DEF EndSaveVacancy, EndSaveUser, EndSaveCompetency, EndAddCandidate,
        SavedRow
  <2> QED
    BY <2>1, EndSaveInv
<1>2. CASE EndSaveEdit(q)
  BY <1>2, EndSaveEditInv
<1>3. CASE \/ EndArchiveVacancy(q) \/ EndArchiveCompetency(q)
           \/ EndArchiveCandidate(q)
  <2>1. EndArchive(q, ToggledRow(job[q], kind))
    BY <1>3
    DEF EndArchiveVacancy, EndArchiveCompetency, EndArchiveCandidate,
        ToggledRow
  <2> QED
    BY <2>1, EndArchiveInv
<1>4. CASE \/ EndDeleteVacancy(q) \/ EndDeleteCompetency(q)
           \/ EndDeleteUser(q) \/ EndDeleteCandidate(q)
  BY <1>4, EndDeleteInv
  DEF EndDeleteVacancy, EndDeleteCompetency, EndDeleteUser,
      EndDeleteCandidate
<1>5. CASE EndRestore(q)
  BY <1>5, EndRestoreInv
<1>6. CASE EndLoad(q)
  BY <1>6, EndLoadInv
<1> QED
  BY <1>1, <1>2, <1>3, <1>4, <1>5, <1>6 DEF Handle

LEMMA NextInv ==
    ASSUME PagesInv, [PagesNext]_pagesVars
    PROVE  PagesInv'
<1>1. CASE OpenAdd \/ CloseForm \/ CloseCard
  BY <1>1, OpenAddInv, CloseFormInv, CloseCardInv
<1>2. CASE \E i \in Id : OpenEdit(i) \/ OpenCard(i)
  BY <1>2, OpenEditInv, OpenCardInv
<1>3. ASSUME NEW q \in Request, Click(q) \/ Answer(q) \/ Handle(q)
      PROVE  PagesInv'
  <2>1. CASE Click(q)
    BY <2>1, ClickKeepsInv
  <2>2. CASE Answer(q)
    BY <2>2, ServeInv, ServeLoadInv, FailInv DEF Answer
  <2>3. CASE Handle(q)
    BY <2>3, HandleKeepsInv
  <2> QED
    BY <1>3, <2>1, <2>2, <2>3
<1>4. CASE ServeBin \/ EndLoadBin
  BY <1>4, ServeBinInv, EndLoadBinInv
<1>5. CASE OtherClient
  BY <1>5, OtherClientInv
<1>6. CASE UNCHANGED pagesVars
  <2>1. Base' /\ JobsInv' /\ ListInv' /\ FormInv' /\ BinInv'
    BY <1>6, SameJobs, SameList, SameForm, SameBin DEF PagesInv, pagesVars
  <2> QED
    BY <2>1 DEF PagesInv
<1> QED
  BY <1>1, <1>2, <1>3, <1>4, <1>5, <1>6 DEF PagesNext

(* What every handler holds or would write is right about the rows that    *)
(* nobody has changed since it was told of them.                           *)
THEOREM PagesAlwaysSound == PagesSpec => []PagesInv
BY InitInv, NextInv, PTL DEF PagesSpec

(* Every variable holds what ListPages says it does.                       *)
THEOREM PagesTypes == PagesSpec => []PagesTypeOK
<1>1. PagesInv => PagesTypeOK
  BY DEF PagesInv, Base, JobsInv, ListInv, FormInv, BinInv, PagesTypeOK
<1> QED
  BY <1>1, PagesAlwaysSound, PTL

(* However many requests are under way, and in whatever order they are     *)
(* served and their answers handled, App.js never makes a row of its list  *)
(* wrong that nobody has changed since the list was told of it.            *)
THEOREM ListAlwaysTells == PagesSpec => []ListTellsTable
<1>1. PagesInv => ListTellsTable
  BY AgreesIs DEF PagesInv, ListInv, ListTellsTable
<1> QED
  BY <1>1, PagesAlwaysSound, PTL

(* However many entries are restored at once, DeletedPage lists those that *)
(* are still deleted.                                                      *)
THEOREM BinAlwaysTells == PagesSpec => []BinTellsTable
<1>1. PagesInv => BinTellsTable
  BY DEF PagesInv, BinInv, BinTellsTable
<1> QED
  BY <1>1, PagesAlwaysSound, PTL

(* A vacancy's form saved with the status it was opened with leaves the    *)
(* vacancy open or closed as it was.                                       *)
THEOREM StatusAlwaysKept == PagesSpec => UntouchedStatusKept
<1> DEFINE Kept == \A q \in Request, i \in Id :
          (/\ job[q].step = "sent" /\ job'[q].step = "answered"
           /\ job[q].op = "update" /\ job[q].id = i /\ job[q].sure
           /\ i \notin job[q].doubt)
          => table'[i].active = table[i].active
<1>1. ASSUME PagesInv, [PagesNext]_pagesVars
      PROVE  Kept
  <2> SUFFICES ASSUME NEW q \in Request, NEW i \in Id,
                      job[q].step = "sent", job'[q].step = "answered",
                      job[q].op = "update", job[q].id = i, job[q].sure,
                      i \notin job[q].doubt, table' # table
               PROVE  table'[i].active = table[i].active
    OBVIOUS
  <2>1. /\ job \in [Request -> Job] /\ table \in [Id -> Row]
        /\ job[q].status = "open" <=> table[i].active
    BY <1>1 DEF PagesInv, Base, JobsInv, JobInv, Right
  <2>2. ASSUME NEW p \in Request, Serve(p)
        PROVE  table'[i].active = table[i].active
    <3>1. PICK x \in Id, ok \in BOOLEAN :
              /\ job[p].id \in {x, NoId}
              /\ table' = [table EXCEPT ![x] = Applied(job[p], table[x])]
              /\ job' = [s \in Request |->
                            IF s # p THEN Doubted(job[s], x)
                            ELSE IF ok
                            THEN Heard(job[p], x, Applied(job[p], table[x]))
                            ELSE Refused(job[p])]
      BY <2>2 DEF Serve, Heard, StillDoubted
    <3>2. p = q
      <4> SUFFICES ASSUME p # q
                   PROVE  FALSE
        OBVIOUS
      <4>1. job'[q] = Doubted(job[q], x)
        BY <3>1
      <4> QED
        BY <2>1, <4>1 DEF Doubted, Job
    <3>3. x = i
      BY <3>1, <3>2, Constants
    <3>4. table'[i] = Applied(job[q], table[i]) /\ table[i] \in Row
      BY <2>1, <3>1, <3>2, <3>3
    <3> QED
      BY <2>1, <3>4 DEF Applied, Row
  <2>3. CASE OtherClient
    <3>1. PICK x \in Id : job' = [s \in Request |-> Doubted(job[s], x)]
      BY <2>3 DEF OtherClient
    <3>2. job'[q] = Doubted(job[q], x)
      BY <3>1
    <3> QED
      BY <2>1, <3>2 DEF Doubted, Job
  <2>4. \/ \E p \in Request : Serve(p)
        \/ OtherClient
    <3>1. CASE OpenAdd \/ CloseForm \/ CloseCard \/ ServeBin \/ EndLoadBin
      BY <3>1 DEF OpenAdd, CloseForm, CloseCard, ServeBin, EndLoadBin
    <3>2. ASSUME NEW x \in Id, OpenEdit(x) \/ OpenCard(x)
          PROVE  FALSE
      BY <3>2 DEF OpenEdit, OpenCard
    <3>3. ASSUME NEW p \in Request, Click(p)
          PROVE  FALSE
      BY <3>3
      DEF Click, handleSaveVacancy, handleSaveUser, handleSaveCompetency,
          handleAddCandidate, handleSaveEdit, handleArchiveVacancy,
          handleArchiveCompetency, handleArchiveCandidate, ArchiveFromCard,
          handleDeleteVacancy, handleDeleteCompetency, handleDeleteUser,
          handleDeleteCandidate, handleRestore, GoToList, GoToDeleted,
          GoTo, Submit, Toggle, Remove, Clicked
    <3>4. ASSUME NEW p \in Request, ServeLoad(p) \/ Fail(p)
          PROVE  FALSE
      BY <3>4 DEF ServeLoad, Fail
    <3>5. ASSUME NEW p \in Request, Handle(p)
          PROVE  FALSE
      BY <3>5
      DEF Handle, EndSaveVacancy, EndSaveUser, EndSaveCompetency,
          EndAddCandidate, EndSaveEdit, EndArchiveVacancy,
          EndArchiveCompetency, EndArchiveCandidate, EndDeleteVacancy,
          EndDeleteCompetency, EndDeleteUser, EndDeleteCandidate,
          EndRestore, EndLoad, EndSave, EndArchive, EndDelete, Relist,
          Alerted, End
    <3>6. table' = table \/ PagesNext
      BY <1>1 DEF pagesVars
    <3> QED
      BY <3>1, <3>2, <3>3, <3>4, <3>5, <3>6 DEF PagesNext, Answer
  <2> QED
    BY <2>2, <2>3, <2>4
<1>2. PagesInv /\ [PagesNext]_pagesVars => [Kept]_pagesVars
  BY <1>1
<1>3. PagesSpec => [][Kept]_pagesVars
  BY <1>2, PagesAlwaysSound, PTL DEF PagesSpec
<1> QED
  BY <1>3 DEF UntouchedStatusKept

=============================================================================
