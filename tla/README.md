# HR platform: TLA+ models, checks and proofs

The HR platform keeps candidates, vacancies, competencies and interviews of a
company. It is a React single-page UI, a .NET API over PostgreSQL, and a Go
service that holds the accounts of all users. This directory models the parts of
it that keep state, checks the models with TLC on small instances, and proves
the main invariants with TLAPS for all of them. Paths below are relative to
`src/`; `AS` stands for
`src/InterviewPlatform.Core/Services/ApplicationServices.cs`.

## 1. The system

| Component | State | Operations | Where |
|---|---|---|---|
| Catalog services | tables candidates, vacancies, competencies, vacancy_competencies | create, update, archive, unarchive, delete, restore | `AS` 99-768 |
| Interview service | tables interviews, competency_matrices | create, update, set status, decide, score, archive, unarchive, delete, restore | `AS` 771-1133 |
| Audit log | table audit_logs | append, in the transaction of the change it tells of | `AS` 6-97 |
| Go auth service | table users, cache of accounts (5 min), access tokens it has issued | login, register, update, set status, delete, restore | `auth-service/internal` |
| API's access to it | none | one call each; a token is accepted on signature, lifetime, role | `RestAuthService.cs`, `Program.cs` |
| UI workflow of interviews | the list of interviews, the open card, the handlers that await answers | open, comment, score, complete, cancel, decide, reschedule, edit, archive, delete, schedule | `ui/src/App.js` 600-933, 1486-1700 |
| UI list pages | the lists of candidates, vacancies, competencies and users, an open form or card, the page of deleted entries, the handlers that await answers | add, edit, archive, unarchive, delete, restore, change of page | `ui/src/App.js` 213-600, 978-1023, 2608-2660, `pages/DeletedPage.js`, `pages/ArchivePage.js` |
| UI session | the token in localStorage (shared by tabs), the user shown, the requests under way | open, sign in, check the token, sign out, load, 401 | `ui/src/App.js` 1024-1110, `api.js` |
| UI roles | the roles in memory and in localStorage | add, edit, delete a role; what a user is granted | `ui/src/App.js` 1160-1170, 2212-2330, `constants/*.js` |
| UI views | the filters of seven lists, the candidate's computed status | filter, reset, change of page | `ui/src/App.js` 318-560, 1110-1160, 1707-1728, `components/SearchFilter.js` |
| Persistence | the database itself | unit of work, unique indexes, foreign keys | `Infrastructure.cs` |
| Startup | the schema and first rows | migrate, seed, wait for the schema | `Infrastructure.cs` 476-532, `main.go` 35-62 |
| Reports, configuration, rest of the UI | none that others read | - | - |

How they interact. The UI calls the API over HTTP with the token of its last
login, keeps what it has loaded and puts answers into it. The API reads and
writes the database through a unit of work that belongs to one request, and
passes everything about accounts on to the Go service. API and Go service share
one database: the API reads `users` (interviewers) and the Go service writes it.
There are no queues, no locks and no concurrency tokens; the only things that
order requests are transactions, unique indexes and foreign keys.

What is hard, and what makes each component correct:

* **Catalog and interviews.** A handler reads a row, computes in memory, and
  `DbSet.Update` writes back *every* column it has read. Overlapping requests
  therefore restore each other's old values. Creation of a vacancy is three
  transactions. A request may be cut off anywhere. Correct means: a mark
  (archived, deleted) and its stamp never separate; scales are 1 to 5 and scores
  0 to 5; links never dangle; nothing exists that the audit log does not know,
  and reading the log back gives the row; scores are written for planned
  interviews only; a deleted row comes back by a restore.
* **Accounts.** Handlers cache what they read earlier; invalidation uses the new
  keys, or a key never cached under, or comes before the write. Correct means:
  however these race, with lost answers and restarts, what is served is stale by
  no more than the lifetimes of an entry and a token.
* **UI list pages.** Every handler writes a list it computed from the list of the
  render it was clicked in, so answers that come in another order overwrite each
  other. Correct means: what a list shows of a row that nobody else has touched
  since is what the API stored; restoring several entries at once loses none;
  saving a form does not change what the user did not touch.
* **UI session.** Tabs share one token, and a request takes the token stored at
  the time it is sent. Correct means: a tab names the user whose token is
  stored, what it asks for after a sign-in is that user's own and replaces what
  others have left, and signing in comes to an end.
* **UI roles and views.** Roles are found by an identifier made from their name.
  Filters outlive the panels that edit them, and two effects of one click both
  write them. Correct means: a new role changes the rights of nobody whose role
  is still listed; a click that leads to a list shows what it asked for, if it
  changes the page; no filter hides rows without a mark; ticking a value lists
  the rows that have it.
* **UI workflow.** A handler works on the variables its closure captured, sends
  several requests per click, and drops some errors. Correct means: the page
  shows what is stored; an interview is completed with scores and a comment;
  decisions archive what they should; rescheduling starts afresh; the status
  only moves forward.

`PROJECT.json` lists the single hazards at their lines with the properties that
cover them.

## 2. The modules

```
InterviewRows   rows of interviews, one function per operation
  |   \  \
  |    \  InterviewBook      what clients are promised: one step per operation
  |     \      ^ implemented by (Interviews, requests one at a time)
Catalog  \     |
  |   \   Interviews         the API's handlers, composed with Catalog
  |    \       |
  |  Catalog_proofs <-- Interviews_proofs <-- Sequential_proofs
  |
InterviewRows -> DecisionWorkflow <-- DecisionWorkflow_proofs
                   |                 the browser, over the API as one step each
                   v keeps to
                 InterviewBook
AuthService <-- AuthService_proofs <-- AuthSequential_proofs
                                     accounts, cache, tokens
ListPages   <-- ListPages_proofs     the lists in a browser, over rows of the API
Session   Roles   ListViews          the token and the user of a tab; roles in
    \       |      /                  localStorage; filters (both over Arrays)
          Client  <-- Client_proofs  one tab: the three together
MC*             instances for TLC
```

**Catalog** (`AS` CandidateService, VacancyService, CompetencyService). `row` is
the three tables, `links` the table of required competencies, `logged` what the
audit log of an entity says when read back in order, `job[q]` the memory of the
handler of request `q`: the row as read (`seen`), the row to save (`new`), the
difference of links. Each operation has one action for its read and checks
(`Archive`, `UpdateVacancy`, ...), then `DiffLinks` and `CheckLink` where the
code looks things up one by one, then `Save`, the transaction. The creation of a
vacancy saves three times (`CreateVacancy`, `SaveNewLinks`, `LogVacancy`).
`Abandon` is every way a handler ends without its next save: exception, failed
transaction, cancelled request, killed process. Names, phones and texts are left
out; a column group written and cleared together (ArchivedAt, ArchivedById,
ArchivedReason) is one flag.

**InterviewRows** has what each operation makes of a row of `interviews`, for
the three modules that need it; its copy semantics (`null` keeps the column) is
`Given`.

**Interviews** extends Catalog, whose steps interleave with its own. `interview`
and `matrix` are the tables, `trail` the audit log read back, `task[h]` the
memory of a handler, `onDuty` the column users.is_active, which the Go service
writes. `Create`, then `ReadLinks`, then one `LookUpItem` per competency, then
`SaveTask`; the other operations are `Fetch` then `SaveTask`; `UpsertMatrix`
looks at the status it has read, then at each item.

**InterviewBook** is the abstract specification: a book in which every operation
is one step on the row as it is and scores are written while it is planned. It is
used from both sides: Interviews implements it (`ImplementsBook`), and the
browser of DecisionWorkflow takes no step that it does not have (`KeepsBook`).

**AuthService** (Go). `account` is the table, `cache` the map of entries with the
ticks they have left, `token[u][r]` the ticks for which the API accepts the last
token of a user with a role (`Accepted`: its lifetime and the five minutes of
`ClockSkew`, which Program.cs leaves at its default, `Skew`), `call[q]` a
handler's memory. Logins, emails and names are words, and may share them. Reads and cache writes are separate
steps (`LookUp`, `FindByLoginOrEmail`, `Issue`; `Insert`, `Fill`; `Write`,
`Drop`; `DeleteUser` invalidates, `SoftDelete` writes). `Abandon` after a
committed write is an answer that got lost, `Restart` a restart of the process,
`Tick` the clock. `since` only observes: how long ago the table would still have
given this user this role.

**DecisionWorkflow** (App.js). `ui[c]` is the page in a browser: the list, the
card (`shown`, `id`, `view`), the comment draft, the row being edited, the
interview being moved. `click[q]` is the handler of one click: what it captured
(`was`), the answer just served, the list it will show, what is left to archive.
`book` and `score` are the tables, behind an API taken as in InterviewBook, which
`KeepsBook` makes good (`BookRow` adds the columns the workflow never tells
apart; the tables may be in any state at first, so it is the steps that are
compared). A request is served by `Serve*` and its answer shown by `Show*`, so
other clicks fall in between. `text` is the comment in `editInterviewData`, which
the edit of a row shares with the form of a rescheduling: opening, closing or
serving either clears it (`NoText`), and a row saved then has no candidate and is
refused. `behind` and `lost` only observe that a request or
answer was lost.

**ListPages** (App.js, DeletedPage.js). `kind` says which of the four lists a
behaviour is about: they share no state and no handler. `table` is the table of
the API, `list` what the page shows, `job[q]` the `q`-th request: the list its
handler captured (`base`), what it sent, the answer (`got`). A click is
`handle...`/`OpenEdit`/`GoTo...`, the API's part `Serve`, `ServeLoad`, `Fail`, the
rest of the handler `End...`; `Relist` is `setX(newList)` after the `await`.
`Alerted` is the `catch`. Serving and losing the answer is one step
(`Refused` after a commit). `OtherClient` changes rows at any time. `doubt`,
`binDoubt`, `sure` and `guess` are history: rows changed since the list (or the
list a handler captured, or the row in a form) was told of them, and rows the
page made up a field of.

**Session** (App.js, api.js). `stored` is localStorage, `tab` what the tab shows
and whose token it was read with, `call[q]` a chain of requests: `"login"`, or
`"me"` (the check), or `"lists"`, `"users"`, `"logs"` (loadData, in that order),
each with the token that was stored when it was sent; `"audit"` is the log read
by the log page on its own, at once when the page is opened there, whoever is
signed in or nobody. `EndMe`, `EndLists`, ... handle the answers, 401 (`Refused`)
among them: it clears the token and reloads the page, but what runs goes on until
then (`reloading`), and a page reloaded at the log without a token is refused and
reloads again. `OtherTab` stores and removes tokens. `raced` and `late` are
history: `raced`, that another tab has changed the token or an older check was
answered; `late`, which of the shown data came while nobody was named or was
asked for before the last change of user.

**Roles** (App.js, constants). `roles` is the tab's list, `hr_roles` the copy in
localStorage; `setRoles` is the state setter with the effect that stores it;
`Granted` finds the first role with an identifier, as `hasPermission` does.

**ListViews** (App.js, SearchFilter.js, DeletedPage.js). `view` is the filter of
the list `viewed`, `roleFilter` that by role (a word or an array). Every input of
`SearchFilter` is an action; `Navigated` is the two effects of a change of page
in their order. A candidate's card opens over other pages, and late answers open
it over the interviews themselves: its button then changes no page, and
`OpenInterviewsOf` adds the name to what was filtered for. Rows are not state: the properties quantify over what a row can
say (`Rows`), and candidates' computed status (`getCandidateStatus`) is among it.

**Arrays** has what `filter` leaves of a JavaScript array, for the two modules
that remove elements from one.

**Client** is the three in one tab. They share no variable and none enables or
disables the other, so a behaviour moves one of them.

## 3. Runs

All runs are finite because requests and clicks are each served once. `Overlap`
says whether they may overlap: properties the code promises only when they do
not are checked in runs of their own (`*_sequential`), and README and property
say so. Distinct states are rounded.

| Run | Instance | States | Shows |
|---|---|---|---|
| `catalog` | 3 overlapping requests; a candidate, a vacancy, 2 competencies; scores 0, 4, 6 | 647,000 | CatalogTypeOK, StampsAgree, ScaleInRange, LinksResolve, CreationLogged, DeletionUndone |
| `interviews` | 2 requests on one interview and 1 on the catalog, overlapping; scores -1, 0, 4, 6 | 352,000 | InterviewsTypeOK, ScoresInRange, NothingHalfCreated, LateScoresAreOld, NoScoreLostToInsert, ForeignColumnsAreOld |
| `interviews_sequential` | 3 requests on an interview and 2 on the catalog, one at a time | 495,000 | TrailTellsRow, LogTellsMarks, ImplementsBook, BookedWhileOpen, LinksAsSubmitted |
| `auth` | 3 overlapping requests on an account; entry and token live 2 ticks, the API accepts a token for 2 more, a handler runs at most 1; faults | 195,000 | AuthTypeOK, CacheStaleness, TokenStaleness, CachedAccountsUsable |
| `auth_sequential` | 3 requests one at a time, 2 accounts, 2 logins, 2 emails and 2 names that share three words, no faults | 691,000 | OwnKeysCurrent |
| `workflow` | an administrator's browser, 2 interviews of a candidate, 3 clicks that wait for each other, faults | 647,000 | WorkflowTypeOK, ScreenCurrent, CompletedProperly, OthersArchived, TurnedDownArchived, RescheduledAfresh, KeepsBook |
| `pages` | each of the four lists with 2 rows in any state, 2 overlapping requests, a change by another client, lost answers and failures | 2,825,000 | PagesTypeOK, ListTellsTable, BinTellsTable, UntouchedStatusKept |
| `client` | 2 sign-ins and 3 chains of requests; 2 changes of 2 roles; the filters of 7 lists | 635,000 | ClientTypeOK, ShownIsSignedIn, DataIsOwn, AskedIsListed, NoHiddenFilter, SignInSettles, NewRoleGrantsNothing |
| `scores_frozen` | as `interviews` | - | ScoresFrozen is violated |
| `status_reopened` | one browser, 2 overlapping clicks | - | PlannedByReschedulingOnly is violated |
| `others_left_open` | a decision maker's browser, 1 click | - | OthersArchived is violated |
| `role_filter` | as `client`, the list of users | - | TickedRolesListed is violated |

Why the bounds are enough. Races in this code are between the read of one
handler and the save of another; two overlapping requests exhibit each of them
and a third one can prepare the state (a deletion, a link, a scale) or follow
them. Rows of different entities meet only in links, matrices and unique keys,
so one or two of each suffice. Initial states are not empty tables only but all
tables that creations leave, so no request is spent on reaching them (`pages`
starts from rows in any state). Scores lie
below, on and above each scale. In `auth`, lifetimes of two ticks with a slack of
one are the smallest at which an entry can be read, cached late, used late and
still be alive; the properties are stated in these constants. In
`auth_sequential` one word is a login and an email, one a login and a name, one an
email and a name: each column's words meet those of each other, and a word can
pass from account to account. In `pages` two
handlers that captured the same list and a change by somebody else cover all
ways one list can overwrite another; the theorems cover the rest. In `client`
three chains are a check, a sign-in and a load at once; of roles the names are
chosen so that a new one meets an old identifier, and one gives the empty
identifier. The bounds have
names: `CatalogRequest`, `InterviewRequest`, `AuthRequest`, `Click`, `Clicks`,
`Calls` (how many requests), `Others`, `Logins`, `Edits` (how many changes),
`TTL`, `Life`, `Skew`, `Slack` (ticks), `Ages` (older than this is not told
apart), `ScoreInput`, `MarkInput`, `CommentInput`, `DecisionInput`, `Star`,
`Text`, `Years`, `Day`, `Label` (inputs), `Ticks` (how many words a selection of
roles has; the array has the letters of one word and the roles ticked since).
Symmetry is used for requests and clicks, in the workflow for
interviews, in `pages` for rows and texts, which are never told apart; not in
`client`, which checks liveness.

**Fairness and liveness.** Services wait for nothing and for nobody: a request
that is cut off is a legal end of every handler, so "every request is answered"
is false of the code by design, no component retries, and the services assume no
fairness. The session does wait, in two places, and `SignInSettles` says that it
does not wait forever. `SessionFairness` is what that rests on: the timer of the
greeting (`setTimeout`, App.js) fires, and a `fetch` of the token check ends, with
an answer or with an error, which `EndMe` handles alike. Requests of loads and
sign-ins need not end. `CHECK_DEADLOCK FALSE` is
stated because an instance stops when its requests are served.

## 4. Findings

* `scores_frozen` - "scores can be edited for a planned interview only"
  (`AS`:948) is checked on the row read, not on the row there is at the save.
* `status_reopened` - leaving the comment box sends the status the card had
  then (`App.js`:898). Served after the completion clicked next, it plans the
  completed interview again; README.md:41 has statuses move forward.
* `others_left_open` - README.md:43 promises that hiring archives the
  candidate's other interviews. The page sends these requests with the decision
  maker's token, the endpoint admits Admin and HR only, the errors are dropped
  (`App.js`:793), and the page shows them as archived.
* `role_filter` - README.md:90 promises filters in which several roles can be
  ticked. The filter stores an array, and `getFilteredUsers` (`App.js`:430) keeps
  users whose role *equals* it: as soon as a role is ticked the list is empty.

### Divergences

Further places where code and documents differ, seen while modelling; the models
follow the code, and no run is spent on them, as each shows in a few steps.

* README.md:72 says every creation is logged. A vacancy is committed before its
  competencies are checked (`AS`:426), so a request with an inactive competency,
  or one cut off, leaves a vacancy no entry tells of. CreationLogged is therefore
  about candidates and competencies only.
* README.md:72 lists decisions among what is logged. `UpdateStatusAsync` stores a
  decision that comes with a status and does not log it (`AS`:917); only
  `DecideAsync` does. TrailTellsRow is about status and marks only.
* README.md:44 has a candidate rejected when all interviews are turned down. In
  `getCandidateStatus` (`App.js` 1707-1728) the branch that returns "Отклонён"
  comes after one that takes all its cases, so the candidate is shown as waiting
  for an interview.
* README.md:74 has the log filtered by date. The filter of the log offers the
  dates, and its `setFilter` ignores them.
* README.md:28 says that deleted users cannot sign in. `DeleteUser` drops the
  entries under the login and the email; one under the full name, or under a
  login the account had before, stays, and `Login` looks at the copy in the entry,
  which says not deleted. Until the entry ends (five minutes) the deleted user
  signs in under that word and is given a token; so does one whose entry a login
  under way puts back. CacheStaleness and TokenStaleness bound for how long, and
  claim no more.
* Program.cs asks for the lifetime of tokens to be validated, and leaves
  `ClockSkew` at its default: a token is accepted for five minutes more than it
  lives. TokenStaleness counts them.

What follows contradicts no document, but shows in the models and is why some
properties have the exceptions they have.

* A load under way at a sign-out fills the lists of the next user of the tab with
  the former one's data, until the next load (`App.js` 1089-1109 cancels nothing).
  DataIsOwn calls such data `late`.
* A tab opened at the log page with a token reads the log while the check of the
  token is under way; if the check fails, the log stays in the tab, for the next
  user until the next load. Without a token (it has ended while the log was shown)
  the request is refused, the 401 reloads the page, and it is sent again, without
  end; a sign-in answered in between is undone by the next 401.
* A word may be one account's login and another's email or name. `Login` under it
  finds whichever account was cached, and checks the password against that one.
  OwnKeysCurrent excepts it.
* A late answer to the edit of a candidate opens the candidate's card over any
  page. Over the interviews its button leads to the page already shown: the old
  filters stay, and the name is added to them. AskedIsListed says so.
* The form of a rescheduling and the edit of a row share `editInterviewData`. Used
  at once, each overwrites or clears what the other holds, and the row's save
  fails for want of a candidate; nothing else is lost.

## 5. Proofs

The theorems of `Catalog_proofs` and `Interviews_proofs` hold for any sets of
rows, users, requests and inputs, overlapping or not; the assumptions are
`CatalogAssumption` (the three kinds of identifiers are disjoint, submitted
scores are naturals) and `InterviewsAssumption` (null values are not
identifiers or numbers, submitted scores are integers, decisions are decisions,
there is something to plan with).

*Catalog.* The invariants speak of the tables, but a save copies over the table
a row computed in an earlier state. They become inductive with `JobsSound`: what
each handler is going to save is a stored row with its stamps together and its
scale in range, over a row that is there unless the handler creates it; links to
be inserted are links to stored competencies; only a restore undeletes what it
saw deleted. `Sound` is the conjunction; `TypesStep` shows that the types are
kept, `SoundStep` that `Sound` is, action by action, with `Grows` (rows are
never removed) for the handlers that stay behind. From it: `CatalogTypes`,
`StampsAlwaysAgree`, `ScaleAlwaysInRange`, `LinksAlwaysResolve`,
`CreationAlwaysLogged`, and the action property `DeletionOnlyUndone`.

*Interviews.* A step is one of this service or one of Catalog, so the invariant
of Catalog is carried along (`CatalogStep`). `TablesTypeOK` are the types,
`Safe` the rest: `TaskSound` says of a handler in progress that the row it will
save is stored, over an interview that is (an edit) or that is not and that no
other handler works on (a creation); that a score request has seen the status
"Planned"; that an edit carries no scores; and that the scores already looked up
are in 0..5 (from `ScaleInRange` of the competency *at the time it was looked
up*, which is why the proof needs the catalog's invariant and not the current
scale). `IdleHasNoId` says that ended requests point nowhere. From it:
`InterviewsTypes`, `ScoresAlwaysInRange`, `NothingEverHalfCreated`, and the
action properties `LateScoresAlwaysOld` and `NoScoreEverLostToInsert`. With
`Kept` (what a request saves differs from what it read in its own columns only)
also `ForeignColumnsAlwaysOld`.

*One request at a time.* The theorems of `Sequential_proofs` assume `~Overlap`
besides, and nothing about the number of requests, rows or inputs. A request
still takes several steps; what makes its save right is that what it has read is
still there: `TaskFresh` (the row to save is the operation applied to the row
stored now; the candidate, the vacancy and the interviewer of a creation are
still open), carried by `OneTask` (nobody else is at work), and `JobFresh` with
`OneJob` for the catalog, whose requests do not run while one of this service
does. From `Fresh`: `TrailAlwaysTellsRow`, `AlwaysBookedWhileOpen` and
`ServiceImplementsBook`, the refinement: initial states are initial states of the
book, the save of each operation is the book's step of that operation, and every
other step of the service or of the catalog leaves the book as it is. From
`CatalogFresh`: `LogAlwaysTellsMarks` and `LinksAlwaysAsSubmitted` (removing the
links read before that were not sent and adding those sent that were not read
gives what was sent, if the links read are the links stored).

*AuthService.* The theorems of `AuthService_proofs` hold for any users, cache
keys, requests and lifetimes, for overlapping requests and for lost answers and
restarts; the assumption is `AuthAssumption` (lifetimes are positive, there is
an account's worth of inputs). What is cached or issued comes from what a handler
read or wrote earlier, so `CacheStaleness` and `TokenStaleness` are not
inductive. `AuthTypes` adds to the types that a handler that holds an account,
and an entry that is alive, name a user; `AuthSound` adds `TablesCurrent` (an
account that can be logged in was so now) and `CallsSound`: an account read from
the table or just written is stale by no more than the handler's age, one taken
from the cache by the age and the lifetime of an entry besides. Every step but
`Tick` leaves each account as fresh as it was or fresher (`Fresher`), so all that
a step does not touch stays sound (`QuietStep`); `Tick` ages accounts, entries,
tokens and handlers by one, which keeps each bound (`TickSound`). From it:
`AuthAlwaysTyped`, `CacheStalenessBounded`, `TokenStalenessBounded`,
`CachedAccountsAlwaysUsable`.

`AuthSequential_proofs` assumes `~Overlap` and `~Faults` besides; logins, emails
and names may share words. `OwnKeysCurrent` holds between requests only; within one, the account just written is `Untold` until
`Fill` or `Drop`. `OwnCached` says that everything else under own keys is current,
`CallFresh` that what the one request at work has read is still so. Entries under
former logins are not spoken of: they are stale, but are overwritten or dropped
when another account takes the login. From it: `OwnKeysAlwaysCurrent`.

*ListPages.* The theorems of `ListPages_proofs` hold for any number of rows,
texts, requests under way and changes of other clients; the assumption is
`ListPagesAssumption` (there is a row that is no row; the kinds are the four).
ListTellsTable speaks of the list on the screen, which a handler overwrites with
one computed from a list captured long before. It becomes inductive with
`Right`: the list a request has captured is right about every row that is not in
the request's doubt, and so is the list that its handler would write (`Result`)
once it is answered; and with `Formed`: a save and a toggle are about a row with
an identifier, and a toggle about one that the captured list shows on the other
side. `HeardInv` is the heart: the row as the API leaves it and the row as the
handler makes it agree, operation by operation (`HeardRow`); `DoubtedInv` says
that everybody else's doubt grows with the row. `FormInv` and `BinInv` carry the
status in a form and the entries of the deleted page along. From it:
`PagesTypes`, `ListAlwaysTells`, `BinAlwaysTells` and the action property
`StatusAlwaysKept`.

*DecisionWorkflow.* `WorkflowTypesAlways` holds for any browsers, interviews,
competencies and clicks, overlapping or not, with faults or without. `StepFits`
is what the types need: which operation a click can be of, by the step it is at.
`WorkflowKeepsBook` holds as generally: serving a request is a step of
InterviewBook, operation by operation (`ServeInBook` and its neighbours), from
however old a page the request was sent. Its invariant is `Known`: all that a
page, a captured page, a list about to be shown or a list of interviews to archive
says of an interview and that cannot become false is that it exists; the one click
that says the opposite, a planning not yet served, is the only one for its
interview (`PlansApart`). That scores meet a planned row is not the page's merit
but the API's look at the row (`Refused`). The run has one browser whose clicks
wait for each other and whose answers may be lost; overlapping clicks and several
browsers are the theorem's.
The other theorems are about a user who is alone and waits for answers (`Alone`:
`~Overlap` and one browser), as in the run `workflow`: nothing tells a page of
what another browser does, and overlapping clicks send what the page showed when
they were made (`status_reopened` is what comes of it). Faults may happen in all
of them, at any request. Two invariants carry them:

* `WorkflowSound` relates page and tables when the page may be *old*, because a
  request or answer was lost. A handler puts on the page what it makes of the
  page, and the buttons send what the page shows, so neither is sound alone.
  `ViewSound` is what any view of an interview, in the list, on the card or
  captured by a handler, allows one to conclude: what it shows as planned is not
  decided on and what it then shows as scored is scored, what it shows as awaiting
  a decision is completed, and it has the rows of the matrix that exist.
  `RowsSound` has no planned row decided on, `OneClick` one handler at work,
  `InvitedSound` what is listed as invited to the next stage be so or just be
  reset, and `ClickSound` is what the handler has found, kept of the page and had
  served at each of its steps (of a rescheduling: planned, undecided and without
  comment after two requests, without scores after the third).
  From it: `CompletedAlways`, `RescheduledAlways`.
* `ListCurrent` is about a page that is *not* old. Until a handler's request is
  served its list is what is stored; then the list the handler will make of the
  answer (`ToShow`) is; and while a decision archives the others, the list it will
  show is what is stored with those still to be archived marked (`MarkAll`). That
  is so only of a user who may archive (`MayArchive`): for a decision maker the API
  refuses and the page marks them all the same (`others_left_open`). From it, with
  `WorkflowSound`: `ScreenCurrentAlways`, and, because the interviews to archive
  are picked from that list, `OthersArchivedAlways` and `TurnedDownAlways`.

*Client.* The theorems of `Client_proofs` hold for any number of sign-ins and
chains of requests, any roles, names and permissions, any lists, labels and days;
the assumptions are those of Session, Roles and ListViews (the roles a client
starts with are roles, the names of the roles are finitely many, days are
positive). `ClientInv` is the invariant of each part, which a step of the tab keeps
because it is a step of one part and leaves the variables of the others alone
(`ClientStep`).

* Session: DataIsOwn is part of `SessionSound` and not inductive alone. `Fresh`
  says what a request sent since the last sign-in or sign-out tells of the tab: a
  check, that nobody is named and that what is shown was read with its token or
  not at all; a load sent with a token, that this is the token of the user named
  or the one being checked. `SignedOut` and `SignedIn` are the two halves of
  ShownIsSignedIn, `OneCheck` has one check at a time. These hold until `raced`;
  `Leftover`, that what is shown with the login form is `late`, always, as the
  next sign-in ends the race and keeps the data. From it: `SessionTypes`,
  `ShownAlwaysSignedIn`, `DataAlwaysOwn`, and, of the tab as a whole,
  `TabAlwaysOwn`.
* Roles: the type is inductive with what `filter` returns (`FilteredType`: first
  that the recursive function exists, then what its values are, each by a least
  counterexample, `Least`). `GrantedFirst` says that the first role of an
  identifier decides, `AppendedGrants` that it stays first when one is added at
  the end, `NewRoleStep` that nothing but saving adds one under an open form. From
  it: `NewRoleNeverGrants`.
* Filters: AskedIsListed speaks of rows and is not inductive; `AskedSound` is the
  filter it follows from, part by part: the status and decision passed along, the
  search of the click, no date; after a click that changed no page, the search
  alone. `WithStateType` and `AfterResetType` are the two
  effects. NoHiddenFilter needs the types only, but all seven lists'
  (`StatusOfAll`: each candidate has one of the six statuses). From it:
  `AskedAlwaysListed`, `NothingEverHidden`, `ClientTypesAlways`.

Only model-checked: SignInSettles, which is liveness under fairness and so beyond
the prover; every other property of a passing run is stated by a theorem. Where
a definition is recursive (`Filtered`) it is a recursive function, and
`SelectSeq`, of which the prover knows nothing, is not used.

## 6. What the models leave out

* Catalog: names, contacts, descriptions; lists and searches. Identifiers are
  fresh Guids.
* Interviews: the three lookups of `Create` are one step, as the save comes later
  in any case; a score request has each competency at most once; roles are not
  enforced here (any operation may come at any time), which only adds behaviours.
* AuthService: a password is good or not good (then the request is `Abandon`);
  refresh tokens, hashing and the seed are left out. The two `Set`s of the cache
  after a login or a registration are one step. DeleteUser's read and
  invalidation are one step, and so are SetUserStatus' existence check and write
  and RestoreUser's check and read. A handler runs no longer than `Slack`; the
  code has no such bound, and the staleness bounds are relative to it.
* DecisionWorkflow: a request is atomic (its races are in Interviews); the
  candidate of an interview is fixed; comments are empty or not; the answers of
  the requests in the middle of a handler arrive when they are served. Log-out,
  the reload after a 401, the page of deleted records and the fields of forms
  are left out (Session and ListPages have the first three for the other lists);
  of `editInterviewData` only the row's comment is kept, the fields of the form of
  a rescheduling are taken to be filled in.
  Roles have their default permissions.
* ListPages: a request is atomic (its races are in Catalog and AuthService); text
  columns change together; who is shown a button is left out (any user may click
  any), which only adds behaviours; the card's own copy of the row, its editing
  mode and the orders of the lists are left out. A save of a candidate drops the
  archive mark, as the API does.
* Session: every sign-in is another user, so a token stands for a user. Of the
  lists only whose token they were read with is kept; the four lists loaded
  together are one. Of several open tabs one is modelled, the others act on
  localStorage only. How long a token lives is AuthService's matter: here a request
  sent with one can succeed, and any can be refused. Which page is shown is left
  out: a tab is opened at any, and any may be the log.
* Roles: colours and descriptions; the order in which groups are shown.
* ListViews: a query finds a row or not; orders are left out; dates are days.
* Not modelled: startup and seed (scripts against the database and the order in
  which containers start), reports and PDF layout (read-only), hashing and the C#
  AuthService (registered nowhere), configuration, migrations (generated). Of the
  UI: rendering, field validation, and what no page uses: `pages/Candidates`,
  `pages/Dashboard`, `AddCandidateModal`, `Login`, `Greeting`, `Header`,
  `Sidebar`, `renderArchivePage` and `handleStarClick` of App.js.

## 7. Order of work, and what could follow

The modules were written in the order of the services' importance: Catalog and
its proofs; InterviewRows, Interviews, InterviewBook and proofs; AuthService and
proofs; DecisionWorkflow; ListPages and proofs; Session; Roles,
ListViews, Client; the proofs of DecisionWorkflow and of Client.

What could follow: what the workflow of interviews still guarantees with several
browsers or overlapping clicks beyond its types and KeepsBook; the table of
roles and endpoints (`ApiControllers.cs`) in front of the operations of Catalog
and Interviews; startup, as two services that create one schema.
