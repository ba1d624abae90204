----------------------------- MODULE ListViews -----------------------------
(***************************************************************************)
(* Searching and filtering in the React client: the filters of every list  *)
(* (App.js, DeletedPage.js), the component that edits them                 *)
(* (SearchFilter.js), and the two effects that change them when the user   *)
(* goes to another page.                                                   *)
(*                                                                         *)
(* A filter decides on every row by itself, so a behaviour has no rows:    *)
(* properties speak of all rows there could be.  The filters of different  *)
(* lists do not affect each other, so a behaviour follows one list, viewed. *)
(* Orders of rows are left out.                                            *)
(***************************************************************************)
EXTENDS Integers, Sequences, SequencesExt, Arrays

CONSTANTS
    List,       \* the lists considered
    Label,      \* categories, areas and actions
    Day,        \* days on which interviews take place
    Years,      \* years of experience entered
    RoleTitle,  \* names of the roles
    RoleKey,    \* RoleKey[n]: the identifier of the role named n
    Ticks       \* how long a selection of roles can get


VARIABLES
    viewed,     \* the list
    place,      \* the page: the dashboard, that of the list or another one
    view,       \* the filter of the list
    roleFilter, \* the filter by role, of the list of users
    isAdmin,    \* the user is an administrator
    asked       \* history: what the list was last asked for, and still is

viewsVars == <<viewed, place, view, roleFilter, isAdmin, asked>>

Lists == {"interviews", "candidates", "competencies", "vacancies", "logs",
          "users", "deleted"}

ASSUME ListViewsAssumption ==
    /\ List \subseteq Lists
    /\ Day \subseteq Nat \ {0} /\ Years \subseteq Nat
    /\ IsFiniteSet(RoleTitle)
    /\ Ticks \in Nat

-----------------------------------------------------------------------------
(* What can be ticked.                                                     *)
InterviewStatus == {"Planned", "Completed", "Cancelled"}
InterviewDecision == {"Pending", "Hired", "Rejected", "NextStage",
                      "TalentPool", "None"}
CandidateStatus == {"Active", "AwaitsInterview", "AwaitsDecision", "Hired",
                    "TalentPool", "Rejected"}

(* Ranges of years, as labelled; the last one has no end.                  *)
Range12 == 1..2
Range35 == 3..5
Range5 == {n \in Years : n >= 5}
Experience == {"none", "1-2", "3-5", "5+"}

Options(list, key) ==
    CASE list = "interviews" /\ key = "status" ->
            InterviewStatus \cup {"Archive"}
      [] list = "interviews" /\ key = "decision" -> InterviewDecision
      [] list = "candidates" /\ key = "status" -> CandidateStatus
      [] list = "candidates" /\ key = "experience" -> Experience
      [] list \in {"competencies", "deleted"} /\ key = "category" -> Label
      [] list = "logs" /\ key \in {"area", "action"} -> Label
      [] OTHER -> {}

Key == {"status", "decision", "experience", "category", "area", "action"}

AllOptions == UNION {Options(list, key) : list \in Lists, key \in Key}

(* The whole filter but for the roles.  0 is no date; search says whether  *)
(* there is a query.                                                       *)
View == [search : BOOLEAN, archived : BOOLEAN,
         chosen : [Key -> SUBSET AllOptions],
         from : Day \cup {0}, to : Day \cup {0}]

NoView == [search |-> FALSE, archived |-> FALSE,
           chosen |-> [key \in Key |-> {}], from |-> 0, to |-> 0]

(* roleFilter is the word for "all" or an array of identifiers, and, once  *)
(* the word has been spread into one, of its letters.                      *)
AllWord == <<"V", "s", "e">>
AllRoles == [all |-> TRUE, picked |-> AllWord]

(* Of the effects of a change of page.                                     *)
Places == {"dashboard", "list", "other"}

ViewsInit ==
    /\ viewed \in List
    /\ place = "dashboard"
    /\ view = NoView
    /\ roleFilter = AllRoles
    /\ isAdmin \in BOOLEAN
    /\ asked = "nothing"

-----------------------------------------------------------------------------
(* Changing pages.  The first effect resets the filters of interviews and  *)
(* the search of candidates, and nothing else; the deleted page loses its  *)
(* state when it is left.                                                  *)
AfterReset(v) ==
    CASE viewed = "interviews" -> [NoView EXCEPT !.archived = v.archived]
      [] viewed = "candidates" -> [v EXCEPT !.search = FALSE]
      [] viewed = "deleted" -> NoView
      [] OTHER -> v

(* The second effect applies what the click passed along.                  *)
NoState == [search |-> FALSE, decision |-> {}, status |-> {}]

WithState(v, state) ==
    [v EXCEPT !.search = state.search \/ @,
              !.chosen["decision"] = IF state.decision # {}
                                     THEN state.decision ELSE @,
              !.chosen["status"] = IF state.status # {}
                                   THEN state.status ELSE @]

(* Mutated form of Navigated: the effects in the other order.              *)
NavigatedLate(v, state) == AfterReset(WithState(v, state))

Navigated(v, state) == WithState(AfterReset(v), state)

GoToPlace(to) ==
    /\ to # place
    /\ place' = to
    /\ view' = Navigated(view, NoState)
    /\ asked' = "nothing"
    /\ UNCHANGED <<viewed, roleFilter, isAdmin>>

ToInterviews(state, what) ==
    /\ viewed = "interviews" /\ place # "list"
    /\ place' = "list"
    /\ view' = Navigated(view, state)
    /\ asked' = what
    /\ UNCHANGED <<viewed, roleFilter, isAdmin>>

(* The dashboard's button for a decision maker.                            *)
OpenAwaiting ==
    /\ place = "dashboard"
    /\ ToInterviews([search |-> FALSE, decision |-> {"Pending"},
                     status |-> {"Completed"}], "awaiting")

(* The button on a candidate's card, which opens over other pages.  The    *)
(* late answer to a change of the candidate (handleSaveEdit) opens it over *)
(* the interviews, too; no page changes then, and nothing is reset.        *)
OfCandidate == [search |-> TRUE, decision |-> {}, status |-> {}]

OpenInterviewsOf ==
    \/ ToInterviews(OfCandidate, "candidate")
    \/ /\ viewed = "interviews" /\ place = "list"
       /\ view' = WithState(view, OfCandidate)
       /\ asked' = "among"
       /\ UNCHANGED <<viewed, place, roleFilter, isAdmin>>

-----------------------------------------------------------------------------
(* Editing the filter.                                                     *)
Set(v) ==
    /\ place = "list"
    /\ view' = v
    /\ asked' = "nothing"
    /\ UNCHANGED <<viewed, place, roleFilter, isAdmin>>

setSearchQuery == Set([view EXCEPT !.search = ~@])

showArchived ==
    /\ viewed \in {"interviews", "candidates", "competencies", "vacancies"}
    /\ Set([view EXCEPT !.archived = ~@])

toggle(key, opt) ==
    /\ opt \in Options(viewed, key)
    /\ Set([view EXCEPT !.chosen[key] = IF opt \in @ THEN @ \ {opt}
                                                     ELSE @ \cup {opt}])

toggleAll(key) ==
    LET options == Options(viewed, key) IN
    /\ options # {}
    /\ Set([view EXCEPT !.chosen[key] = IF @ = options THEN {} ELSE options])

(* Mutated form of onFromChange: the other end is not looked at.           *)
FromUnchecked(d) ==
    /\ viewed = "interviews"
    /\ Set([view EXCEPT !.from = d])

(* Only interviews have dates; the dates of the log's filter go nowhere.   *)
onFromChange(d) ==
    /\ viewed = "interviews"
    /\ d = 0 \/ view.to = 0 \/ d <= view.to
    /\ Set([view EXCEPT !.from = d])

onToChange(d) ==
    /\ viewed = "interviews"
    /\ d = 0 \/ view.from = 0 \/ d >= view.from
    /\ Set([view EXCEPT !.to = d])

-----------------------------------------------------------------------------
(* The filter by role.  Names are ticked and identifiers are stored, so a  *)
(* tick finds the role ticked only if its name is its identifier; the      *)
(* option "all" is a name without a role.                                  *)
ToKey(n) == IF n \in RoleTitle THEN RoleKey[n] ELSE n

RoleNames == RoleTitle \cup {"all"}

setRoleFilter(picked) ==
    /\ viewed = "users" /\ place = "list"
    /\ Len(picked) <= Ticks
    /\ roleFilter' = IF picked = <<>> THEN AllRoles
                     ELSE [all |-> FALSE,
                           picked |-> [k \in DOMAIN picked |->
                                          ToKey(picked[k])]]
    /\ asked' = "nothing"
    /\ UNCHANGED <<viewed, place, view, isAdmin>>

(* Unticking "all" of the word throws: a word has no filter function.      *)
toggleRole(n) ==
    LET picked == roleFilter.picked
        has == n \in Range(picked) \/ (n = "all" /\ roleFilter.all)
    IN  /\ ~(roleFilter.all /\ has)
        /\ setRoleFilter(
               IF has THEN Filtered(picked, {k \in DOMAIN picked : picked[k] = n})
                      ELSE Append(picked, n))

(* Whether everything is ticked is judged by the length of the selection.  *)
toggleAllRoles ==
    LET names == SetToSeq(RoleNames)
    IN  setRoleFilter(IF Len(roleFilter.picked) = Len(names) THEN <<>>
                      ELSE names)

-----------------------------------------------------------------------------
(* Which rows are listed.  found says whether the query finds the row.     *)
Chosen(key) == view.chosen[key]

Passes(key, value) == Chosen(key) # {} => value \in Chosen(key)

(* The status "archive" asks for the archived ones, of any status.         *)
getFilteredInterviews(r) ==
    /\ "Archive" \notin Chosen("status") => Passes("status", r.status)
    /\ IF "Archive" \in Chosen("status") THEN r.archived
       ELSE view.archived \/ ~r.archived
    /\ Passes("decision", r.decision)
    /\ view.from # 0 => r.date >= view.from
    /\ view.to # 0 => r.date <= view.to
    /\ view.search => r.found

(* The status of a candidate, from those interviews that are not archived. *)
(* The case of a candidate turned down comes after one that includes it.   *)
getCandidateStatus(interviews) ==
    LET concluded == {i.decision : i \in {j \in interviews :
                                             j.status = "Completed"}}
        pending == \E i \in interviews : i.status = "Planned"
        allRejectedOrNext ==
            /\ concluded # {}
            /\ concluded \subseteq {"Rejected", "None", "NextStage"}
    IN  IF interviews = {} THEN "Active"
        ELSE IF "Hired" \in concluded THEN "Hired"
        ELSE IF "TalentPool" \in concluded THEN "TalentPool"
        ELSE IF allRejectedOrNext \/ (pending /\ concluded = {})
             THEN "AwaitsInterview"
        ELSE IF pending THEN "AwaitsDecision"
        ELSE IF concluded # {} /\ concluded \subseteq {"Rejected", "None"}
             THEN "Rejected"
        ELSE "Active"

(* Years that are no number count as none, or as nothing.                  *)
InRange(years, range) ==
    CASE range = "none" -> years = -1
      [] range = "1-2" -> years \in Range12
      [] range = "3-5" -> years \in Range35
      [] range = "5+" -> years \in Range5

getFilteredCandidates(r) ==
    /\ view.search => r.found
    /\ view.archived \/ ~r.archived
    /\ Passes("status", getCandidateStatus(r.interviews))
    /\ Chosen("experience") # {} =>
          \E range \in Chosen("experience") : InRange(r.years, range)

getFilteredCompetencies(r) ==
    /\ view.search => r.found
    /\ Passes("category", r.category)
    /\ view.archived \/ ~r.archived

getFilteredVacancies(r) ==
    /\ view.search => r.found
    /\ view.archived \/ ~r.archived

(* Everybody but an administrator sees the own entries only.               *)
getFilteredLogs(r) ==
    /\ isAdmin \/ r.own
    /\ view.search => r.found
    /\ Passes("area", r.area)
    /\ Passes("action", r.action)

(* A role is compared with the array, and equals none.                     *)
getFilteredUsers(r) ==
    /\ view.search => r.found
    /\ roleFilter.all

filteredItems(r) ==
    /\ view.search => r.found
    /\ Passes("category", r.category)

Listed(r) ==
    CASE viewed = "interviews" -> getFilteredInterviews(r)
      [] viewed = "candidates" -> getFilteredCandidates(r)
      [] viewed = "competencies" -> getFilteredCompetencies(r)
      [] viewed = "vacancies" -> getFilteredVacancies(r)
      [] viewed = "logs" -> getFilteredLogs(r)
      [] viewed = "users" -> getFilteredUsers(r)
      [] viewed = "deleted" -> filteredItems(r)

(* The rows there could be.  A candidate has up to two interviews that are *)
(* not archived.                                                           *)
Conversation == [status : InterviewStatus, decision : InterviewDecision]

Rows ==
    CASE viewed = "interviews" ->
            [found : BOOLEAN, archived : BOOLEAN, status : InterviewStatus,
             decision : InterviewDecision, date : Day]
      [] viewed = "candidates" ->
            [found : BOOLEAN, archived : BOOLEAN, years : Years \cup {-1},
             interviews : {{}} \cup {{i, j} : i, j \in Conversation}]
      [] viewed = "competencies" ->
            [found : BOOLEAN, archived : BOOLEAN, category : Label]
      [] viewed = "vacancies" -> [found : BOOLEAN, archived : BOOLEAN]
      [] viewed = "logs" ->
            [found : BOOLEAN, own : BOOLEAN, area : Label, action : Label]
      [] viewed = "users" ->
            [found : BOOLEAN, role : {RoleKey[n] : n \in RoleTitle}]
      [] viewed = "deleted" -> [found : BOOLEAN, category : Label]

-----------------------------------------------------------------------------
(* Mutated form of hasActiveFilters: a single tick is not counted.         *)
SeveralFilters ==
    \/ \E key \in Key : \E a, b \in Chosen(key) : a # b
    \/ view.from # 0 \/ view.to # 0
    \/ ~roleFilter.all

(* The mark on the button that opens the filters, with the button that     *)
(* resets them.                                                            *)
hasActiveFilters ==
    \/ \E key \in Key : Chosen(key) # {}
    \/ view.from # 0 \/ view.to # 0
    \/ ~roleFilter.all

clearAllFilters ==
    /\ place = "list" /\ hasActiveFilters
    /\ view' = [NoView EXCEPT !.archived = view.archived]
    /\ roleFilter' = AllRoles
    /\ asked' = "nothing"
    /\ UNCHANGED <<viewed, place, isAdmin>>

ViewsNext ==
    \/ \E to \in Places : GoToPlace(to)
    \/ OpenAwaiting \/ OpenInterviewsOf
    \/ setSearchQuery \/ showArchived
    \/ \E key \in Key : toggleAll(key) \/ \E opt \in AllOptions : toggle(key, opt)
    \/ \E d \in Day \cup {0} : onFromChange(d) \/ onToChange(d)
    \/ \E n \in RoleNames : toggleRole(n)
    \/ toggleAllRoles
    \/ clearAllFilters

ViewsSpec == ViewsInit /\ [][ViewsNext]_viewsVars

-----------------------------------------------------------------------------
(* What every variable holds; a pair of dates is in order.                 *)
ViewsTypeOK ==
    /\ viewed \in List
    /\ place \in Places
    /\ view \in View
    /\ view.from # 0 /\ view.to # 0 => view.from <= view.to
    /\ roleFilter.all \in BOOLEAN /\ Len(roleFilter.picked) \in 0..(Ticks + 3)
    /\ isAdmin \in BOOLEAN
    /\ asked \in {"nothing", "awaiting", "candidate", "among"}

(* The dashboard's "awaiting a decision" lists the interviews that were    *)
(* completed and not decided, and a candidate's card the interviews the    *)
(* name finds: whatever was filtered for before, no filter is left over    *)
(* but whether archived interviews are shown.  A card opened over the      *)
(* interviews themselves only adds the name to what was filtered for.      *)
AskedIsListed ==
    asked # "nothing" =>
        \A r \in Rows :
            /\ asked # "among" =>
                 (Listed(r) <=>
                     /\ view.archived \/ ~r.archived
                     /\ asked = "awaiting" =>
                           r.status = "Completed" /\ r.decision = "Pending"
                     /\ asked = "candidate" => r.found)
            /\ asked = "among" /\ Listed(r) => r.found

(* What a list shows to whom when nothing is filtered for.                 *)
Plain(r) ==
    CASE viewed \in {"users", "deleted"} -> TRUE
      [] viewed = "logs" -> isAdmin \/ r.own
      [] OTHER -> view.archived \/ ~r.archived

(* Nothing is filtered out unseen: with no query, and no mark on the       *)
(* button, a list shows all its rows but the archived ones and other       *)
(* people's log entries.  Ticking every status hides no candidate either:  *)
(* each has one of them.                                                   *)
NoHiddenFilter ==
    (/\ place = "list" /\ ~view.search
     /\ \/ ~hasActiveFilters
        \/ /\ viewed = "candidates" /\ Chosen("experience") = {}
           /\ Chosen("status") = CandidateStatus)
    => \A r \in Rows : Listed(r) <=> Plain(r)

(* Users whose role is ticked are listed: "Мульти-выбор для статусов,      *)
(* категорий, ролей, областей" (README.md:90).                             *)
TickedRolesListed ==
    place = "list" /\ ~view.search /\ ~roleFilter.all =>
        \A r \in Rows : r.role \in Range(roleFilter.picked) => Listed(r)

=============================================================================
