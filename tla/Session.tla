------------------------------ MODULE Session ------------------------------
(***************************************************************************)
(* Signing in and out in a tab of the React client (App.js), and the       *)
(* loading of what the tab shows.                                          *)
(*                                                                         *)
(* The tabs of a browser share the token in localStorage; who is signed in *)
(* and the lists are each tab's own.  apiFetch (api.js) reads the token    *)
(* whenever a request is sent, and on a 401 removes whatever token is      *)
(* stored by then and reloads the page.  Handlers await answers, so the    *)
(* token can change between a request and its answer.  One tab is          *)
(* modelled, next to others that sign in and out.                          *)
(***************************************************************************)
EXTENDS Naturals

CONSTANTS
    Logins,     \* how many sign-ins succeed in a behaviour
    Calls       \* how many loads, sign-ins and checks the tab starts

ASSUME SessionAssumption == Logins \in Nat /\ Calls \in Nat

VARIABLES
    stored,     \* the token in localStorage
    issued,     \* how many tokens have been issued
    tab,        \* what the tab shows
    call,       \* call[q]: what the q-th chain of requests waits for
    raced,      \* history: since it was opened or last signed in or out,
                \* another tab has changed the token, or the check of an older
                \* one has been answered
    late        \* history: what of the shown data came in while nobody was
                \* named, or was asked for before the last change of user

sessionVars == <<stored, issued, tab, call, raced, late>>

(* Tokens in the order they are issued; 0 is none.  Every sign-in is by    *)
(* another user, so a token also stands for the user it was issued to.     *)
Token == 0..Logins
CallId == 1..Calls

(* Of the shown data only its source is kept: whose token it was read      *)
(* with.  lists are the four lists that are loaded together.               *)
TabState == [step : {"login", "greeting", "main"}, user : Token,
             lists : Token, users : Token, logs : Token,
             reloading : BOOLEAN]

Shown == {"lists", "users", "logs"}

Opened == [step |-> "login", user |-> 0, lists |-> 0, users |-> 0,
           logs |-> 0, reloading |-> FALSE]

(* stale is history: the tab has signed in or out since it was sent.       *)
CallState == [what : {"free", "login", "me", "lists", "users", "logs",
                      "audit", "done"},
              token : Token, stale : BOOLEAN]

Idle(what) == [what |-> what, token |-> 0, stale |-> FALSE]

Pending(q) == call[q].what \notin {"free", "done"}

Checking == \E q \in CallId : call[q].what = "me"

(* Slots are taken in order.                                               *)
Free(q) == /\ call[q].what = "free"
           /\ \A p \in CallId : p < q => call[p].what # "free"

(* A request, sent with the token t that is stored.                        *)
Request(what, t) == [what |-> what, token |-> t, stale |-> FALSE]

SessionInit ==
    /\ stored = 0 /\ issued = 0
    /\ tab = Opened
    /\ call = [q \in CallId |-> Idle("free")]
    /\ raced = FALSE /\ late = {}

(* The tab signs in or out: its open requests belong to the past.          *)
Outdated == [q \in CallId |-> IF Pending(q)
                              THEN [call[q] EXCEPT !.stale = TRUE]
                              ELSE call[q]]

-----------------------------------------------------------------------------
(* The page is opened or reloaded: everything the tab had in memory is     *)
(* gone, and a stored token is checked.  At the page of the log the log is *)
(* read, too, whether there is a token or not: without one this is refused *)
(* and the page reloads again.                                             *)
Mount ==
    LET left == [q \in CallId |-> IF Pending(q) THEN Idle("done")
                                                ELSE call[q]]
        check == Request("me", stored)
        audit == Request("audit", stored)
    IN  /\ tab' = Opened
        /\ raced' = FALSE /\ late' = {}
        /\ \/ stored = 0 /\ call' = left
           \/ \E q \in CallId :
                 /\ Free(q)
                 /\ \/ stored # 0 /\ call' = [left EXCEPT ![q] = check]
                    \/ stored = 0 /\ call' = [left EXCEPT ![q] = audit]
                    \/ \E p \in CallId :
                          /\ stored # 0 /\ p = q + 1
                          /\ call' = [left EXCEPT ![q] = check,
                                                  ![p] = audit]
        /\ UNCHANGED <<stored, issued>>

(* The form is not disabled while an answer is awaited.  The API does not  *)
(* look at the token of a sign-in.                                         *)
handleLogin ==
    /\ tab.step = "login"
    /\ \E q \in CallId :
          Free(q) /\ call' = [call EXCEPT ![q] = Idle("login")]
    /\ UNCHANGED <<stored, issued, tab, raced, late>>

(* Mutated form of handleLogout: the token stays.                          *)
LogoutKeepsToken ==
    /\ tab.step = "main"
    /\ tab' = [Opened EXCEPT !.reloading = tab.reloading]
    /\ raced' = FALSE /\ late' = {}
    /\ call' = Outdated
    /\ UNCHANGED <<stored, issued>>

(* Requests that are open stay open.                                       *)
handleLogout ==
    /\ tab.step = "main"
    /\ tab' = [Opened EXCEPT !.reloading = tab.reloading]
    /\ stored' = 0
    /\ raced' = FALSE /\ late' = {}
    /\ call' = Outdated
    /\ UNCHANGED issued

(* Every change of page loads everything again.                            *)
OpenPage ==
    /\ tab.step = "main"
    /\ \E q \in CallId :
          Free(q) /\ call' = [call EXCEPT ![q] = Request("lists", stored)]
    /\ UNCHANGED <<stored, issued, tab, raced, late>>

(* The page of the log reads the log once more on its own, even when the   *)
(* browser goes back to it while the login form or the greeting is shown.  *)
OpenLogs ==
    /\ \E q, p \in CallId :
          /\ Free(q)
          /\ \/ /\ tab.step = "main" /\ p = q + 1
                /\ call' = [call EXCEPT ![q] = Request("lists", stored),
                                        ![p] = Request("audit", stored)]
             \/ /\ tab.step # "main" /\ p = q
                /\ call' = [call EXCEPT ![q] = Request("audit", stored)]
    /\ UNCHANGED <<stored, issued, tab, raced, late>>

(* The timer of the greeting.                                              *)
EndGreeting ==
    /\ tab.step = "greeting"
    /\ tab' = [tab EXCEPT !.step = "main"]
    /\ UNCHANGED <<stored, issued, call, raced, late>>

-----------------------------------------------------------------------------
(* The rest of the world.  Other tabs store the token they were issued, or *)
(* remove the one that is stored; this tab is not told.                    *)
OtherTab ==
    /\ \/ /\ issued < Logins
          /\ issued' = issued + 1 /\ stored' = issued'
       \/ /\ stored # 0
          /\ stored' = 0 /\ UNCHANGED issued
    /\ raced' = TRUE
    /\ UNCHANGED <<tab, call, late>>

-----------------------------------------------------------------------------
(* Answers.  How long a token is accepted is not known to the tab: a       *)
(* request sent with one can succeed, and any can fail or be refused.      *)
Succeeds(q) == call[q].token # 0

Refused == stored' = 0 /\ tab' = [tab EXCEPT !.reloading = TRUE]

(* A login never answers 401: a wrong password is a 500.  Who is signed in *)
(* over another user keeps what that one was shown until it is loaded.     *)
EndLogin(q) ==
    /\ call[q].what = "login"
    /\ \/ /\ issued < Logins
          /\ issued' = issued + 1 /\ stored' = issued'
          /\ tab' = [tab EXCEPT !.step = "greeting", !.user = issued']
          /\ call' = [Outdated EXCEPT ![q] = Request("lists", issued')]
          /\ raced' = FALSE
          /\ late' = IF tab.step = "login" THEN late ELSE Shown
       \/ /\ call' = [call EXCEPT ![q] = Idle("done")]
          /\ UNCHANGED <<stored, issued, tab, raced, late>>

(* The answer of the check is not compared with what happened meanwhile.   *)
(* A log that came in while it ran was read by the user now named.         *)
Recognised(q) ==
    /\ Succeeds(q)
    /\ tab' = [tab EXCEPT !.step = "main", !.user = call[q].token]
    /\ call' = [call EXCEPT ![q] = Request("lists", stored)]
    /\ late' = {}
    /\ UNCHANGED stored

(* Mutated form of EndMe: a check that fails leaves the token.             *)
EndMeKeepingToken(q) ==
    /\ call[q].what = "me"
    /\ \/ Recognised(q)
       \/ /\ call' = [call EXCEPT ![q] = Idle("done")]
          /\ UNCHANGED <<stored, tab, late>>
    /\ raced' = (raced \/ call[q].stale)
    /\ UNCHANGED issued

(* A check that fails removes whatever token is stored by then.            *)
EndMe(q) ==
    /\ call[q].what = "me"
    /\ \/ Recognised(q)
       \/ /\ \/ Refused
             \/ stored' = 0 /\ UNCHANGED tab
          /\ call' = [call EXCEPT ![q] = Idle("done")]
          /\ UNCHANGED late
    /\ raced' = (raced \/ call[q].stale)
    /\ UNCHANGED issued

(* History.  What is shown of this part is the answer to request q.        *)
Fills(q, what) ==
    late' = IF tab.step = "login" \/ call[q].stale THEN late \cup {what}
                                                   ELSE late \ {what}

(* Mutated form of Onward: a chain goes on with the token it began with.   *)
OnwardAsBegun(q, what) ==
    call' = [call EXCEPT ![q] = Request(what, call[q].token)]

(* The chain goes on with the token that is stored by now.                 *)
Onward(q, what) == call' = [call EXCEPT ![q] = Request(what, stored')]

(* A list that failed, or was refused, is shown empty.  The chain goes on  *)
(* until the page is reloaded.                                             *)
EndLists(q) ==
    /\ call[q].what = "lists"
    /\ \E t \in {call[q].token, 0}, refused \in BOOLEAN :
          /\ tab' = [tab EXCEPT !.lists = t, !.reloading = @ \/ refused]
          /\ stored' = IF refused THEN 0 ELSE stored
    /\ Fills(q, "lists")
    /\ Onward(q, "users")
    /\ UNCHANGED <<issued, raced>>

(* Without the users, or the log, the old ones stay.                       *)
EndUsers(q) ==
    /\ call[q].what = "users"
    /\ \/ /\ Succeeds(q)
          /\ tab' = [tab EXCEPT !.users = call[q].token]
          /\ Fills(q, "users") /\ UNCHANGED stored
       \/ Refused /\ UNCHANGED late
       \/ UNCHANGED <<tab, stored, late>>
    /\ Onward(q, "logs")
    /\ UNCHANGED <<issued, raced>>

EndLogs(q) ==
    /\ call[q].what \in {"logs", "audit"}
    /\ \/ /\ Succeeds(q)
          /\ tab' = [tab EXCEPT !.logs = call[q].token]
          /\ Fills(q, "logs") /\ UNCHANGED stored
       \/ Refused /\ UNCHANGED late
       \/ UNCHANGED <<tab, stored, late>>
    /\ call' = [call EXCEPT ![q] = Idle("done")]
    /\ UNCHANGED <<issued, raced>>

-----------------------------------------------------------------------------
SessionNext ==
    \/ Mount \/ handleLogin \/ handleLogout
    \/ OpenPage \/ OpenLogs \/ EndGreeting
    \/ OtherTab
    \/ \E q \in CallId : \/ EndLogin(q) \/ EndMe(q)
                         \/ EndLists(q) \/ EndUsers(q) \/ EndLogs(q)

(* The timer fires, and every request ends, with an answer or an error.    *)
SessionFairness ==
    /\ WF_sessionVars(EndGreeting)
    /\ \A q \in CallId : WF_sessionVars(EndMe(q))

SessionSpec == SessionInit /\ [][SessionNext]_sessionVars /\ SessionFairness

-----------------------------------------------------------------------------
(* What every variable holds.                                              *)
SessionTypeOK ==
    /\ stored \in Token /\ issued \in Token
    /\ tab \in TabState
    /\ call \in [CallId -> CallState]
    /\ raced \in BOOLEAN /\ late \subseteq Shown

(* The tab names the user whose token is stored, and shows the login form  *)
(* when there is none: unless another tab has changed the token or the     *)
(* check of an older token has been answered since the tab was opened or   *)
(* last signed in or out, the stored token is just being checked or the    *)
(* page is about to be reloaded.                                           *)
ShownIsSignedIn ==
    ~raced /\ ~Checking /\ ~tab.reloading =>
        /\ tab.user = stored
        /\ tab.step = "login" <=> stored = 0

(* Whatever the tab has asked for since its user signed in, the user named *)
(* has read, and nothing is kept over a sign-out: with no other tab in     *)
(* play, a list that was read by somebody else is one that came in late    *)
(* (the load was under way when that user left, or nobody was named when   *)
(* the answer came), and the next answer of its kind puts it right.        *)
DataIsOwn ==
    ~raced => /\ tab.lists \in {0, tab.user} \/ "lists" \in late
              /\ tab.users \in {0, tab.user} \/ "users" \in late
              /\ tab.logs \in {0, tab.user} \/ "logs" \in late

(* A sign-in ends: a page that was opened with a token leaves the login    *)
(* form or the token is given up, and the greeting does not stay.          *)
SignInSettles ==
    /\ Checking ~> (tab.step # "login" \/ stored = 0)
    /\ tab.step = "greeting" ~> tab.step # "greeting"

=============================================================================
