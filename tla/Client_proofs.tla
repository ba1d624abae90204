--------------------------- MODULE Client_proofs ----------------------------
(***************************************************************************)
(* Theorems about a tab of the client, for any number of sign-ins and of   *)
(* requests under way, any roles, and any lists and things to filter for.  *)
(*                                                                         *)
(* Session: what a tab shows is written when an answer comes in, from the  *)
(* token the request was sent with.  That the tab is right is therefore    *)
(* inductive only together with what every request under way may still     *)
(* say: the check of a token belongs to an untouched tab, a load to the    *)
(* user shown.                                                             *)
(*                                                                         *)
(* Roles: who has which right is decided by the first role of an           *)
(* identifier, so the argument is about places in an array.                *)
(*                                                                         *)
(* Filters: that a list shows what was asked for follows from the whole    *)
(* filter, of which every part is traced from the click that passed it     *)
(* along to the next change.                                               *)
(***************************************************************************)
EXTENDS Client, FiniteSetTheorems, WellFoundedInduction, TLAPS

(* Session.                                                                *)

Loads == {"lists", "users", "logs", "audit"}

(* What a request that was sent since the tab last signed in or out says   *)
(* of the tab.                                                             *)
Fresh(q) ==
    ~call[q].stale =>
        /\ call[q].what = "me" =>
              /\ tab.step = "login" /\ tab.user = 0
              /\ stored \in {0, call[q].token}
              /\ stored = 0 => tab.reloading
              /\ {tab.lists, tab.users, tab.logs} \subseteq {0, call[q].token}
              /\ \A p \in CallId : call[p].what \in Loads => ~call[p].stale
        /\ call[q].what \in Loads /\ call[q].token # 0 =>
              /\ tab.step # "login" => call[q].token = tab.user
              /\ \A p \in CallId : call[p].what = "me" /\ ~call[p].stale =>
                                      call[p].token = call[q].token

SignedOut ==
    tab.step = "login" =>
        /\ tab.user = 0
        /\ stored # 0 => \E q \in CallId : call[q].what = "me" /\ ~call[q].stale

SignedIn ==
    tab.step # "login" =>
        /\ stored \in {0, tab.user}
        /\ stored = 0 => tab.reloading

(* The stored token is checked once.                                       *)
OneCheck ==
    \A q, p \in CallId : call[q].what = "me" /\ call[p].what = "me" => q = p

(* What comes in while the login form is shown is late, even in a race: a  *)
(* sign-in ends the race and keeps the data.                               *)
Leftover ==
    tab.step = "login" => /\ tab.lists # 0 => "lists" \in late
                          /\ tab.users # 0 => "users" \in late
                          /\ tab.logs # 0 => "logs" \in late

SessionSound ==
    /\ OneCheck /\ Leftover /\ DataIsOwn
    /\ ~raced => (\A q \in CallId : Fresh(q)) /\ SignedOut /\ SignedIn

SessionInv == SessionTypeOK /\ SessionSound

-----------------------------------------------------------------------------
(* The session's types.                                                    *)

What == {"free", "login", "me", "lists", "users", "logs", "audit", "done"}

LEMMA TokenFacts == Logins \in Nat /\ 0 \in Token /\ Token \subseteq Nat
BY SessionAssumption DEF SessionAssumption, Token

LEMMA IdleType == \A what \in What : Idle(what) \in CallState
BY TokenFacts DEF Idle, CallState, What

LEMMA RequestType ==
    \A what \in What, t \in Token : Request(what, t) \in CallState
BY DEF Request, CallState, What

LEMMA OutdatedType ==
    ASSUME SessionTypeOK
    PROVE  Outdated \in [CallId -> CallState]
BY DEF SessionTypeOK, Outdated, CallState

LEMMA OpenedType == Opened \in TabState
BY TokenFacts DEF Opened, TabState

(* One slot of call is overwritten.                                        *)
LEMMA PutType ==
    ASSUME NEW f \in [CallId -> CallState], NEW q \in CallId,
           NEW c \in CallState
    PROVE  [f EXCEPT ![q] = c] \in [CallId -> CallState]
OBVIOUS

LEMMA SessionInitTypes == SessionInit => SessionTypeOK
BY TokenFacts, IdleType, OpenedType DEF SessionInit, SessionTypeOK, What

(* What opening the page leaves of the requests under way: nothing.        *)
Left == [q \in CallId |-> IF Pending(q) THEN Idle("done") ELSE call[q]]

LEMMA LeftFacts ==
    ASSUME SessionTypeOK
    PROVE  /\ Left \in [CallId -> CallState]
           /\ \A q \in CallId : Left[q].what \in {"free", "done"}
BY IdleType DEF Left, Pending, Idle, SessionTypeOK, CallState, What

LEMMA MountCalls ==
    ASSUME SessionTypeOK, Mount
    PROVE  \/ stored = 0 /\ call' = Left
           \/ \E q \in CallId :
                 \/ stored # 0 /\ call' = [Left EXCEPT ![q] = Request("me", stored)]
                 \/ stored = 0 /\ call' = [Left EXCEPT ![q] = Request("audit", stored)]
                 \/ \E p \in CallId :
                       /\ stored # 0 /\ p # q
                       /\ call' = [Left EXCEPT ![q] = Request("me", stored),
                                               ![p] = Request("audit", stored)]
<1>1. \A q, p \in CallId : p = q + 1 => p # q
  BY DEF CallId
<1> QED
  BY <1>1 DEF Mount, Left

LEMMA MountTypes ==
    ASSUME SessionTypeOK, Mount
    PROVE  SessionTypeOK'
<1>1. Left \in [CallId -> CallState]
  BY LeftFacts
<1>2. Request("me", stored) \in CallState /\ Request("audit", stored) \in CallState
  BY RequestType DEF SessionTypeOK, What
<1> DEFINE me == Request("me", stored)
           audit == Request("audit", stored)
<1> HIDE DEF me, audit
<1>3. call' \in [CallId -> CallState]
  <2>1. me \in CallState /\ audit \in CallState
    BY <1>2 DEF me, audit
  <2>2. \/ call' = Left
        \/ \E q \in CallId :
              \/ call' = [Left EXCEPT ![q] = me]
              \/ call' = [Left EXCEPT ![q] = audit]
              \/ \E p \in CallId : call' = [Left EXCEPT ![q] = me, ![p] = audit]
    BY MountCalls DEF me, audit
  <2> QED
    BY <1>1, <2>1, <2>2
<1> QED
  BY <1>3, OpenedType DEF SessionTypeOK, Mount

LEMMA ClickTypes ==
    ASSUME SessionTypeOK,
           handleLogin \/ handleLogout \/ OpenPage \/ OpenLogs \/ EndGreeting
    PROVE  SessionTypeOK'
<1>1. CASE handleLogin
  BY <1>1, IdleType DEF SessionTypeOK, handleLogin, What
<1>2. CASE handleLogout
  BY <1>2, OutdatedType, TokenFacts DEF SessionTypeOK, handleLogout, Opened, TabState
<1>3. CASE OpenPage
  BY <1>3, RequestType DEF SessionTypeOK, OpenPage, What
<1>4. CASE OpenLogs
  <2> DEFINE lists == Request("lists", stored)
             audit == Request("audit", stored)
  <2>1. lists \in CallState /\ audit \in CallState
    BY RequestType DEF SessionTypeOK, What
  <2>2. \E q, p \in CallId :
           \/ call' = [call EXCEPT ![q] = lists, ![p] = audit]
           \/ call' = [call EXCEPT ![q] = audit]
    BY <1>4 DEF OpenLogs
  <2> HIDE DEF lists, audit
  <2>3. call' \in [CallId -> CallState]
    BY <2>1, <2>2 DEF SessionTypeOK
  <2> QED
    BY <1>4, <2>3 DEF SessionTypeOK, OpenLogs
<1>5. CASE EndGreeting
  BY <1>5 DEF SessionTypeOK, EndGreeting, TabState
<1> QED
  BY <1>1, <1>2, <1>3, <1>4, <1>5

LEMMA OtherTabTypes ==
    ASSUME SessionTypeOK, OtherTab
    PROVE  SessionTypeOK'
<1>1. stored' \in Token /\ issued' \in Token
  BY TokenFacts DEF SessionTypeOK, OtherTab, Token
<1> QED
  BY <1>1 DEF SessionTypeOK, OtherTab

LEMMA EndLoginTypes ==
    ASSUME SessionTypeOK, NEW q \in CallId, EndLogin(q)
    PROVE  SessionTypeOK'
<1>1. CASE issued < Logins /\ issued' = issued + 1 /\ stored' = issued'
           /\ tab' = [tab EXCEPT !.step = "greeting", !.user = issued']
           /\ call' = [Outdated EXCEPT ![q] = Request("lists", issued')]
           /\ raced' = FALSE
           /\ late' = IF tab.step = "login" THEN late ELSE Shown
  <2>1. issued' \in Token
    BY <1>1, TokenFacts DEF SessionTypeOK, Token
  <2>2. tab' \in TabState
    BY <1>1, <2>1 DEF SessionTypeOK, TabState
  <2>3. call' \in [CallId -> CallState]
    BY <1>1, <2>1, RequestType, OutdatedType, PutType DEF What
  <2> QED
    BY <1>1, <2>1, <2>2, <2>3 DEF SessionTypeOK
<1>2. CASE call' = [call EXCEPT ![q] = Idle("done")]
           /\ UNCHANGED <<stored, issued, tab, raced, late>>
  BY <1>2, IdleType DEF SessionTypeOK, What
<1> QED
  BY <1>1, <1>2 DEF EndLogin

LEMMA EndMeTypes ==
    ASSUME SessionTypeOK, NEW q \in CallId, EndMe(q)
    PROVE  SessionTypeOK'
<1>1. call[q] \in CallState /\ raced' \in BOOLEAN
  BY DEF SessionTypeOK, EndMe, CallState
<1>2. CASE Recognised(q)
  <2>1. call' \in [CallId -> CallState]
    BY <1>2, RequestType DEF Recognised, SessionTypeOK, What
  <2>2. tab' \in TabState
    BY <1>1, <1>2 DEF Recognised, SessionTypeOK, TabState, CallState
  <2> QED
    BY <1>1, <1>2, <2>1, <2>2 DEF Recognised, SessionTypeOK, EndMe
<1>3. CASE /\ Refused \/ (stored' = 0 /\ UNCHANGED tab)
           /\ call' = [call EXCEPT ![q] = Idle("done")]
           /\ UNCHANGED late
  BY <1>1, <1>3, IdleType, TokenFacts
  DEF Refused, SessionTypeOK, EndMe, What, TabState
<1> QED
  BY <1>2, <1>3 DEF EndMe

(* The parts of a load.                                                    *)
LEMMA OnwardTypes ==
    ASSUME SessionTypeOK, NEW q \in CallId, NEW what \in What,
           stored' \in Token, Onward(q, what)
    PROVE  call' \in [CallId -> CallState]
BY RequestType, PutType DEF SessionTypeOK, Onward

LEMMA FillsTypes ==
    ASSUME SessionTypeOK, NEW q \in CallId, NEW what \in Shown, Fills(q, what)
    PROVE  late' \subseteq Shown
BY DEF SessionTypeOK, Fills

LEMMA LoadTypes ==
    ASSUME SessionTypeOK, NEW q \in CallId,
           EndLists(q) \/ EndUsers(q) \/ EndLogs(q)
    PROVE  SessionTypeOK'
<1>1. call[q].token \in Token /\ stored \in Token
  BY DEF SessionTypeOK, CallState
<1>2. CASE EndLists(q)
  <2>1. tab' \in TabState /\ stored' \in Token
    BY <1>1, <1>2, TokenFacts DEF EndLists, SessionTypeOK, TabState
  <2>2. call' \in [CallId -> CallState] /\ late' \subseteq Shown
    BY <1>2, <2>1, OnwardTypes, FillsTypes DEF EndLists, What, Shown
  <2> QED
    BY <1>2, <2>1, <2>2 DEF EndLists, SessionTypeOK
<1>3. CASE EndUsers(q)
  <2>1. tab' \in TabState /\ stored' \in Token
    BY <1>1, <1>3, TokenFacts DEF EndUsers, Refused, SessionTypeOK, TabState
  <2>2. late' \subseteq Shown
    <3>1. CASE Fills(q, "users")
      BY <3>1, FillsTypes DEF Shown
    <3>2. CASE UNCHANGED late
      BY <3>2 DEF SessionTypeOK
    <3> QED
      BY <1>3, <3>1, <3>2 DEF EndUsers
  <2>3. call' \in [CallId -> CallState]
    BY <1>3, <2>1, OnwardTypes DEF EndUsers, What
  <2> QED
    BY <1>3, <2>1, <2>2, <2>3 DEF EndUsers, SessionTypeOK
<1>4. CASE EndLogs(q)
  <2>1. tab' \in TabState /\ stored' \in Token
    BY <1>1, <1>4, TokenFacts DEF EndLogs, Refused, SessionTypeOK, TabState
  <2>2. late' \subseteq Shown
    <3>1. CASE Fills(q, "logs")
      BY <3>1, FillsTypes DEF Shown
    <3>2. CASE UNCHANGED late
      BY <3>2 DEF SessionTypeOK
    <3> QED
      BY <1>4, <3>1, <3>2 DEF EndLogs
  <2>3. call' \in [CallId -> CallState]
    BY <1>4, IdleType, PutType DEF EndLogs, SessionTypeOK, What
  <2> QED
    BY <1>4, <2>1, <2>2, <2>3 DEF EndLogs, SessionTypeOK
<1> QED
  BY <1>2, <1>3, <1>4

LEMMA SessionStepTypes ==
    ASSUME SessionTypeOK, [SessionNext]_sessionVars
    PROVE  SessionTypeOK'
<1>1. CASE UNCHANGED sessionVars
  BY <1>1 DEF SessionTypeOK, sessionVars
<1>2. CASE SessionNext
  BY <1>2, MountTypes, ClickTypes, OtherTabTypes, EndLoginTypes, EndMeTypes,
     LoadTypes DEF SessionNext
<1> QED
  BY <1>1, <1>2

-----------------------------------------------------------------------------
(* The session's soundness, action by action.                              *)

LEMMA SessionInitSound == SessionInit => SessionSound
BY DEF SessionInit, SessionSound, OneCheck, Leftover, DataIsOwn, Fresh, Loads,
       SignedOut, SignedIn, Idle, Opened

LEMMA MountSound ==
    ASSUME SessionInv, Mount
    PROVE  SessionSound'
<1>1. \A q \in CallId : Left[q].what \in {"free", "done"}
  BY LeftFacts DEF SessionInv
<1>2. Left \in [CallId -> CallState]
  BY LeftFacts DEF SessionInv
<1>3. /\ tab'.step = "login" /\ tab'.user = 0
      /\ tab'.lists = 0 /\ tab'.users = 0 /\ tab'.logs = 0
      /\ stored' = stored
  BY DEF Mount, Opened
<1>4. Leftover' /\ DataIsOwn' /\ SignedIn'
  BY <1>3 DEF Leftover, DataIsOwn, SignedIn
<1>5. \A p \in CallId :
         /\ call'[p].what \in {"free", "done", "me", "audit"}
         /\ call'[p].what \in {"me", "audit"} =>
               call'[p].token = stored /\ ~call'[p].stale
         /\ call'[p].what = "me" => stored # 0
  <2> DEFINE me == Request("me", stored)
             audit == Request("audit", stored)
  <2>1. /\ me.what = "me" /\ ~me.stale /\ me.token = stored
        /\ audit.what = "audit" /\ ~audit.stale /\ audit.token = stored
    BY DEF Request
  <2>2. \/ stored = 0 /\ call' = Left
        \/ \E q \in CallId :
              \/ stored # 0 /\ call' = [Left EXCEPT ![q] = me]
              \/ stored = 0 /\ call' = [Left EXCEPT ![q] = audit]
              \/ \E p \in CallId :
                    /\ stored # 0 /\ p # q
                    /\ call' = [Left EXCEPT ![q] = me, ![p] = audit]
    BY MountCalls DEF SessionInv
  <2> HIDE DEF me, audit
  <2> QED
    BY <1>1, <1>2, <2>1, <2>2
<1>6. OneCheck' /\ (stored # 0 => \E q \in CallId : call'[q].what = "me")
  <2> DEFINE me == Request("me", stored)
             audit == Request("audit", stored)
  <2>1. me.what = "me" /\ audit.what = "audit"
    BY DEF Request
  <2>2. \/ stored = 0 /\ call' = Left
        \/ \E q \in CallId :
              \/ stored # 0 /\ call' = [Left EXCEPT ![q] = me]
              \/ stored = 0 /\ call' = [Left EXCEPT ![q] = audit]
              \/ \E p \in CallId :
                    /\ stored # 0 /\ p # q
                    /\ call' = [Left EXCEPT ![q] = me, ![p] = audit]
    BY MountCalls DEF SessionInv
  <2> HIDE DEF me, audit
  <2> QED
    BY <1>1, <1>2, <2>1, <2>2 DEF OneCheck
<1>7. SignedOut'
  BY <1>3, <1>5, <1>6 DEF SignedOut
<1>8. \A q \in CallId : Fresh(q)'
  BY <1>3, <1>5 DEF Fresh, Loads
<1> QED
  BY <1>4, <1>6, <1>7, <1>8 DEF SessionSound

(* A request that is sent now, with the token that is stored, is fresh.    *)
LEMMA SentFresh ==
    ASSUME SessionInv, ~raced, stored # 0
    PROVE  /\ tab.step # "login" => stored = tab.user
           /\ \A p \in CallId : call[p].what = "me" /\ ~call[p].stale =>
                                   call[p].token = stored
BY DEF SessionInv, SessionSound, SignedIn, Fresh

(* Clicks that send requests.                                              *)
LEMMA ClickCalls ==
    ASSUME SessionInv, handleLogin \/ OpenPage \/ OpenLogs
    PROVE  \A q \in CallId :
              call'[q] # call[q] =>
                 /\ call'[q].what \in Loads \cup {"login"} /\ ~call'[q].stale
                 /\ call'[q].what \in Loads => call'[q].token = stored
                 /\ tab.step = "login" => call[q].what = "free"
<1> DEFINE lists == Request("lists", stored)
           audit == Request("audit", stored)
           login == Idle("login")
<1>1. /\ lists.what = "lists" /\ ~lists.stale /\ lists.token = stored
      /\ audit.what = "audit" /\ ~audit.stale /\ audit.token = stored
      /\ login.what = "login" /\ ~login.stale
  BY DEF Request, Idle
<1>2. \E q, p \in CallId :
         /\ call[q].what = "free"
         /\ \/ call' = [call EXCEPT ![q] = login]
            \/ call' = [call EXCEPT ![q] = lists]
            \/ call' = [call EXCEPT ![q] = audit]
            \/ /\ tab.step = "main"
               /\ call' = [call EXCEPT ![q] = lists, ![p] = audit]
  BY DEF handleLogin, OpenPage, OpenLogs, Free
<1>3. call \in [CallId -> CallState]
  BY DEF SessionInv, SessionTypeOK
<1> HIDE DEF lists, audit, login
<1> QED
  BY <1>1, <1>2, <1>3 DEF Loads

LEMMA ClickSound ==
    ASSUME SessionInv, handleLogin \/ OpenPage \/ OpenLogs
    PROVE  SessionSound'
<1>1. UNCHANGED <<tab, stored, raced, late>>
  BY DEF handleLogin, OpenPage, OpenLogs
<1>2. \A p \in CallId :
         /\ call'[p].what = "me" => call'[p] = call[p]
         /\ tab.step = "login" /\ call[p].what = "me" => call'[p] = call[p]
         /\ call'[p].stale => call'[p] = call[p]
  BY ClickCalls DEF Loads
<1>3. OneCheck' /\ Leftover' /\ DataIsOwn'
  BY <1>1, <1>2 DEF SessionInv, SessionSound, OneCheck, Leftover, DataIsOwn
<1>4. ~raced => \A q \in CallId : Fresh(q)'
  <2> SUFFICES ASSUME ~raced, NEW q \in CallId
               PROVE  Fresh(q)'
    OBVIOUS
  <2>1. CASE call'[q] = call[q]
    BY <1>1, <1>2, <2>1 DEF SessionInv, SessionSound, Fresh
  <2>2. CASE call'[q] # call[q]
    BY <1>1, <1>2, <2>2, ClickCalls, SentFresh DEF Fresh, Loads
  <2> QED
    BY <2>1, <2>2
<1>5. ~raced => SignedOut' /\ SignedIn'
  BY <1>1, <1>2 DEF SessionInv, SessionSound, SignedOut, SignedIn
<1> QED
  BY <1>1, <1>3, <1>4, <1>5 DEF SessionSound

(* After a sign-in or sign-out no request under way is fresh.              *)
LEMMA NothingFresh ==
    ASSUME SessionTypeOK
    PROVE  /\ \A q \in CallId :
                 /\ Outdated[q].what = call[q].what
                 /\ Outdated[q].what \in {"me", "login"} \cup Loads =>
                       Outdated[q].stale
           /\ Outdated \in [CallId -> CallState]
BY OutdatedType DEF Outdated, Pending, SessionTypeOK, CallState, Loads

LEMMA LogoutSound ==
    ASSUME SessionInv, handleLogout
    PROVE  SessionSound'
<1>1. /\ call' = Outdated /\ stored' = 0 /\ ~raced'
      /\ tab'.step = "login" /\ tab'.user = 0
      /\ tab'.lists = 0 /\ tab'.users = 0 /\ tab'.logs = 0
  BY DEF handleLogout, Opened
<1>2. OneCheck' /\ Leftover' /\ DataIsOwn'
  BY <1>1, NothingFresh
  DEF SessionInv, SessionSound, OneCheck, Leftover, DataIsOwn
<1>3. \A q \in CallId : Fresh(q)'
  BY <1>1, NothingFresh DEF SessionInv, Fresh, Loads
<1> QED
  BY <1>1, <1>2, <1>3 DEF SessionSound, SignedOut, SignedIn

LEMMA GreetingSound ==
    ASSUME SessionInv, EndGreeting
    PROVE  SessionSound'
<1>1. /\ UNCHANGED <<stored, call, raced, late>>
      /\ tab.step = "greeting" /\ tab'.step = "main"
      /\ tab'.user = tab.user /\ tab'.reloading = tab.reloading
      /\ tab'.lists = tab.lists /\ tab'.users = tab.users
      /\ tab'.logs = tab.logs
  BY DEF EndGreeting, SessionInv, SessionTypeOK, TabState
<1>2. ~raced => \A q \in CallId : Fresh(q)'
  BY <1>1 DEF SessionInv, SessionSound, Fresh
<1> QED
  BY <1>1, <1>2
  DEF SessionInv, SessionSound, OneCheck, Leftover, DataIsOwn, SignedOut,
      SignedIn

LEMMA OtherTabSound ==
    ASSUME SessionInv, OtherTab
    PROVE  SessionSound'
BY DEF OtherTab, SessionInv, SessionSound, OneCheck, Leftover, DataIsOwn

(* Whoever signs in finds on the login form only what came in late there.  *)
LEMMA EndLoginSound ==
    ASSUME SessionInv, NEW q \in CallId, EndLogin(q)
    PROVE  SessionSound'
<1>1. CASE /\ issued' = issued + 1 /\ stored' = issued'
           /\ tab' = [tab EXCEPT !.step = "greeting", !.user = issued']
           /\ call' = [Outdated EXCEPT ![q] = Request("lists", issued')]
           /\ raced' = FALSE
           /\ late' = IF tab.step = "login" THEN late ELSE Shown
  <2>1. /\ call'[q] = Request("lists", issued')
        /\ \A p \in CallId : p # q => call'[p] = Outdated[p]
    BY <1>1, NothingFresh DEF SessionInv
  <2>2. /\ tab'.step = "greeting" /\ tab'.user = issued'
        /\ tab'.lists = tab.lists /\ tab'.users = tab.users
        /\ tab'.logs = tab.logs
        /\ stored' = issued' /\ issued' # 0
    BY <1>1, TokenFacts DEF SessionInv, SessionTypeOK, TabState, Token
  <2>3. OneCheck' /\ Leftover'
    BY <2>1, <2>2, NothingFresh
    DEF SessionInv, SessionSound, OneCheck, Leftover, Request
  <2>4. \A p \in CallId : Fresh(p)'
    BY <2>1, <2>2, NothingFresh DEF SessionInv, Fresh, Loads, Request
  <2>5. DataIsOwn'
    BY <1>1, <2>2
    DEF SessionInv, SessionSound, Leftover, DataIsOwn, Shown
  <2> QED
    BY <2>2, <2>3, <2>4, <2>5 DEF SessionSound, SignedOut, SignedIn
<1>2. CASE call' = [call EXCEPT ![q] = Idle("done")]
           /\ UNCHANGED <<stored, issued, tab, raced, late>>
  <2>1. /\ call'[q].what = "done" /\ call[q].what = "login" /\ ~call'[q].stale
        /\ \A p \in CallId : p # q => call'[p] = call[p]
    BY <1>2 DEF SessionInv, SessionTypeOK, Idle, EndLogin
  <2>2. OneCheck' /\ Leftover' /\ DataIsOwn'
    BY <1>2, <2>1 DEF SessionInv, SessionSound, OneCheck, Leftover, DataIsOwn
  <2>3. ~raced => \A p \in CallId : Fresh(p)'
    BY <1>2, <2>1 DEF SessionInv, SessionSound, Fresh, Loads
  <2>4. ~raced => SignedOut' /\ SignedIn'
    BY <1>2, <2>1 DEF SessionInv, SessionSound, SignedOut, SignedIn
  <2> QED
    BY <1>2, <2>2, <2>3, <2>4 DEF SessionSound
<1> QED
  BY <1>1, <1>2 DEF EndLogin

LEMMA EndMeSound ==
    ASSUME SessionInv, NEW q \in CallId, EndMe(q)
    PROVE  SessionSound'
<1>1. ~raced' =>
         /\ ~raced /\ ~call[q].stale
         /\ tab.step = "login" /\ tab.user = 0
         /\ stored \in {0, call[q].token}
         /\ stored = 0 => tab.reloading
         /\ {tab.lists, tab.users, tab.logs} \subseteq {0, call[q].token}
         /\ \A p \in CallId : call[p].what \in Loads =>
               ~call[p].stale /\ call[p].token \in {0, call[q].token}
  BY DEF EndMe, SessionInv, SessionSound, Fresh
<1>2. \A p \in CallId : p # q => call[p].what # "me"
  BY DEF EndMe, SessionInv, SessionSound, OneCheck
<1>3. CASE Recognised(q)
  <2>1. /\ call'[q].what = "lists" /\ call'[q].token = stored
        /\ ~call'[q].stale
        /\ \A p \in CallId : p # q => call'[p] = call[p]
    BY <1>3 DEF SessionInv, SessionTypeOK, Recognised, Request
  <2>2. /\ tab'.step = "main" /\ tab'.user = call[q].token
        /\ tab'.lists = tab.lists /\ tab'.users = tab.users
        /\ tab'.logs = tab.logs /\ tab'.reloading = tab.reloading
        /\ stored' = stored
    BY <1>3 DEF Recognised, SessionInv, SessionTypeOK, TabState
  <2>3. \A p \in CallId : call'[p].what # "me"
    BY <1>2, <2>1
  <2>4. OneCheck' /\ Leftover' /\ DataIsOwn'
    BY <1>1, <2>2, <2>3 DEF OneCheck, Leftover, DataIsOwn
  <2>5. ~raced' => \A p \in CallId : Fresh(p)'
    BY <1>1, <2>1, <2>2, <2>3 DEF Fresh, Loads
  <2>6. ~raced' => SignedOut' /\ SignedIn'
    BY <1>1, <2>2 DEF SignedOut, SignedIn
  <2> QED
    BY <2>4, <2>5, <2>6 DEF SessionSound
<1>4. CASE /\ Refused \/ (stored' = 0 /\ UNCHANGED tab)
           /\ call' = [call EXCEPT ![q] = Idle("done")]
           /\ UNCHANGED late
  <2>1. /\ call'[q].what = "done" /\ call[q].what = "me" /\ ~call'[q].stale
        /\ \A p \in CallId : p # q => call'[p] = call[p]
    BY <1>4 DEF SessionInv, SessionTypeOK, Idle, EndMe
  <2>2. /\ tab'.step = tab.step /\ tab'.user = tab.user
        /\ tab'.lists = tab.lists /\ tab'.users = tab.users
        /\ tab'.logs = tab.logs /\ stored' = 0
    BY <1>4 DEF Refused, SessionInv, SessionTypeOK, TabState
  <2>3. \A p \in CallId : call'[p].what # "me"
    BY <1>2, <2>1
  <2>4. OneCheck' /\ Leftover'
    BY <1>4, <2>2, <2>3
    DEF SessionInv, SessionSound, OneCheck, Leftover
  <2>5. DataIsOwn'
    BY <1>1, <1>4, <2>2 DEF SessionInv, SessionSound, Leftover, DataIsOwn
  <2>6. ~raced' => \A p \in CallId : Fresh(p)'
    BY <1>1, <2>1, <2>2, <2>3 DEF Fresh, Loads
  <2>7. ~raced' => SignedOut' /\ SignedIn'
    BY <1>1, <2>2 DEF SignedOut, SignedIn
  <2> QED
    BY <2>4, <2>5, <2>6, <2>7 DEF SessionSound
<1> QED
  BY <1>3, <1>4 DEF EndMe

(* What the answer to a part of a load does to the tab: it comes with the  *)
(* request's token, or with none, and is late when the request is stale or *)
(* nobody is named.                                                        *)
Comes(q, what, old, new) ==
    \/ new = old /\ (what \in late' <=> what \in late)
    \/ /\ new \in {0, call[q].token}
       /\ what \in late' <=> tab.step = "login" \/ call[q].stale

LEMMA LoadSteps ==
    ASSUME SessionInv, NEW q \in CallId,
           EndLists(q) \/ EndUsers(q) \/ EndLogs(q)
    PROVE  /\ tab'.step = tab.step /\ tab'.user = tab.user
           /\ UNCHANGED raced
           /\ \/ stored' = stored /\ tab'.reloading = tab.reloading
              \/ stored' = 0 /\ tab'.reloading
           /\ Comes(q, "lists", tab.lists, tab'.lists)
           /\ Comes(q, "users", tab.users, tab'.users)
           /\ Comes(q, "logs", tab.logs, tab'.logs)
<1>1. CASE EndLists(q)
  BY <1>1 DEF EndLists, Fills, Comes, SessionInv, SessionTypeOK, TabState
<1>2. CASE EndUsers(q)
  BY <1>2 DEF EndUsers, Refused, Fills, Comes, SessionInv, SessionTypeOK,
     TabState
<1>3. CASE EndLogs(q)
  BY <1>3 DEF EndLogs, Refused, Fills, Comes, SessionInv, SessionTypeOK,
     TabState
<1> QED
  BY <1>1, <1>2, <1>3

LEMMA LoadCalls ==
    ASSUME SessionInv, NEW q \in CallId,
           EndLists(q) \/ EndUsers(q) \/ EndLogs(q)
    PROVE  /\ call[q].what \in Loads
           /\ \A p \in CallId : p # q => call'[p] = call[p]
           /\ ~call'[q].stale
           /\ \/ call'[q].what = "done"
              \/ call'[q].what \in Loads /\ call'[q].token = stored'
<1>1. call \in [CallId -> CallState]
  BY DEF SessionInv, SessionTypeOK
<1>2. ASSUME NEW what \in Loads, Onward(q, what)
      PROVE  /\ \A p \in CallId : p # q => call'[p] = call[p]
             /\ call'[q].what = what /\ call'[q].token = stored'
             /\ ~call'[q].stale
  BY <1>1, <1>2 DEF Onward, Request
<1>3. CASE call' = [call EXCEPT ![q] = Idle("done")]
  BY <1>1, <1>3 DEF Idle, EndLists, EndUsers, EndLogs, Loads
<1> QED
  BY <1>2, <1>3 DEF EndLists, EndUsers, EndLogs, Loads

(* A part of a load that is fresh belongs to the user shown, and so does   *)
(* what is asked for next.                                                 *)
LEMMA LoadSound ==
    ASSUME SessionInv, NEW q \in CallId,
           EndLists(q) \/ EndUsers(q) \/ EndLogs(q)
    PROVE  SessionSound'
<1>1. /\ call[q].what \in Loads
      /\ \A p \in CallId : p # q => call'[p] = call[p]
      /\ ~call'[q].stale
      /\ \/ call'[q].what = "done"
         \/ call'[q].what \in Loads /\ call'[q].token = stored'
  BY LoadCalls
<1>2. /\ tab'.step = tab.step /\ tab'.user = tab.user /\ UNCHANGED raced
      /\ \/ stored' = stored /\ tab'.reloading = tab.reloading
         \/ stored' = 0 /\ tab'.reloading
  BY LoadSteps
<1>3. /\ Comes(q, "lists", tab.lists, tab'.lists)
      /\ Comes(q, "users", tab.users, tab'.users)
      /\ Comes(q, "logs", tab.logs, tab'.logs)
  BY LoadSteps
<1>4. \A p \in CallId : call[p].what = "me" => p # q /\ call'[p] = call[p]
  BY <1>1 DEF Loads
<1>5. \A p \in CallId : call'[p].what = "me" => call'[p] = call[p]
  BY <1>1 DEF Loads
<1>6. OneCheck' /\ Leftover'
  BY <1>2, <1>3, <1>5
  DEF SessionInv, SessionSound, OneCheck, Leftover, Comes
<1>7. ~raced /\ ~call[q].stale /\ call[q].token # 0 =>
         /\ tab.step # "login" => call[q].token = tab.user
         /\ \A p \in CallId : call[p].what = "me" /\ ~call[p].stale =>
                                 call[p].token = call[q].token
  BY <1>1 DEF SessionInv, SessionSound, Fresh
<1>8. DataIsOwn'
  BY <1>2, <1>3, <1>7 DEF SessionInv, SessionSound, DataIsOwn, Comes
<1>9. ~raced => SignedOut' /\ SignedIn'
  BY <1>2, <1>4 DEF SessionInv, SessionSound, SignedOut, SignedIn
<1>10. ~raced => \A p \in CallId : Fresh(p)'
  <2> SUFFICES ASSUME ~raced, NEW p \in CallId, ~call'[p].stale
               PROVE  Fresh(p)'
    BY DEF Fresh
  <2>1. CASE call'[p].what = "me"
    <3>1. /\ p # q /\ call'[p] = call[p] /\ Fresh(p)
      BY <1>4, <1>5, <2>1 DEF SessionInv, SessionSound
    <3>2. \A r \in CallId : call'[r].what \in Loads => ~call'[r].stale
      BY <1>1, <2>1, <3>1 DEF Fresh
    <3>3. ~call[q].stale /\ call[q].token \in {0, call[p].token}
      BY <1>1, <1>7, <2>1, <3>1 DEF Fresh
    <3>4. {tab'.lists, tab'.users, tab'.logs} \subseteq {0, call[p].token}
      BY <1>3, <2>1, <3>1, <3>3 DEF Fresh, Comes
    <3> QED
      BY <1>2, <2>1, <3>1, <3>2, <3>4 DEF Fresh, Loads
  <2>2. CASE p = q /\ call'[q].what \in Loads /\ call'[q].token # 0
    <3>1. stored' = stored /\ stored # 0 /\ call'[q].token = stored
      BY <1>1, <1>2, <2>2 DEF Loads
    <3> QED
      BY <1>2, <1>5, <2>2, <3>1, SentFresh DEF Fresh, Loads
  <2>3. CASE p # q /\ call'[p].what # "me"
    BY <1>1, <1>2, <1>5, <2>3 DEF SessionInv, SessionSound, Fresh
  <2>4. CASE p = q /\ ~(call'[q].what \in Loads /\ call'[q].token # 0)
    BY <1>1, <2>4 DEF Fresh, Loads
  <2> QED
    BY <2>1, <2>2, <2>3, <2>4
<1> QED
  BY <1>2, <1>6, <1>8, <1>9, <1>10 DEF SessionSound

LEMMA SessionStepSound ==
    ASSUME SessionInv, [SessionNext]_sessionVars
    PROVE  SessionSound'
<1>1. CASE UNCHANGED sessionVars
  BY <1>1 DEF sessionVars, SessionInv, SessionSound, OneCheck, Leftover,
     DataIsOwn, Fresh, SignedOut, SignedIn
<1>2. CASE SessionNext
  BY <1>2, MountSound, ClickSound, LogoutSound, GreetingSound, OtherTabSound,
     EndLoginSound, EndMeSound, LoadSound DEF SessionNext
<1> QED
  BY <1>1, <1>2

LEMMA SessionShown == SessionInv => ShownIsSignedIn
BY DEF SessionInv, SessionSound, SignedOut, SignedIn, Checking,
       ShownIsSignedIn, SessionTypeOK, TabState

LEMMA SessionOwn == SessionInv => DataIsOwn
BY DEF SessionInv, SessionSound

(* What a tab shows, what its token says and what is on its way to it fit  *)
(* together after every step of the session's handlers.                    *)
THEOREM SessionAlwaysSound == SessionSpec => []SessionInv
<1>1. SessionInit => SessionInv
  BY SessionInitTypes, SessionInitSound DEF SessionInv
<1>2. SessionInv /\ [SessionNext]_sessionVars => SessionInv'
  BY SessionStepTypes, SessionStepSound DEF SessionInv
<1> QED
  BY <1>1, <1>2, PTL DEF SessionSpec

(* Every handler of the session leaves its variables in their types.       *)
THEOREM SessionTypes == SessionSpec => []SessionTypeOK
<1>1. SessionInv => SessionTypeOK
  BY DEF SessionInv
<1> QED
  BY <1>1, SessionAlwaysSound, PTL

(* The tab names the user whose token is stored, whatever answers come in  *)
(* in whatever order, until another tab changes the token or the check of  *)
(* an older one is answered.                                               *)
THEOREM ShownAlwaysSignedIn == SessionSpec => []ShownIsSignedIn
BY SessionShown, SessionAlwaysSound, PTL

(* What was asked for since the user signed in is that user's, however     *)
(* many loads overlap and however their answers are ordered: only answers  *)
(* that came in late can be another's.                                     *)
THEOREM DataAlwaysOwn == SessionSpec => []DataIsOwn
BY SessionOwn, SessionAlwaysSound, PTL

-----------------------------------------------------------------------------
(* Arrays.                                                                 *)

(* A set of numbers that is not empty has a least one.                     *)
LEMMA Least ==
    ASSUME NEW T \in SUBSET Nat, T # {}
    PROVE  \E n \in T : \A m \in T : n <= m
<1>1. OpToRel(<, Nat) = {ss \in Nat \X Nat : ss[1] < ss[2]}
  BY DEF OpToRel
<1> DEFINE Less == {ss \in Nat \X Nat : ss[1] < ss[2]}
<1>2. IsWellFoundedOn(Less, Nat)
  BY <1>1, NatLessThanWellFounded, Zenon
<1>3. \A m, n \in Nat : m < n => <<m, n>> \in Less
  OBVIOUS
<1> HIDE DEF Less
<1>4. \E n \in T : \A m \in T : ~ (<<m, n>> \in Less)
  BY <1>2, WFMin, Zenon
<1>5. PICK n \in T : \A m \in T : ~ (<<m, n>> \in Less)
  BY <1>4
<1>6. \A m \in T : n \in Nat /\ m \in Nat /\ ~ (m < n)
  BY <1>3, <1>5
<1>7. \A m \in T : n <= m
  BY <1>6
<1> QED
  BY <1>7

(* What filter computes, element by element.                               *)
Kept(list, gone, n, f) ==
    f = [k \in 0..n |-> IF k = 0 THEN <<>>
                        ELSE IF k \in gone THEN f[k - 1]
                        ELSE Append(f[k - 1], list[k])]

LEMMA KeptExists ==
    ASSUME NEW S, NEW list \in Seq(S), NEW gone, NEW n \in 0..Len(list)
    PROVE  \E f : Kept(list, gone, n, f)
<1> DEFINE T == {m \in 0..Len(list) : ~ \E f : Kept(list, gone, m, f)}
<1> SUFFICES ASSUME T # {} PROVE FALSE
  OBVIOUS
<1>1. Len(list) \in Nat /\ T \in SUBSET Nat
  OBVIOUS
<1>2. PICK m \in T : \A l \in T : m <= l
  BY <1>1, Least
<1>3. m # 0
  <2>1. Kept(list, gone, 0, [k \in 0..0 |-> <<>>])
    BY DEF Kept
  <2> QED
    BY <1>2, <2>1
<1>4. m - 1 \in 0..Len(list) /\ m - 1 \notin T /\ m \in Nat /\ m - 1 \in Nat
  BY <1>1, <1>2, <1>3
<1>5. PICK f : Kept(list, gone, m - 1, f)
  BY <1>4
<1> DEFINE next == IF m \in gone THEN f[m - 1] ELSE Append(f[m - 1], list[m])
           g == [k \in 0..m |-> IF k = m THEN next ELSE f[k]]
<1> HIDE DEF next
<1>6. \A k \in 0..(m - 1) :
         f[k] = IF k = 0 THEN <<>>
                ELSE IF k \in gone THEN f[k - 1]
                ELSE Append(f[k - 1], list[k])
  BY <1>5 DEF Kept
<1>7. /\ g[m] = next
      /\ \A k \in 0..m : k # m => g[k] = f[k]
  BY <1>4
<1>8. \A k \in 0..m :
         g[k] = IF k = 0 THEN <<>>
                ELSE IF k \in gone THEN g[k - 1]
                ELSE Append(g[k - 1], list[k])
  <2> SUFFICES ASSUME NEW k \in 0..m
               PROVE  g[k] = IF k = 0 THEN <<>>
                             ELSE IF k \in gone THEN g[k - 1]
                             ELSE Append(g[k - 1], list[k])
    OBVIOUS
  <2> HIDE DEF g
  <2>1. CASE k = m
    <3>1. g[k - 1] = f[k - 1]
      BY <1>4, <1>7, <2>1
    <3> QED
      BY <1>3, <1>7, <2>1, <3>1 DEF next
  <2>2. CASE k = 0
    <3>1. k \in 0..(m - 1)
      BY <1>4, <2>2
    <3> QED
      BY <1>3, <1>6, <1>7, <2>2, <3>1
  <2>3. CASE k # m /\ k # 0
    <3>1. k \in 0..(m - 1) /\ k - 1 \in 0..m /\ k - 1 # m
      BY <1>4, <2>3
    <3> QED
      BY <1>6, <1>7, <2>3, <3>1
  <2> QED
    BY <2>1, <2>2, <2>3
<1>9. Kept(list, gone, m, g)
  BY <1>8 DEF Kept
<1> QED
  BY <1>2, <1>9

LEMMA KeptType ==
    ASSUME NEW S, NEW list \in Seq(S), NEW gone,
           NEW f, Kept(list, gone, Len(list), f), NEW n \in 0..Len(list)
    PROVE  f[n] \in Seq(S)
<1> DEFINE T == {m \in 0..Len(list) : f[m] \notin Seq(S)}
<1> SUFFICES ASSUME T # {} PROVE FALSE
  OBVIOUS
<1>1. Len(list) \in Nat /\ T \in SUBSET Nat
  OBVIOUS
<1>2. PICK m \in T : \A l \in T : m <= l
  BY <1>1, Least
<1>3. f[m] = IF m = 0 THEN <<>>
             ELSE IF m \in gone THEN f[m - 1]
             ELSE Append(f[m - 1], list[m])
  BY <1>2 DEF Kept
<1>4. f[m] \notin Seq(S) /\ m \in 0..Len(list)
  BY <1>2
<1>5. CASE m = 0
  <2>1. f[m] = <<>> /\ <<>> \in Seq(S)
    BY <1>3, <1>5
  <2> QED
    BY <1>4, <2>1
<1>6. CASE m # 0
  <2>1. m - 1 \in 0..Len(list) /\ m - 1 \notin T /\ list[m] \in S
    BY <1>1, <1>2, <1>4, <1>6
  <2>2. f[m - 1] \in Seq(S)
    BY <2>1
  <2>3. Append(f[m - 1], list[m]) \in Seq(S)
    BY <2>1, <2>2
  <2>4. f[m] = f[m - 1] \/ f[m] = Append(f[m - 1], list[m])
    BY <1>3, <1>6
  <2> QED
    BY <1>4, <2>2, <2>3, <2>4
<1> QED
  BY <1>5, <1>6

LEMMA FilteredType ==
    ASSUME NEW S, NEW list \in Seq(S), NEW gone
    PROVE  Filtered(list, gone) \in Seq(S)
<1> DEFINE f == CHOOSE g : Kept(list, gone, Len(list), g)
<1>1. Len(list) \in 0..Len(list)
  OBVIOUS
<1>2. \E g : Kept(list, gone, Len(list), g)
  BY <1>1, KeptExists
<1>3. Kept(list, gone, Len(list), f)
  BY <1>2, Zenon
<1>4. Filtered(list, gone) = f[Len(list)]
  BY DEF Filtered, Kept
<1> HIDE DEF f
<1> QED
  BY <1>1, <1>3, <1>4, KeptType

-----------------------------------------------------------------------------
(* Roles.                                                                  *)

LEMMA IdOfType == \A name \in RoleName : IdOf[name] \in RoleId
BY RolesAssumption DEF RolesAssumption

LEMMA DefaultsType == DEFAULT_ROLES \in Seq(Role) /\ KnownRole \subseteq RoleId
BY RolesAssumption DEF RolesAssumption, Role, KnownRole, RoleId

LEMMA ClosedFormType == ClosedForm \in RoleForm
BY DEF ClosedForm, RoleForm

LEMMA SavedRolesType ==
    ASSUME NEW list \in Seq(Role), NEW f \in RoleForm, NEW name \in RoleName
    PROVE  SavedRoles(list, f, name) \in Seq(Role)
<1>1. f.permissions \in SUBSET Permission
  BY DEF RoleForm
<1>2. CASE f.editing = NoRole
  <2>1. [id |-> IdOf[name], permissions |-> f.permissions] \in Role
    BY <1>1, IdOfType DEF Role
  <2> QED
    BY <1>2, <2>1 DEF SavedRoles
<1>3. CASE f.editing # NoRole
  <2> DEFINE new(k) == IF list[k].id = f.editing
                       THEN [list[k] EXCEPT !.permissions = f.permissions]
                       ELSE list[k]
  <2>1. \A k \in 1..Len(list) : list[k] \in Role
    OBVIOUS
  <2>2. \A k \in 1..Len(list) : new(k) \in Role
    BY <1>1, <2>1 DEF Role
  <2>3. SavedRoles(list, f, name) = [k \in 1..Len(list) |-> new(k)]
    BY <1>3 DEF SavedRoles
  <2> HIDE DEF new
  <2>4. [k \in 1..Len(list) |-> new(k)] \in Seq(Role)
    BY <2>2
  <2> QED
    BY <2>3, <2>4
<1> QED
  BY <1>2, <1>3

LEMMA WithoutRoleType ==
    ASSUME NEW list \in Seq(Role), NEW id
    PROVE  WithoutRole(list, id) \in Seq(Role)
BY FilteredType DEF WithoutRole

LEMMA RolesInitTypes == RolesInit => RolesTypeOK
BY DefaultsType, ClosedFormType, RolesAssumption
DEF RolesInit, RolesTypeOK, RolesAssumption

(* Whoever writes the roles writes roles.                                  *)
LEMMA EditTypes ==
    ASSUME RolesTypeOK,
           \/ \E name \in RoleName : handleSaveRole(name)
           \/ \E id \in RoleId : handleDeleteRole(id)
           \/ OtherTabSaves
    PROVE  RolesTypeOK'
<1>1. Edits \in Nat
  BY RolesAssumption DEF RolesAssumption
<1>2. ASSUME NEW new \in Seq(Role), setRoles(new)
      PROVE  RolesTypeOK'
  BY <1>1, <1>2, ClosedFormType DEF setRoles, RolesTypeOK
<1>3. ASSUME NEW name \in RoleName, handleSaveRole(name)
      PROVE  RolesTypeOK'
  BY <1>2, <1>3, SavedRolesType DEF handleSaveRole, RolesTypeOK
<1>4. ASSUME NEW id \in RoleId, handleDeleteRole(id)
      PROVE  RolesTypeOK'
  BY <1>2, <1>4, WithoutRoleType DEF handleDeleteRole, RolesTypeOK
<1>5. CASE OtherTabSaves
  <2>1. PICK list \in {hr_roles, DEFAULT_ROLES} :
           \/ \E f \in RoleForm, name \in RoleName :
                 f.open /\ hr_roles' = SavedRoles(list, f, name)
           \/ \E id \in RoleId : hr_roles' = WithoutRole(list, id)
    BY <1>5 DEF OtherTabSaves
  <2>2. list \in Seq(Role)
    BY <2>1, DefaultsType DEF RolesTypeOK
  <2>3. hr_roles' \in Seq(Role)
    BY <2>1, <2>2, SavedRolesType, WithoutRoleType
  <2> QED
    BY <1>1, <1>5, <2>3 DEF OtherTabSaves, RolesTypeOK
<1> QED
  BY <1>3, <1>4, <1>5

LEMMA FormTypes ==
    ASSUME RolesTypeOK,
           \/ openAddRoleModal \/ openEditRoleModal \/ closeRoleModal
           \/ \E perm \in Permission : toggleRolePermission(perm)
           \/ \E group \in Group : toggleGroupPermissions(group)
    PROVE  RolesTypeOK'
<1>1. ASSUME NEW f \in RoleForm, Form(f)
      PROVE  RolesTypeOK'
  BY <1>1 DEF Form, RolesTypeOK
<1>2. CASE openAddRoleModal
  <2>1. [ClosedForm EXCEPT !.open = TRUE] \in RoleForm
    BY DEF ClosedForm, RoleForm
  <2> QED
    BY <1>1, <1>2, <2>1 DEF openAddRoleModal
<1>3. CASE openEditRoleModal
  <2>1. PICK r \in Range(roles) :
           Form([open |-> TRUE, editing |-> r.id, permissions |-> r.permissions])
    BY <1>3 DEF openEditRoleModal
  <2>2. r \in Role
    BY DEF Range, RolesTypeOK
  <2>3. [open |-> TRUE, editing |-> r.id, permissions |-> r.permissions]
           \in RoleForm
    BY <2>2 DEF Role, RoleForm
  <2> QED
    BY <1>1, <2>1, <2>3
<1>4. CASE closeRoleModal
  BY <1>1, <1>4, ClosedFormType DEF closeRoleModal
<1>5. roleForm \in RoleForm
  BY DEF RolesTypeOK
<1>6. ASSUME NEW some \in SUBSET Permission,
             Form([roleForm EXCEPT !.permissions = some])
      PROVE  RolesTypeOK'
  <2>1. [roleForm EXCEPT !.permissions = some] \in RoleForm
    BY <1>5 DEF RoleForm
  <2> QED
    BY <1>1, <1>6, <2>1
<1>7. roleForm.permissions \in SUBSET Permission
  BY <1>5 DEF RoleForm
<1>8. ASSUME NEW perm \in Permission, toggleRolePermission(perm)
      PROVE  RolesTypeOK'
  <2> DEFINE some == IF perm \in roleForm.permissions
                     THEN roleForm.permissions \ {perm}
                     ELSE roleForm.permissions \cup {perm}
  <2>1. some \in SUBSET Permission
    BY <1>7
  <2>2. Form([roleForm EXCEPT !.permissions = some])
    BY <1>8 DEF toggleRolePermission
  <2> QED
    BY <1>6, <2>1, <2>2
<1>9. ASSUME NEW group \in Group, toggleGroupPermissions(group)
      PROVE  RolesTypeOK'
  <2> DEFINE some == IF group \subseteq roleForm.permissions
                     THEN roleForm.permissions \ group
                     ELSE roleForm.permissions \cup group
  <2>1. some \in SUBSET Permission
    BY <1>7, RolesAssumption DEF RolesAssumption
  <2>2. Form([roleForm EXCEPT !.permissions = some])
    BY <1>9 DEF toggleGroupPermissions
  <2> QED
    BY <1>6, <2>1, <2>2
<1> QED
  BY <1>2, <1>3, <1>4, <1>8, <1>9

LEMMA RolesStepTypes ==
    ASSUME RolesTypeOK, [RolesNext]_rolesVars
    PROVE  RolesTypeOK'
<1>1. CASE UNCHANGED rolesVars
  BY <1>1 DEF rolesVars, RolesTypeOK
<1>2. CASE LoadRoles
  BY <1>2, ClosedFormType DEF LoadRoles, RolesTypeOK
<1>3. ASSUME NEW id \in RoleId, SignInAs(id)
      PROVE  RolesTypeOK'
  BY <1>3, ClosedFormType DEF SignInAs, RolesTypeOK
<1> QED
  BY <1>1, <1>2, <1>3, EditTypes, FormTypes DEF RolesNext

(* The first role of an identifier decides.                                *)
LEMMA GrantedFirst ==
    ASSUME NEW list \in Seq(Role), NEW id, NEW k \in 1..Len(list),
           list[k].id = id, \A j \in 1..Len(list) : list[j].id = id => k <= j
    PROVE  Granted(list, id) = list[k].permissions
<1> DEFINE I == {j \in 1..Len(list) : list[j].id = id}
<1>1. k \in I /\ (\A j \in I : k <= j) /\ k # 0 /\ k \in Nat /\ I \subseteq Nat
  OBVIOUS
<1>2. Min(I) = k
  BY <1>1 DEF Min
<1>3. SelectInSeq(list, LAMBDA r : r.id = id) = k
  BY <1>1, <1>2 DEF SelectInSeq
<1> QED
  BY <1>1, <1>3 DEF Granted

(* A role at the end changes nothing for those that are there.             *)
LEMMA AppendedGrants ==
    ASSUME NEW list \in Seq(Role), NEW new \in Role, NEW r \in Range(list)
    PROVE  Granted(Append(list, new), r.id) = Granted(list, r.id)
<1> DEFINE I == {j \in 1..Len(list) : list[j].id = r.id}
           longer == Append(list, new)
<1>1. I # {} /\ I \in SUBSET Nat
  BY DEF Range
<1>2. PICK k \in I : \A j \in I : k <= j
  BY <1>1, Least
<1>3. Granted(list, r.id) = list[k].permissions
  BY <1>2, GrantedFirst
<1>4. /\ longer \in Seq(Role) /\ Len(longer) = Len(list) + 1
      /\ \A j \in 1..Len(list) : longer[j] = list[j]
  OBVIOUS
<1> HIDE DEF longer
<1>5. k \in 1..Len(longer) /\ longer[k].id = r.id
      /\ longer[k].permissions = list[k].permissions
  BY <1>2, <1>4
<1>6. \A j \in 1..Len(longer) : longer[j].id = r.id => k <= j
  <2> SUFFICES ASSUME NEW j \in 1..Len(longer), longer[j].id = r.id
               PROVE  k <= j
    OBVIOUS
  <2>1. CASE j \in 1..Len(list)
    BY <1>2, <1>4, <2>1
  <2>2. CASE j = Len(list) + 1
    BY <1>2, <2>2
  <2> QED
    BY <1>4, <2>1, <2>2
<1>7. Granted(longer, r.id) = longer[k].permissions
  BY <1>4, <1>5, <1>6, GrantedFirst
<1> QED
  BY <1>3, <1>5, <1>7 DEF longer

(* Roles change under an open form for a new one only when it is saved.    *)
LEMMA NewRoleStep ==
    ASSUME RolesTypeOK, [RolesNext]_rolesVars, roles' # roles, edits' # edits,
           roleForm.open, roleForm.editing = NoRole
    PROVE  \A r \in Range(roles) :
              Granted(roles', r.id) = Granted(roles, r.id)
<1>1. PICK name \in RoleName : handleSaveRole(name)
  BY DEF rolesVars, RolesNext, LoadRoles, openAddRoleModal,
     openEditRoleModal, closeRoleModal, Form, SignInAs, handleDeleteRole,
     toggleRolePermission, toggleGroupPermissions, OtherTabSaves
<1> DEFINE new == [id |-> IdOf[name], permissions |-> roleForm.permissions]
<1>2. roles' = Append(roles, new)
  BY <1>1 DEF handleSaveRole, setRoles, SavedRoles
<1>3. new \in Role
  BY IdOfType DEF Role, RolesTypeOK, RoleForm
<1> HIDE DEF new
<1> QED
  BY <1>2, <1>3, AppendedGrants DEF RolesTypeOK

-----------------------------------------------------------------------------
(* Filters.                                                                *)

(* What roleFilter may hold: letters, names and identifiers.               *)
Pickable == Range(AllWord) \cup RoleNames \cup {RoleKey[n] : n \in RoleTitle}

RoleFilter == [all : BOOLEAN, picked : Seq(Pickable)]

InOrder(v) == v.from # 0 /\ v.to # 0 => v.from <= v.to

(* The filter that a click passed along is the whole filter, unless the    *)
(* click changed no page.                                                  *)
AskedSound ==
    asked # "nothing" =>
        /\ viewed = "interviews"
        /\ view.search = (asked # "awaiting")
        /\ asked # "among" =>
              /\ view.from = 0 /\ view.to = 0
              /\ view.chosen["decision"] = IF asked = "awaiting"
                                           THEN {"Pending"} ELSE {}
              /\ view.chosen["status"] = IF asked = "awaiting"
                                         THEN {"Completed"} ELSE {}

ViewsInv == ViewsTypeOK /\ roleFilter \in RoleFilter /\ AskedSound

LEMMA ListIsKnown == \A list \in List : list \in Lists
BY ListViewsAssumption DEF ListViewsAssumption

LEMMA OptionsType ==
    \A list \in Lists, key \in Key : Options(list, key) \in SUBSET AllOptions
<1> SUFFICES ASSUME NEW list \in Lists, NEW key \in Key,
                    NEW opt \in Options(list, key)
             PROVE  opt \in AllOptions
  OBVIOUS
<1> QED
  BY DEF AllOptions

LEMMA AskedOptions ==
    {"Pending"} \in SUBSET AllOptions /\ {"Completed"} \in SUBSET AllOptions
<1>1. /\ "interviews" \in Lists /\ "status" \in Key /\ "decision" \in Key
      /\ "Completed" \in Options("interviews", "status")
      /\ "Pending" \in Options("interviews", "decision")
  BY DEF Lists, Key, Options, InterviewStatus, InterviewDecision
<1> QED
  BY <1>1, OptionsType

LEMMA NoViewType == NoView \in View /\ InOrder(NoView)
BY DEF NoView, View, InOrder

(* A filter with one part replaced.                                        *)
LEMMA ViewParts ==
    ASSUME NEW v \in View
    PROVE  /\ \A b \in BOOLEAN : /\ [v EXCEPT !.search = b] \in View
                                 /\ [v EXCEPT !.archived = b] \in View
           /\ \A key \in Key, some \in SUBSET AllOptions :
                 [v EXCEPT !.chosen[key] = some] \in View
           /\ \A d \in Day \cup {0} : /\ [v EXCEPT !.from = d] \in View
                                      /\ [v EXCEPT !.to = d] \in View
           /\ v.search \in BOOLEAN /\ v.archived \in BOOLEAN
           /\ v.chosen \in [Key -> SUBSET AllOptions]
           /\ v.from \in Day \cup {0} /\ v.to \in Day \cup {0}
BY DEF View

LEMMA AfterResetType ==
    ASSUME NEW v \in View, InOrder(v)
    PROVE  AfterReset(v) \in View /\ InOrder(AfterReset(v))
<1>1. /\ [NoView EXCEPT !.archived = v.archived] \in View
      /\ InOrder([NoView EXCEPT !.archived = v.archived])
  BY NoViewType, ViewParts DEF InOrder, NoView
<1>2. /\ [v EXCEPT !.search = FALSE] \in View
      /\ InOrder([v EXCEPT !.search = FALSE])
  BY ViewParts DEF InOrder, View
<1> QED
  BY <1>1, <1>2, NoViewType DEF AfterReset

(* What a click can pass along.                                            *)
Passed == [search : BOOLEAN, decision : SUBSET AllOptions,
           status : SUBSET AllOptions]

LEMMA WithStateType ==
    ASSUME NEW v \in View, NEW state \in Passed
    PROVE  /\ WithState(v, state) \in View
           /\ WithState(v, state).from = v.from
           /\ WithState(v, state).to = v.to
           /\ WithState(v, state).archived = v.archived
           /\ WithState(v, state).search = (state.search \/ v.search)
           /\ WithState(v, state).chosen["decision"] =
                 IF state.decision # {} THEN state.decision
                 ELSE v.chosen["decision"]
           /\ WithState(v, state).chosen["status"] =
                 IF state.status # {} THEN state.status
                 ELSE v.chosen["status"]
<1> DEFINE decision == IF state.decision # {} THEN state.decision
                       ELSE v.chosen["decision"]
           status == IF state.status # {} THEN state.status
                     ELSE v.chosen["status"]
           found == state.search \/ v.search
<1>1. "decision" \in Key /\ "status" \in Key
  BY DEF Key
<1>2. /\ decision \in SUBSET AllOptions /\ status \in SUBSET AllOptions
      /\ found \in BOOLEAN
  BY <1>1, ViewParts DEF Passed
<1>3. WithState(v, state) = [v EXCEPT !.search = found,
                                      !.chosen["decision"] = decision,
                                      !.chosen["status"] = status]
  BY <1>1 DEF WithState, View
<1> HIDE DEF decision, status, found
<1> DEFINE v1 == [v EXCEPT !.search = found]
           v2 == [v1 EXCEPT !.chosen["decision"] = decision]
           v3 == [v2 EXCEPT !.chosen["status"] = status]
<1>4. [v EXCEPT !.search = found, !.chosen["decision"] = decision,
                !.chosen["status"] = status] = v3
  OBVIOUS
<1>5. /\ v1 \in View /\ v1.search = found /\ v1.chosen = v.chosen
      /\ v1.archived = v.archived /\ v1.from = v.from /\ v1.to = v.to
  BY <1>2 DEF View
<1> HIDE DEF v1
<1>6. /\ v2 \in View /\ v2.search = found
      /\ v2.chosen["decision"] = decision
      /\ v2.chosen["status"] = v.chosen["status"]
      /\ v2.archived = v.archived /\ v2.from = v.from /\ v2.to = v.to
  BY <1>1, <1>2, <1>5 DEF View
<1> HIDE DEF v2
<1>7. /\ v3 \in View /\ v3.search = found
      /\ v3.chosen["decision"] = decision /\ v3.chosen["status"] = status
      /\ v3.archived = v.archived /\ v3.from = v.from /\ v3.to = v.to
  BY <1>1, <1>2, <1>6 DEF View
<1> HIDE DEF v3
<1> QED
  BY <1>3, <1>4, <1>7 DEF decision, status, found

LEMMA NavigatedType ==
    ASSUME NEW v \in View, InOrder(v), NEW state \in Passed
    PROVE  Navigated(v, state) \in View /\ InOrder(Navigated(v, state))
BY AfterResetType, WithStateType DEF Navigated, InOrder

LEMMA AllRolesType ==
    AllRoles \in RoleFilter /\ Len(AllRoles.picked) \in 0..(Ticks + 3)
<1>1. AllWord \in Seq(Pickable) /\ Len(AllWord) = 3
  BY DEF AllWord, Pickable, Range
<1>2. Ticks \in Nat
  BY ListViewsAssumption DEF ListViewsAssumption
<1>3. AllRoles.picked = AllWord
  BY DEF AllRoles
<1>4. AllRoles \in RoleFilter
  BY <1>1 DEF AllRoles, RoleFilter
<1>5. 3 \in 0..(Ticks + 3)
  BY <1>2
<1>6. Len(AllRoles.picked) = 3
  BY <1>1, <1>3
<1> QED
  BY <1>4, <1>5, <1>6

LEMMA ViewsInitInv == ViewsInit => ViewsInv
<1> SUFFICES ASSUME ViewsInit PROVE ViewsInv
  OBVIOUS
<1>1. view.from = 0 /\ view.to = 0
  BY DEF ViewsInit, NoView
<1>2. roleFilter \in RoleFilter /\ Len(roleFilter.picked) \in 0..(Ticks + 3)
  BY AllRolesType DEF ViewsInit
<1>3. roleFilter.all \in BOOLEAN
  BY <1>2 DEF RoleFilter
<1>4. ViewsTypeOK
  BY <1>1, <1>2, <1>3, NoViewType DEF ViewsInit, ViewsTypeOK, Places
<1> QED
  BY <1>2, <1>4 DEF ViewsInit, ViewsInv, AskedSound

(* Steps that ask for nothing.                                             *)
LEMMA NothingAsked ==
    ASSUME ViewsInv, asked' = "nothing", UNCHANGED <<viewed, isAdmin>>,
           place' \in Places, view' \in View, InOrder(view'),
           roleFilter' \in RoleFilter, Len(roleFilter'.picked) \in 0..(Ticks + 3)
    PROVE  ViewsInv'
BY DEF ViewsInv, ViewsTypeOK, AskedSound, InOrder, RoleFilter

LEMMA SetKeeps ==
    ASSUME ViewsInv, NEW v \in View, InOrder(v), Set(v)
    PROVE  ViewsInv'
BY NothingAsked DEF Set, ViewsInv, ViewsTypeOK

LEMMA GoToPlaceKeeps ==
    ASSUME ViewsInv, NEW to \in Places, GoToPlace(to)
    PROVE  ViewsInv'
<1>1. NoState \in Passed
  BY DEF NoState, Passed
<1>2. view \in View /\ InOrder(view)
  BY DEF ViewsInv, ViewsTypeOK, InOrder
<1>3. view' \in View /\ InOrder(view')
  BY <1>1, <1>2, NavigatedType DEF GoToPlace
<1> QED
  BY <1>3, NothingAsked DEF GoToPlace, ViewsInv, ViewsTypeOK

(* What a click passes along replaces what was filtered for.               *)
LEMMA ToInterviewsKeeps ==
    ASSUME ViewsInv, NEW state \in Passed, NEW what,
           \/ /\ what = "awaiting"
              /\ state = [search |-> FALSE, decision |-> {"Pending"},
                          status |-> {"Completed"}]
           \/ /\ what = "candidate"
              /\ state = [search |-> TRUE, decision |-> {}, status |-> {}],
           ToInterviews(state, what)
    PROVE  ViewsInv'
<1>1. view \in View /\ InOrder(view) /\ viewed = "interviews"
  BY DEF ViewsInv, ViewsTypeOK, InOrder, ToInterviews
<1> DEFINE v == AfterReset(view)
<1>2. v = [NoView EXCEPT !.archived = view.archived] /\ v \in View
  BY <1>1, AfterResetType DEF AfterReset
<1>3. /\ v.search = FALSE /\ v.from = 0 /\ v.to = 0
      /\ v.chosen["decision"] = {} /\ v.chosen["status"] = {}
  BY <1>2 DEF NoView, Key
<1> HIDE DEF v
<1>4. view' = WithState(v, state)
  BY DEF ToInterviews, Navigated, v
<1>5. /\ view' \in View /\ view'.from = 0 /\ view'.to = 0
      /\ view'.search = state.search
      /\ view'.chosen["decision"] = state.decision
      /\ view'.chosen["status"] = state.status
  BY <1>2, <1>3, <1>4, WithStateType DEF Passed
<1>6. ViewsTypeOK'
  BY <1>5 DEF ToInterviews, ViewsInv, ViewsTypeOK, Places
<1>7. AskedSound'
  <2>1. viewed' = "interviews" /\ asked' = what
    BY <1>1 DEF ToInterviews
  <2>2. CASE /\ what = "awaiting"
             /\ state = [search |-> FALSE, decision |-> {"Pending"},
                         status |-> {"Completed"}]
    BY <1>5, <2>1, <2>2 DEF AskedSound
  <2>3. CASE /\ what = "candidate"
             /\ state = [search |-> TRUE, decision |-> {}, status |-> {}]
    BY <1>5, <2>1, <2>3 DEF AskedSound
  <2> QED
    BY <2>2, <2>3
<1> QED
  BY <1>6, <1>7 DEF ViewsInv, ToInterviews

LEMMA OpenKeeps ==
    ASSUME ViewsInv, OpenAwaiting \/ OpenInterviewsOf
    PROVE  ViewsInv'
<1>1. /\ [search |-> FALSE, decision |-> {"Pending"}, status |-> {"Completed"}]
            \in Passed
      /\ OfCandidate \in Passed
  BY AskedOptions DEF Passed, OfCandidate
<1>2. CASE OpenAwaiting
  BY <1>1, <1>2, ToInterviewsKeeps DEF OpenAwaiting
<1>3. CASE ToInterviews(OfCandidate, "candidate")
  BY <1>1, <1>3, ToInterviewsKeeps DEF OfCandidate
<1>4. CASE /\ viewed = "interviews" /\ place = "list"
           /\ view' = WithState(view, OfCandidate)
           /\ asked' = "among"
           /\ UNCHANGED <<viewed, place, roleFilter, isAdmin>>
  <2>1. view \in View /\ InOrder(view)
    BY DEF ViewsInv, ViewsTypeOK, InOrder
  <2>2. view' \in View /\ InOrder(view')
    BY <1>1, <1>4, <2>1, WithStateType DEF InOrder
  <2>3. view'.search = TRUE
    BY <1>1, <1>4, <2>1, WithStateType DEF OfCandidate, View
  <2>4. ViewsTypeOK' /\ (roleFilter \in RoleFilter)'
    BY <1>4, <2>2 DEF ViewsInv, ViewsTypeOK, InOrder
  <2>5. AskedSound'
    BY <1>4, <2>3 DEF AskedSound
  <2> QED
    BY <2>4, <2>5 DEF ViewsInv
<1> QED
  BY <1>2, <1>3, <1>4 DEF OpenInterviewsOf

LEMMA EditKeeps ==
    ASSUME ViewsInv,
           \/ setSearchQuery \/ showArchived
           \/ \E key \in Key : toggleAll(key)
                               \/ \E opt \in AllOptions : toggle(key, opt)
           \/ \E d \in Day \cup {0} : onFromChange(d) \/ onToChange(d)
    PROVE  ViewsInv'
<1>1. view \in View /\ InOrder(view) /\ viewed \in Lists
  BY ListIsKnown DEF ViewsInv, ViewsTypeOK, InOrder
<1>2. CASE setSearchQuery
  <2>1. Set([view EXCEPT !.search = ~view.search])
    BY <1>2 DEF setSearchQuery
  <2>2. InOrder([view EXCEPT !.search = ~view.search])
    BY <1>1 DEF InOrder, View
  <2> QED
    BY <1>1, <2>1, <2>2, ViewParts, SetKeeps
<1>3. CASE showArchived
  <2>1. Set([view EXCEPT !.archived = ~view.archived])
    BY <1>3 DEF showArchived
  <2>2. InOrder([view EXCEPT !.archived = ~view.archived])
    BY <1>1 DEF InOrder, View
  <2> QED
    BY <1>1, <2>1, <2>2, ViewParts, SetKeeps
<1>4. ASSUME NEW key \in Key, NEW some \in SUBSET AllOptions,
             Set([view EXCEPT !.chosen[key] = some])
      PROVE  ViewsInv'
  <2>1. InOrder([view EXCEPT !.chosen[key] = some])
    BY <1>1 DEF InOrder, View
  <2> QED
    BY <1>1, <1>4, <2>1, ViewParts, SetKeeps
<1>5. ASSUME NEW key \in Key, toggleAll(key)
      PROVE  ViewsInv'
  <2> DEFINE options == Options(viewed, key)
             some == IF view.chosen[key] = options THEN {} ELSE options
  <2>1. some \in SUBSET AllOptions
    BY <1>1, OptionsType
  <2>2. Set([view EXCEPT !.chosen[key] = some])
    BY <1>5 DEF toggleAll
  <2> QED
    BY <1>4, <2>1, <2>2
<1>6. ASSUME NEW key \in Key, NEW opt \in AllOptions, toggle(key, opt)
      PROVE  ViewsInv'
  <2> DEFINE some == IF opt \in view.chosen[key]
                     THEN view.chosen[key] \ {opt}
                     ELSE view.chosen[key] \cup {opt}
  <2>1. some \in SUBSET AllOptions
    BY <1>1, ViewParts
  <2>2. Set([view EXCEPT !.chosen[key] = some])
    BY <1>6 DEF toggle
  <2> QED
    BY <1>4, <2>1, <2>2
<1>7. ASSUME NEW d \in Day \cup {0}, onFromChange(d)
      PROVE  ViewsInv'
  <2>1. InOrder([view EXCEPT !.from = d])
    BY <1>1, <1>7 DEF InOrder, View, onFromChange
  <2> QED
    BY <1>1, <1>7, <2>1, ViewParts, SetKeeps DEF onFromChange
<1>8. ASSUME NEW d \in Day \cup {0}, onToChange(d)
      PROVE  ViewsInv'
  <2>1. InOrder([view EXCEPT !.to = d])
    BY <1>1, <1>8 DEF InOrder, View, onToChange
  <2> QED
    BY <1>1, <1>8, <2>1, ViewParts, SetKeeps DEF onToChange
<1> QED
  BY <1>2, <1>3, <1>5, <1>6, <1>7, <1>8

(* The roles to tick, in some order.                                       *)
LEMMA NamesType == SetToSeq(RoleNames) \in Seq(RoleNames)
<1>1. IsFiniteSet(RoleNames)
  BY ListViewsAssumption, FS_AddElement DEF ListViewsAssumption, RoleNames
<1>2. /\ Cardinality(RoleNames) \in Nat
      /\ ExistsBijection(1..Cardinality(RoleNames), RoleNames)
  BY <1>1, FS_CardinalityType
<1>3. \E f \in [1..Cardinality(RoleNames) -> RoleNames] : IsInjective(f)
  BY <1>2 DEF ExistsBijection, Bijection, Injection, IsInjective
<1>4. SetToSeq(RoleNames) \in [1..Cardinality(RoleNames) -> RoleNames]
  BY <1>3 DEF SetToSeq
<1> QED
  BY <1>2, <1>4

LEMMA setRoleFilterKeeps ==
    ASSUME ViewsInv, NEW picked \in Seq(Pickable), setRoleFilter(picked)
    PROVE  ViewsInv'
<1> DEFINE keys == [k \in DOMAIN picked |-> ToKey(picked[k])]
<1>1. \A k \in DOMAIN picked : ToKey(picked[k]) \in Pickable
  BY DEF ToKey, Pickable
<1>2. Ticks \in Nat /\ Len(picked) \in Nat
  BY ListViewsAssumption DEF ListViewsAssumption
<1>3. keys \in Seq(Pickable) /\ Len(keys) = Len(picked)
  <2> DEFINE key(k) == ToKey(picked[k])
  <2>1. \A k \in 1..Len(picked) : key(k) \in Pickable
    BY <1>1
  <2>2. keys = [k \in 1..Len(picked) |-> key(k)]
    OBVIOUS
  <2> HIDE DEF key, keys
  <2> QED
    BY <1>2, <2>1, <2>2
<1>5. roleFilter' = AllRoles \/ roleFilter' = [all |-> FALSE, picked |-> keys]
  BY DEF setRoleFilter
<1> HIDE DEF keys
<1>6. roleFilter' \in RoleFilter /\ Len(roleFilter'.picked) \in 0..(Ticks + 3)
  <2>1. CASE roleFilter' = [all |-> FALSE, picked |-> keys]
    <3>1. roleFilter'.picked = keys /\ roleFilter' \in RoleFilter
      BY <1>3, <2>1 DEF RoleFilter
    <3>2. Len(picked) <= Ticks
      BY DEF setRoleFilter
    <3> QED
      BY <1>2, <1>3, <3>1, <3>2
  <2> QED
    BY <1>5, <2>1, AllRolesType
<1> QED
  BY <1>6, NothingAsked DEF setRoleFilter, ViewsInv, ViewsTypeOK, InOrder

LEMMA RoleTicksKeep ==
    ASSUME ViewsInv, toggleAllRoles \/ \E n \in RoleNames : toggleRole(n)
    PROVE  ViewsInv'
<1>1. roleFilter.picked \in Seq(Pickable)
  BY DEF ViewsInv, RoleFilter
<1>2. CASE toggleAllRoles
  <2>1. <<>> \in Seq(Pickable) /\ SetToSeq(RoleNames) \in Seq(Pickable)
    BY NamesType DEF Pickable
  <2> QED
    BY <1>2, <2>1, setRoleFilterKeeps DEF toggleAllRoles
<1>3. ASSUME NEW n \in RoleNames, toggleRole(n)
      PROVE  ViewsInv'
  <2> DEFINE picked == roleFilter.picked
  <2>1. /\ Filtered(picked, {k \in DOMAIN picked : picked[k] = n})
              \in Seq(Pickable)
        /\ Append(picked, n) \in Seq(Pickable)
    BY <1>1, FilteredType DEF Pickable
  <2>2. \/ setRoleFilter(Filtered(picked, {k \in DOMAIN picked : picked[k] = n}))
        \/ setRoleFilter(Append(picked, n))
    BY <1>3 DEF toggleRole
  <2> QED
    BY <2>1, <2>2, setRoleFilterKeeps
<1> QED
  BY <1>2, <1>3

LEMMA clearAllFiltersKeeps ==
    ASSUME ViewsInv, clearAllFilters
    PROVE  ViewsInv'
<1>1. /\ [NoView EXCEPT !.archived = view.archived] \in View
      /\ InOrder([NoView EXCEPT !.archived = view.archived])
  BY NoViewType, ViewParts DEF ViewsInv, ViewsTypeOK, InOrder, NoView
<1> QED
  BY <1>1, AllRolesType, NothingAsked DEF clearAllFilters, ViewsInv, ViewsTypeOK

LEMMA ViewsStepInv ==
    ASSUME ViewsInv, [ViewsNext]_viewsVars
    PROVE  ViewsInv'
<1>1. CASE UNCHANGED viewsVars
  BY <1>1 DEF viewsVars, ViewsInv, ViewsTypeOK, AskedSound
<1>2. CASE ViewsNext
  BY <1>2, GoToPlaceKeeps, OpenKeeps, EditKeeps, RoleTicksKeep,
     clearAllFiltersKeeps DEF ViewsNext
<1> QED
  BY <1>1, <1>2

(* The filter of what was asked for lets those rows through.               *)
LEMMA AskedListed == ViewsInv => AskedIsListed
<1> SUFFICES ASSUME ViewsInv, asked # "nothing", NEW r \in Rows
             PROVE  /\ asked # "among" =>
                         (Listed(r) <=>
                             /\ view.archived \/ ~r.archived
                             /\ asked = "awaiting" =>
                                   r.status = "Completed" /\ r.decision = "Pending"
                             /\ asked = "candidate" => r.found)
                    /\ asked = "among" /\ Listed(r) => r.found
  BY DEF AskedIsListed
<1>1. viewed = "interviews" /\ asked \in {"awaiting", "candidate", "among"}
  BY DEF ViewsInv, AskedSound, ViewsTypeOK
<1>2. Listed(r) <=> getFilteredInterviews(r)
  BY <1>1 DEF Listed
<1>3. CASE asked = "awaiting"
  BY <1>2, <1>3 DEF getFilteredInterviews, Passes, Chosen, ViewsInv, AskedSound
<1>4. CASE asked = "candidate"
  BY <1>2, <1>4 DEF getFilteredInterviews, Passes, Chosen, ViewsInv, AskedSound
<1>5. CASE asked = "among"
  BY <1>2, <1>5 DEF getFilteredInterviews, ViewsInv, AskedSound
<1> QED
  BY <1>1, <1>3, <1>4, <1>5

(* Every candidate has one of the statuses that can be ticked.             *)
LEMMA StatusOfAll ==
    \A interviews : getCandidateStatus(interviews) \in CandidateStatus
BY DEF getCandidateStatus, CandidateStatus

LEMMA NothingHidden == ViewsInv => NoHiddenFilter
<1> SUFFICES ASSUME ViewsInv, ~view.search,
                    \/ ~hasActiveFilters
                    \/ /\ viewed = "candidates" /\ Chosen("experience") = {}
                       /\ Chosen("status") = CandidateStatus,
                    NEW r \in Rows
             PROVE  Listed(r) <=> Plain(r)
  BY DEF NoHiddenFilter
<1>1. viewed \in Lists
  BY ListIsKnown DEF ViewsInv, ViewsTypeOK
<1>2. CASE ~hasActiveFilters
  <2>1. /\ \A key \in Key : Chosen(key) = {}
        /\ view.from = 0 /\ view.to = 0 /\ roleFilter.all
    BY <1>2 DEF hasActiveFilters
  <2>2. /\ Chosen("status") = {} /\ Chosen("decision") = {}
        /\ Chosen("experience") = {} /\ Chosen("category") = {}
        /\ Chosen("area") = {} /\ Chosen("action") = {}
    BY <2>1 DEF Key
  <2> QED
    BY <1>1, <2>1, <2>2
    DEF Lists, Listed, Plain, Passes, getFilteredInterviews,
        getFilteredCandidates, getFilteredCompetencies, getFilteredVacancies,
        getFilteredLogs, getFilteredUsers, filteredItems
<1>3. CASE /\ viewed = "candidates" /\ Chosen("experience") = {}
           /\ Chosen("status") = CandidateStatus
  BY <1>3, StatusOfAll
  DEF Listed, Plain, Passes, getFilteredCandidates
<1> QED
  BY <1>2, <1>3

-----------------------------------------------------------------------------
(* The tab as a whole.                                                     *)

ClientInv == SessionInv /\ RolesTypeOK /\ ViewsInv

LEMMA ClientInitInv == ClientInit => ClientInv
BY SessionInitTypes, SessionInitSound, RolesInitTypes, ViewsInitInv
DEF ClientInit, ClientInv, SessionInv

(* A step of the tab is a step of one part, and none of the others.        *)
LEMMA ClientStep ==
    ASSUME [ClientNext]_clientVars
    PROVE  /\ [SessionNext]_sessionVars
           /\ [RolesNext]_rolesVars
           /\ [ViewsNext]_viewsVars
BY DEF ClientNext, clientVars

LEMMA ClientStepInv ==
    ASSUME ClientInv, [ClientNext]_clientVars
    PROVE  ClientInv'
BY ClientStep, SessionStepTypes, SessionStepSound, RolesStepTypes, ViewsStepInv
DEF ClientInv, SessionInv

LEMMA ClientAlways == ClientSpec => []ClientInv
BY ClientInitInv, ClientStepInv, PTL DEF ClientSpec

(* Every handler of the tab leaves its variables in their types: the roles *)
(* an array of roles, the filters something that can be ticked, the dates  *)
(* in order.                                                               *)
THEOREM ClientTypesAlways == ClientSpec => []ClientTypeOK
<1>1. ClientInv => ClientTypeOK
  BY DEF ClientInv, ClientTypeOK, SessionInv, ViewsInv
<1> QED
  BY <1>1, ClientAlways, PTL

(* The tab as a whole names the user whose token is stored, and lists that *)
(* user's data or what came in late, until another tab changes the token   *)
(* or the check of an older one is answered.                               *)
THEOREM TabAlwaysOwn == ClientSpec => [](ShownIsSignedIn /\ DataIsOwn)
<1>1. ClientInv => ShownIsSignedIn /\ DataIsOwn
  BY SessionShown, SessionOwn DEF ClientInv
<1> QED
  BY <1>1, ClientAlways, PTL

(* The dashboard's "awaiting a decision" and a candidate's card list what  *)
(* they ask for: of all the steps between the click and the list none      *)
(* leaves an old filter behind, unless the click changed no page, and then *)
(* the name is searched for.                                               *)
THEOREM AskedAlwaysListed == ClientSpec => []AskedIsListed
<1>1. ClientInv => AskedIsListed
  BY AskedListed DEF ClientInv
<1> QED
  BY <1>1, ClientAlways, PTL

(* A list without a query and without the mark on the filter button shows  *)
(* every row but the archived ones and other people's log entries, and so  *)
(* does the list of candidates with every status ticked.                   *)
THEOREM NothingEverHidden == ClientSpec => []NoHiddenFilter
<1>1. ClientInv => NoHiddenFilter
  BY NothingHidden DEF ClientInv
<1> QED
  BY <1>1, ClientAlways, PTL

(* Saving a new role changes the rights of nobody who has one, for any     *)
(* roles there are and any identifier that the name of the new one gives.  *)
THEOREM NewRoleNeverGrants == ClientSpec => NewRoleGrantsNothing
<1> DEFINE Grants ==
              (roles' # roles /\ edits' # edits /\ roleForm.open
               /\ roleForm.editing = NoRole)
              => \A r \in Range(roles) :
                    Granted(roles', r.id) = Granted(roles, r.id)
<1>1. ClientInv /\ [ClientNext]_clientVars => [Grants]_rolesVars
  BY ClientStep, NewRoleStep DEF ClientInv
<1>2. ClientSpec => [][Grants]_rolesVars
  <2> HIDE DEF Grants
  <2> QED
    BY <1>1, ClientAlways, PTL DEF ClientSpec
<1> QED
  BY <1>2 DEF NewRoleGrantsNothing

=============================================================================
