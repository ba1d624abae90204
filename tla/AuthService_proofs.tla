------------------------- MODULE AuthService_proofs -------------------------
(***************************************************************************)
(* Theorems about the auth service, for any accounts, keys, lifetimes and  *)
(* requests, overlapping or not, with or without lost answers.             *)
(*                                                                         *)
(* What is cached or issued now comes from what a handler has read or      *)
(* written earlier.  The bounds on stale entries and tokens are inductive  *)
(* only together with a bound on how stale the account is that each        *)
(* handler holds (CallsSound).                                             *)
(***************************************************************************)
EXTENDS AuthService, TLAPS

(* The steps at which a handler holds an account.                          *)
Holding == {"verify", "insert", "fill", "write", "drop", "delete", "restore"}

(* What a handler holds at step verify was so in the table when it began,  *)
(* or it was cached then; at step fill it has written it itself.           *)
CallSound(q) ==
    LET u == call[q].id
        a == call[q].user
    IN  /\ call[q].step = "find" => ~call[q].hit
        /\ call[q].step \in {"verify", "insert", "fill"} => Usable(a)
        /\ call[q].step = "fill" => since[u][a.role] <= call[q].age
        /\ call[q].step = "verify" /\ ~call[q].hit =>
              since[u][a.role] <= call[q].age
        /\ call[q].step = "verify" /\ call[q].hit =>
              since[u][a.role] <= call[q].age + TTL - 1 + Slack

(* The steps at which CallSound demands anything of a handler.             *)
Bound == {"find", "verify", "insert", "fill"}

CallsSound == \A q \in AuthRequest : CallSound(q)

HoldersHaveIds ==
    \A q \in AuthRequest : call[q].step \in Holding => call[q].id \in User

EntriesHaveIds == \A k \in Key : Get(k) => cache[k].id \in User

(* An account that can be logged in was so now.                            *)
TablesCurrent ==
    \A u \in User : Usable(account[u]) => since[u][account[u].role] = 0

AuthTypes == AuthTypeOK /\ HoldersHaveIds /\ EntriesHaveIds

AuthSound ==
    /\ TablesCurrent
    /\ CallsSound
    /\ CacheStaleness
    /\ CachedAccountsUsable
    /\ TokenStaleness

-----------------------------------------------------------------------------
(* Types.                                                                  *)

LEMMA Times ==
    /\ TTL \in Nat /\ Accepted \in Nat /\ Slack \in Nat
    /\ TTL > 0 /\ Accepted > 0
BY AuthAssumption DEF AuthAssumption, Accepted

LEMMA AgesType == Ages \in Nat /\ 0 \in 0 .. Ages
BY Times DEF Ages

LEMMA NoAccountType == NoAccount \in Account
<1>1. PICK l, e, n, r : l \in Login /\ e \in Email /\ n \in Name /\ r \in Role
  BY AuthAssumption DEF AuthAssumption
<1>2. /\ (CHOOSE x \in Login : TRUE) \in Login
      /\ (CHOOSE x \in Email : TRUE) \in Email
      /\ (CHOOSE x \in Name : TRUE) \in Name
      /\ (CHOOSE x \in Role : TRUE) \in Role
  BY <1>1
<1> QED
  BY <1>2 DEF NoAccount, Account

LEMMA NoEntryType == NoEntry \in Entry
BY NoAccountType, Times DEF NoEntry, Entry

LEMMA NoCallType ==
    ASSUME NEW s \in CallSteps PROVE NoCall(s) \in Call
BY NoAccountType, Times DEF NoCall, Call

(* A handler that begins, one that ends.                                   *)
LEMMA BeginType ==
    ASSUME AuthTypes, NEW q \in AuthRequest, NEW next \in Call,
           Begin(q, next), next.step \in Holding => next.id \in User
    PROVE  /\ call' \in [AuthRequest -> Call]
           /\ HoldersHaveIds'
BY DEF AuthTypes, AuthTypeOK, Begin, HoldersHaveIds

LEMMA EndType ==
    ASSUME AuthTypes, NEW q \in AuthRequest, End(q)
    PROVE  /\ call' \in [AuthRequest -> Call]
           /\ HoldersHaveIds'
<1>1. NoCall("done") \in Call /\ NoCall("done").step = "done"
  BY NoCallType DEF CallSteps, NoCall
<1> QED
  BY <1>1 DEF AuthTypes, AuthTypeOK, End, HoldersHaveIds, Holding

(* A handler that goes on from one step to another with what it holds.     *)
LEMMA NextStepType ==
    ASSUME AuthTypes, NEW q \in AuthRequest, NEW s \in CallSteps,
           call[q].step \in Holding,
           call' = [call EXCEPT ![q].step = s]
    PROVE  /\ call' \in [AuthRequest -> Call]
           /\ HoldersHaveIds'
BY DEF AuthTypes, AuthTypeOK, Call, HoldersHaveIds

LEMMA SetAllType ==
    ASSUME AuthTypes, NEW keys, NEW u \in User, NEW a \in Account,
           SetAll(keys, u, a)
    PROVE  cache' \in [Key -> Entry] /\ EntriesHaveIds'
BY Times DEF AuthTypes, AuthTypeOK, SetAll, Entry, EntriesHaveIds, Get

LEMMA InvalidateType ==
    ASSUME AuthTypes, NEW keys, Invalidate(keys)
    PROVE  cache' \in [Key -> Entry] /\ EntriesHaveIds'
BY NoEntryType, Times
   DEF AuthTypes, AuthTypeOK, Invalidate, EntriesHaveIds, Get, NoEntry

LEMMA WriteAccountType ==
    ASSUME AuthTypes, NEW u \in User, NEW a \in Account, WriteAccount(u, a)
    PROVE  /\ account' \in [User -> Account]
           /\ since' \in [User -> [Role -> 0 .. Ages]]
BY AgesType DEF AuthTypes, AuthTypeOK, WriteAccount

LEMMA Held ==
    ASSUME AuthTypes, NEW q \in AuthRequest, call[q].step \in Holding
    PROVE  /\ call[q].id \in User /\ call[q].user \in Account
           /\ account[call[q].id] \in Account
BY DEF AuthTypes, AuthTypeOK, HoldersHaveIds, Call

LEMMA TypesStep == AuthTypes /\ [AuthNext]_authVars => AuthTypes'
<1> SUFFICES ASSUME AuthTypes, [AuthNext]_authVars PROVE AuthTypes'
  OBVIOUS
<1> USE DEF Holding
<1> DEFINE TablesKept == UNCHANGED <<account, token, since>>
<1>cache. ASSUME UNCHANGED cache PROVE cache' \in [Key -> Entry] /\ EntriesHaveIds'
  BY <1>cache DEF AuthTypes, AuthTypeOK, EntriesHaveIds, Get
<1>token. ASSUME UNCHANGED token PROVE token' \in [User -> [Role -> 0 .. Accepted]]
  BY <1>token DEF AuthTypes, AuthTypeOK
<1>table. ASSUME UNCHANGED <<account, since>>
      PROVE  /\ account' \in [User -> Account]
             /\ since' \in [User -> [Role -> 0 .. Ages]]
  BY <1>table DEF AuthTypes, AuthTypeOK
<1>1. ASSUME NEW q \in AuthRequest, LookUp(q) PROVE AuthTypes'
  <2>1. PICK k \in Key :
           Begin(q, IF Get(k)
                    THEN [NoCall("verify") EXCEPT !.id = cache[k].id,
                              !.user = cache[k].user, !.key = k, !.hit = TRUE]
                    ELSE [NoCall("find") EXCEPT !.key = k])
    BY <1>1 DEF LookUp
  <2>2. cache[k] \in Entry /\ (Get(k) => cache[k].id \in User)
    BY DEF AuthTypes, AuthTypeOK, EntriesHaveIds
  <2>3. /\ [NoCall("verify") EXCEPT !.id = cache[k].id,
               !.user = cache[k].user, !.key = k, !.hit = TRUE] \in Call
        /\ [NoCall("find") EXCEPT !.key = k] \in Call
        /\ [NoCall("find") EXCEPT !.key = k].step = "find"
    BY <2>2, NoCallType DEF Call, CallSteps, Entry, NoCall
  <2>4. [NoCall("verify") EXCEPT !.id = cache[k].id,
               !.user = cache[k].user, !.key = k, !.hit = TRUE].id = cache[k].id
    BY DEF NoCall
  <2>5. call' \in [AuthRequest -> Call] /\ HoldersHaveIds'
    <3>1. CASE Get(k)
      BY <3>1, <2>1, <2>2, <2>3, <2>4, BeginType
    <3>2. CASE ~Get(k)
      BY <3>2, <2>1, <2>3, BeginType
    <3> QED
      BY <3>1, <3>2
  <2> QED
    BY <1>1, <1>cache, <1>token, <1>table, <2>5 DEF LookUp, AuthTypes, AuthTypeOK
<1>2. ASSUME NEW q \in AuthRequest, FindByLoginOrEmail(q) PROVE AuthTypes'
  <2>1. PICK u \in User :
           call' = [call EXCEPT ![q].step = "verify", ![q].id = u,
                                ![q].user = account[u]]
    BY <1>2 DEF FindByLoginOrEmail
  <2> DEFINE next == [call[q] EXCEPT !.step = "verify", !.id = u,
                                     !.user = account[u]]
  <2>2. next \in Call /\ next.id = u
    BY DEF AuthTypes, AuthTypeOK, Call, CallSteps
  <2>3. call' = [call EXCEPT ![q] = next]
    BY <2>1
  <2>4. call' \in [AuthRequest -> Call] /\ HoldersHaveIds'
    <3> HIDE DEF next
    <3> QED
      BY <2>2, <2>3 DEF AuthTypes, AuthTypeOK, HoldersHaveIds
  <2> QED
    BY <1>2, <1>cache, <1>token, <1>table, <2>4
       DEF FindByLoginOrEmail, AuthTypes, AuthTypeOK
<1>3. ASSUME NEW q \in AuthRequest, Issue(q) PROVE AuthTypes'
  <2>1. call[q].step = "verify" /\ End(q)
    BY <1>3 DEF Issue
  <2>2. call[q].id \in User /\ call[q].user \in Account
    BY <2>1, Held
  <2>3. cache' \in [Key -> Entry] /\ EntriesHaveIds'
    BY <1>3, <1>cache, <2>2, SetAllType DEF Issue
  <2>4. call[q].user.role \in Role
    BY <2>2 DEF Account
  <2>5. token' \in [User -> [Role -> 0 .. Accepted]]
    BY <1>3, <2>2, <2>4, Times DEF Issue, AuthTypes, AuthTypeOK
  <2> QED
    BY <1>3, <1>table, <2>1, <2>3, <2>5, EndType DEF Issue, AuthTypes, AuthTypeOK
<1>4. ASSUME NEW q \in AuthRequest, Register(q) PROVE AuthTypes'
  <2>1. PICK u \in User, login \in Login, email \in Email, name \in Name,
             role \in Role :
           Begin(q, [NoCall("insert") EXCEPT !.id = u, !.user =
                [stored |-> TRUE, login |-> login, email |-> email,
                 name |-> name, role |-> role,
                 active |-> TRUE, deleted |-> FALSE]])
    BY <1>4 DEF Register
  <2> DEFINE next == [NoCall("insert") EXCEPT !.id = u, !.user =
                [stored |-> TRUE, login |-> login, email |-> email,
                 name |-> name, role |-> role,
                 active |-> TRUE, deleted |-> FALSE]]
  <2>2. next \in Call /\ next.id = u
    BY NoCallType DEF Call, CallSteps, Account, NoCall
  <2>3. call' \in [AuthRequest -> Call] /\ HoldersHaveIds'
    BY <2>1, <2>2, BeginType
  <2> QED
    BY <1>4, <1>cache, <1>token, <1>table, <2>3 DEF Register, AuthTypes, AuthTypeOK
<1>5. ASSUME NEW q \in AuthRequest, Insert(q) PROVE AuthTypes'
  <2>1. /\ call[q].step = "insert"
        /\ WriteAccount(call[q].id, call[q].user)
        /\ call' = [call EXCEPT ![q].step = "fill"]
        /\ UNCHANGED <<cache, token>>
    BY <1>5 DEF Insert
  <2>2. call[q].id \in User /\ call[q].user \in Account
    BY <2>1, Held
  <2>3. call' \in [AuthRequest -> Call] /\ HoldersHaveIds'
    BY <2>1, NextStepType DEF CallSteps
  <2>4. /\ account' \in [User -> Account]
        /\ since' \in [User -> [Role -> 0 .. Ages]]
    BY <2>1, <2>2, WriteAccountType
  <2> QED
    BY <1>cache, <1>token, <2>1, <2>3, <2>4 DEF AuthTypes, AuthTypeOK
<1>6. ASSUME NEW q \in AuthRequest, Fill(q) PROVE AuthTypes'
  <2>1. /\ call[q].step = "fill" /\ End(q)
        /\ SetAll({call[q].user.login, call[q].user.email}, call[q].id,
                  call[q].user)
        /\ TablesKept
    BY <1>6 DEF Fill
  <2>2. call[q].id \in User /\ call[q].user \in Account
    BY <2>1, Held
  <2>3. cache' \in [Key -> Entry] /\ EntriesHaveIds'
    BY <2>1, <2>2, SetAllType
  <2> QED
    BY <1>token, <1>table, <2>1, <2>3, EndType DEF AuthTypes, AuthTypeOK
<1>7. ASSUME NEW q \in AuthRequest, UpdateUser(q) PROVE AuthTypes'
  <2>1. PICK u \in User, login \in Login, email \in Email, name \in Name,
             role \in Role :
           Begin(q, [NoCall("write") EXCEPT !.id = u,
                !.user = [account[u] EXCEPT !.login = login, !.email = email,
                                            !.name = name, !.role = role]])
    BY <1>7 DEF UpdateUser
  <2> DEFINE a == [account[u] EXCEPT !.login = login, !.email = email,
                                     !.name = name, !.role = role]
             next == [NoCall("write") EXCEPT !.id = u, !.user = a]
  <2>2. a \in Account
    BY DEF AuthTypes, AuthTypeOK, Account
  <2>3. next \in Call /\ next.id = u
    <3> HIDE DEF a
    <3> QED
      BY <2>2, NoCallType DEF Call, CallSteps, NoCall
  <2>4. call' \in [AuthRequest -> Call] /\ HoldersHaveIds'
    BY <2>1, <2>3, BeginType
  <2> QED
    BY <1>7, <1>cache, <1>token, <1>table, <2>4 DEF UpdateUser, AuthTypes, AuthTypeOK
<1>8. ASSUME NEW q \in AuthRequest, Write(q) PROVE AuthTypes'
  <2> DEFINE u == call[q].id
             a == call[q].user
             new == [account[u] EXCEPT !.login = a.login, !.email = a.email,
                                       !.name = a.name, !.role = a.role]
  <2>1. /\ call[q].step = "write"
        /\ WriteAccount(u, new)
        /\ call' = [call EXCEPT ![q].step = "drop"]
        /\ UNCHANGED <<cache, token>>
    BY <1>8 DEF Write
  <2>2. u \in User /\ a \in Account /\ account[u] \in Account
    BY <2>1, Held
  <2>3. new \in Account
    BY <2>2 DEF Account
  <2>4. call' \in [AuthRequest -> Call] /\ HoldersHaveIds'
    BY <2>1, NextStepType DEF CallSteps
  <2>5. /\ account' \in [User -> Account]
        /\ since' \in [User -> [Role -> 0 .. Ages]]
    <3> HIDE DEF u, new
    <3> QED
      BY <2>1, <2>2, <2>3, WriteAccountType
  <2> QED
    BY <1>cache, <1>token, <2>1, <2>4, <2>5 DEF AuthTypes, AuthTypeOK
<1>9. ASSUME NEW q \in AuthRequest, Drop(q) PROVE AuthTypes'
  <2>1. /\ End(q) /\ TablesKept
        /\ Invalidate({call[q].user.login, call[q].user.email})
    BY <1>9 DEF Drop
  <2> QED
    BY <1>token, <1>table, <2>1, InvalidateType, EndType DEF AuthTypes, AuthTypeOK
<1>10. ASSUME NEW q \in AuthRequest, SetUserStatus(q) PROVE AuthTypes'
  <2>1. PICK u \in User, isActive \in BOOLEAN :
           /\ Begin(q, NoCall("done"))
           /\ WriteAccount(u, [account[u] EXCEPT !.active = isActive])
           /\ UNCHANGED <<cache, token>>
    BY <1>10 DEF SetUserStatus
  <2>2. [account[u] EXCEPT !.active = isActive] \in Account
    BY DEF AuthTypes, AuthTypeOK, Account
  <2>3. NoCall("done") \in Call /\ NoCall("done").step = "done"
    BY NoCallType DEF CallSteps, NoCall
  <2>4. call' \in [AuthRequest -> Call] /\ HoldersHaveIds'
    BY <2>1, <2>3, BeginType
  <2>5. /\ account' \in [User -> Account]
        /\ since' \in [User -> [Role -> 0 .. Ages]]
    BY <2>1, <2>2, WriteAccountType
  <2> QED
    BY <1>cache, <1>token, <2>1, <2>4, <2>5 DEF AuthTypes, AuthTypeOK
<1>11. ASSUME NEW q \in AuthRequest, DeleteUser(q) PROVE AuthTypes'
  <2>1. PICK u \in User :
           /\ Begin(q, [NoCall("delete") EXCEPT !.id = u,
                                                !.user = account[u]])
           /\ Invalidate({account[u].login, account[u].email})
    BY <1>11 DEF DeleteUser
  <2> DEFINE next == [NoCall("delete") EXCEPT !.id = u, !.user = account[u]]
  <2>2. next \in Call /\ next.id = u
    BY NoCallType DEF Call, CallSteps, NoCall, AuthTypes, AuthTypeOK
  <2>3. call' \in [AuthRequest -> Call] /\ HoldersHaveIds'
    BY <2>1, <2>2, BeginType
  <2> QED
    BY <1>11, <1>token, <1>table, <2>1, <2>3, InvalidateType
       DEF DeleteUser, AuthTypes, AuthTypeOK
<1>12. ASSUME NEW q \in AuthRequest, SoftDelete(q) \/ Restore(q)
       PROVE  AuthTypes'
  <2> DEFINE u == call[q].id
  <2>1. PICK isDeleted \in BOOLEAN :
           /\ call[q].step \in {"delete", "restore"}
           /\ WriteAccount(u, [account[u] EXCEPT !.deleted = isDeleted])
           /\ End(q)
           /\ UNCHANGED <<cache, token>>
    BY <1>12 DEF SoftDelete, Restore
  <2>2. u \in User /\ account[u] \in Account
    BY <2>1, Held
  <2>3. [account[u] EXCEPT !.deleted = isDeleted] \in Account
    BY <2>2 DEF Account
  <2>4. /\ account' \in [User -> Account]
        /\ since' \in [User -> [Role -> 0 .. Ages]]
    <3> HIDE DEF u
    <3> QED
      BY <2>1, <2>2, <2>3, WriteAccountType
  <2> QED
    BY <1>cache, <1>token, <2>1, <2>4, EndType DEF AuthTypes, AuthTypeOK
<1>13. ASSUME NEW q \in AuthRequest, RestoreUser(q) PROVE AuthTypes'
  <2>1. PICK u \in User :
           Begin(q, [NoCall("restore") EXCEPT !.id = u, !.user = account[u]])
    BY <1>13 DEF RestoreUser
  <2> DEFINE next == [NoCall("restore") EXCEPT !.id = u, !.user = account[u]]
  <2>2. next \in Call /\ next.id = u
    BY NoCallType DEF Call, CallSteps, NoCall, AuthTypes, AuthTypeOK
  <2>3. call' \in [AuthRequest -> Call] /\ HoldersHaveIds'
    BY <2>1, <2>2, BeginType
  <2> QED
    BY <1>13, <1>cache, <1>token, <1>table, <2>3 DEF RestoreUser, AuthTypes, AuthTypeOK
<1>14. ASSUME NEW q \in AuthRequest, Abandon(q) PROVE AuthTypes'
  BY <1>14, <1>cache, <1>token, <1>table, EndType DEF Abandon, AuthTypes, AuthTypeOK
<1>15. ASSUME Restart PROVE AuthTypes'
  <2>1. cache' \in [Key -> Entry] /\ EntriesHaveIds'
    BY <1>15, NoEntryType DEF Restart, NoEntry, EntriesHaveIds, Get
  <2>2. NoCall("done") \in Call /\ NoCall("done").step = "done"
    BY NoCallType DEF CallSteps, NoCall
  <2>3. call' \in [AuthRequest -> Call] /\ HoldersHaveIds'
    BY <1>15, <2>2 DEF Restart, AuthTypes, AuthTypeOK, HoldersHaveIds
  <2> QED
    BY <1>15, <1>token, <1>table, <2>1, <2>3 DEF Restart, AuthTypes, AuthTypeOK
<1>16. ASSUME Tick PROVE AuthTypes'
  <2>1. ASSUME NEW k \in Key
        PROVE  cache'[k] \in Entry /\ (cache'[k].left > 0 => cache'[k].id \in User)
    <3>1. cache[k] \in Entry /\ (cache[k].left > 0 => cache[k].id \in User)
      BY DEF AuthTypes, AuthTypeOK, EntriesHaveIds, Get
    <3>2. cache'[k] = IF cache[k].left <= 1 THEN NoEntry
                      ELSE [cache[k] EXCEPT !.left = @ - 1]
      BY <1>16 DEF Tick
    <3>3. CASE cache[k].left <= 1
      BY <3>2, <3>3, NoEntryType DEF NoEntry
    <3>4. CASE ~(cache[k].left <= 1)
      <4>1. /\ cache[k].left \in Nat /\ cache[k].left - 1 \in 0 .. TTL
            /\ cache[k].left > 0
        BY <3>1, <3>4, Times DEF Entry
      <4> QED
        BY <3>1, <3>2, <3>4, <4>1 DEF Entry
    <3> QED
      BY <3>3, <3>4
  <2>2. cache' \in [Key -> Entry] /\ EntriesHaveIds'
    BY <1>16, <2>1 DEF Tick, EntriesHaveIds, Get
  <2>3. ASSUME NEW q \in AuthRequest
        PROVE  call'[q] \in Call /\ (call'[q].step \in Holding => call'[q].id \in User)
    <3>1. call[q] \in Call /\ (call[q].step \in Holding => call[q].id \in User)
      BY DEF AuthTypes, AuthTypeOK, HoldersHaveIds
    <3>2. CASE Serving(q)
      <4>1. call'[q] = [call[q] EXCEPT !.age = @ + 1]
        BY <1>16, <3>2 DEF Tick
      <4>2. call[q].age + 1 \in 0 .. Slack
        BY <1>16, <3>1, <3>2, Times DEF Tick, Call
      <4> QED
        BY <3>1, <4>1, <4>2 DEF Call
    <3>3. CASE ~Serving(q)
      BY <1>16, <3>1, <3>3 DEF Tick
    <3> QED
      BY <3>2, <3>3
  <2>4. call' \in [AuthRequest -> Call] /\ HoldersHaveIds'
    BY <1>16, <2>3 DEF Tick, HoldersHaveIds
  <2>5. ASSUME NEW u \in User, NEW r \in Role
        PROVE  /\ token'[u][r] \in 0 .. Accepted
               /\ since'[u][r] \in 0 .. Ages
    <3>1. token[u][r] \in 0 .. Accepted /\ since[u][r] \in 0 .. Ages
      BY DEF AuthTypes, AuthTypeOK
    <3>2. /\ token'[u][r] = Less(token[u][r])
          /\ since'[u][r] \in {0, Ages, since[u][r] + 1}
          /\ since'[u][r] = since[u][r] + 1 => since[u][r] # Ages
      BY <1>16, <3>1, AgesType DEF Tick
    <3> QED
      BY <3>1, <3>2, Times, AgesType DEF Less
  <2>6. /\ token' \in [User -> [Role -> 0 .. Accepted]]
        /\ since' \in [User -> [Role -> 0 .. Ages]]
    <3>1. /\ token' = [u \in User |-> [r \in Role |-> token'[u][r]]]
          /\ since' = [u \in User |-> [r \in Role |-> since'[u][r]]]
      BY <1>16, Zenon DEF Tick
    <3> QED
      BY <2>5, <3>1
  <2> QED
    BY <1>16, <2>2, <2>4, <2>6 DEF Tick, AuthTypes, AuthTypeOK
<1>17. CASE UNCHANGED authVars
  BY <1>17, <1>cache, <1>token, <1>table
     DEF authVars, AuthTypes, AuthTypeOK, HoldersHaveIds
<1> QED
  BY <1>1, <1>2, <1>3, <1>4, <1>5, <1>6, <1>7, <1>8, <1>9, <1>10, <1>11,
     <1>12, <1>13, <1>14, <1>15, <1>16, <1>17 DEF AuthNext

LEMMA TypesInit == AuthInit => AuthTypes
<1> SUFFICES ASSUME AuthInit PROVE AuthTypes
  OBVIOUS
<1>1. account \in [User -> Account]
  <2>1. [stored : {TRUE}, login : Login, email : Email, name : Name,
         role : Role, active : {TRUE}, deleted : {FALSE}] \subseteq Account
    BY DEF Account
  <2> QED
    BY <2>1, NoAccountType DEF AuthInit
<1>2. cache \in [Key -> Entry] /\ EntriesHaveIds
  BY NoEntryType DEF AuthInit, EntriesHaveIds, Get, NoEntry
<1>3. NoCall("new") \in Call /\ NoCall("new").step = "new"
  BY NoCallType DEF CallSteps, NoCall
<1>4. call \in [AuthRequest -> Call] /\ HoldersHaveIds
  BY <1>3 DEF AuthInit, HoldersHaveIds, Holding
<1>5. /\ token \in [User -> [Role -> 0 .. Accepted]]
      /\ since \in [User -> [Role -> 0 .. Ages]]
  BY Times, AgesType DEF AuthInit
<1> QED
  BY <1>1, <1>2, <1>4, <1>5 DEF AuthTypes, AuthTypeOK

(* No handler stores anything that is not an account, an entry or a token. *)
THEOREM AuthAlwaysTyped == AuthSpec => []AuthTypeOK
<1>1. AuthTypes => AuthTypeOK
  BY DEF AuthTypes
<1> QED
  BY <1>1, TypesInit, TypesStep, PTL DEF AuthSpec

-----------------------------------------------------------------------------
(* Staleness.  All steps but those of the clock leave every account as     *)
(* fresh as it was, or fresher.                                            *)
Fresher == \A u \in User, r \in Role : since'[u][r] <= since[u][r]

LEMMA KeptFresher == AuthTypes /\ UNCHANGED since => Fresher
BY AgesType DEF AuthTypes, AuthTypeOK, Fresher

LEMMA WrittenFresher ==
    ASSUME AuthTypes, NEW u \in User, NEW a \in Account, WriteAccount(u, a),
           TablesCurrent
    PROVE  /\ Fresher
           /\ Usable(a) => since'[u][a.role] = 0
           /\ TablesCurrent'
<1>1. /\ account' = [account EXCEPT ![u] = a]
      /\ since' = [since EXCEPT ![u] = [r \in Role |->
                      IF Usable(a) /\ a.role = r THEN 0 ELSE @[r]]]
  BY DEF WriteAccount
<1>2. \A w \in User : since[w] \in [Role -> 0 .. Ages] /\ since'[w] =
          IF w = u THEN [r \in Role |->
                            IF Usable(a) /\ a.role = r THEN 0 ELSE since[u][r]]
                   ELSE since[w]
  BY <1>1 DEF AuthTypes, AuthTypeOK
<1>3. Fresher
  <2>1. \A w \in User, r \in Role :
           since'[w][r] \in {0, since[w][r]} /\ since[w][r] \in 0 .. Ages
    BY <1>2
  <2> QED
    BY <2>1, AgesType DEF Fresher
<1>4. Usable(a) => since'[u][a.role] = 0
  BY <1>2 DEF Account
<1>5. TablesCurrent'
  BY <1>1, <1>2, <1>4 DEF TablesCurrent, AuthTypes, AuthTypeOK, Usable
<1> QED
  BY <1>3, <1>4, <1>5

LEMMA KeptCall ==
    ASSUME AuthTypes, Fresher, NEW q \in AuthRequest, CallSound(q),
           \/ call'[q] = call[q]
           \/ call'[q].step \notin Bound,
           AuthTypes'
    PROVE  CallSound(q)'
<1>1. CASE call'[q].step \notin Bound
  BY <1>1 DEF CallSound, Bound
<1>2. CASE call'[q] = call[q] /\ call[q].step = "find"
  BY <1>2 DEF CallSound
<1>3. CASE call'[q] = call[q] /\ call[q].step \in {"verify", "insert", "fill"}
  <2> DEFINE u == call[q].id
             r == call[q].user.role
  <2>1. u \in User /\ r \in Role /\ call[q].age \in Nat
    BY <1>3, Held, Times
       DEF Holding, Account, AuthTypes, AuthTypeOK, Call
  <2>2. /\ since[u][r] \in Nat /\ since'[u][r] \in Nat
        /\ since'[u][r] <= since[u][r]
    BY <2>1, AgesType DEF AuthTypes, AuthTypeOK, Fresher
  <2> QED
    BY <1>3, <2>1, <2>2, Times DEF CallSound, Usable
<1> QED
  BY <1>1, <1>2, <1>3 DEF Bound

LEMMA KeptCache ==
    ASSUME AuthTypes, AuthTypes', Fresher, CacheStaleness,
           CachedAccountsUsable,
           \A k \in Key : cache'[k] \in {cache[k], NoEntry}
    PROVE  CacheStaleness' /\ CachedAccountsUsable'
<1> SUFFICES ASSUME NEW k \in Key, Get(k)'
             PROVE  /\ since'[cache'[k].id][cache'[k].user.role]
                          <= TTL - cache'[k].left + Slack
                    /\ Usable(cache'[k].user)
  BY DEF CacheStaleness, CachedAccountsUsable, Usable
<1>1. cache'[k] = cache[k] /\ Get(k)
  BY DEF Get, NoEntry
<1> DEFINE u == cache[k].id
           r == cache[k].user.role
<1>2. u \in User /\ r \in Role /\ cache[k].left \in Nat
  BY <1>1, Times DEF AuthTypes, EntriesHaveIds, AuthTypeOK, Entry, Account
<1>3. /\ since[u][r] \in Nat /\ since'[u][r] \in Nat
      /\ since'[u][r] <= since[u][r]
  BY <1>2, AgesType DEF AuthTypes, AuthTypeOK, Fresher
<1> QED
  BY <1>1, <1>2, <1>3, Times DEF CacheStaleness, CachedAccountsUsable

LEMMA KeptTokens ==
    ASSUME AuthTypes, AuthTypes', Fresher, TokenStaleness, UNCHANGED token
    PROVE  TokenStaleness'
<1> SUFFICES ASSUME NEW u \in User, NEW r \in Role, token[u][r] > 0
             PROVE  since'[u][r] < TTL + 2 * Slack + Accepted - token[u][r]
  BY DEF TokenStaleness
<1>1. /\ since[u][r] \in Nat /\ since'[u][r] \in Nat /\ token[u][r] \in Nat
      /\ since'[u][r] <= since[u][r]
  BY AgesType, Times DEF AuthTypes, AuthTypeOK, Fresher
<1> QED
  BY <1>1, Times DEF TokenStaleness

(* Steps that cache nothing, issue nothing and take up no account that     *)
(* will be.                                                                *)
LEMMA QuietStep ==
    ASSUME AuthTypes, AuthTypes', AuthSound, Fresher, TablesCurrent',
           UNCHANGED token,
           \A k \in Key : cache'[k] \in {cache[k], NoEntry},
           \A q \in AuthRequest :
              \/ call'[q] = call[q]
              \/ call'[q].step \notin Bound
    PROVE  AuthSound'
BY KeptCall, KeptCache, KeptTokens DEF AuthSound, CallsSound

(* Handler q ends or goes on; the others are as they were.                 *)
LEMMA OtherCalls ==
    ASSUME AuthTypes, NEW q \in AuthRequest, NEW next,
           call' = [call EXCEPT ![q] = next]
    PROVE  \A p \in AuthRequest : call'[p] = IF p = q THEN next ELSE call[p]
BY DEF AuthTypes, AuthTypeOK

LEMMA EndedCall ==
    ASSUME AuthTypes, NEW q \in AuthRequest, End(q)
    PROVE  \A p \in AuthRequest :
              \/ call'[p] = call[p]
              \/ call'[p].step \notin Bound
BY DEF AuthTypes, AuthTypeOK, End, NoCall, Bound

LEMMA DroppedEntries ==
    ASSUME AuthTypes, NEW keys, Invalidate(keys) \/ UNCHANGED cache
    PROVE  \A k \in Key : cache'[k] \in {cache[k], NoEntry}
BY DEF Invalidate

(* Entries that are made keep the bound if what they are made of does.     *)
LEMMA MadeEntries ==
    ASSUME AuthTypes, AuthTypes', UNCHANGED since, CacheStaleness,
           CachedAccountsUsable, NEW keys, NEW u \in User, NEW a \in Account,
           SetAll(keys, u, a), Usable(a), since[u][a.role] <= Slack
    PROVE  CacheStaleness' /\ CachedAccountsUsable'
<1> SUFFICES ASSUME NEW k \in Key, Get(k)'
             PROVE  /\ since[cache'[k].id][cache'[k].user.role]
                          <= TTL - cache'[k].left + Slack
                    /\ Usable(cache'[k].user)
  BY DEF CacheStaleness, CachedAccountsUsable, Usable
<1>1. CASE k \in keys
  <2>1. cache'[k] = [id |-> u, user |-> a, left |-> TTL]
    BY <1>1 DEF SetAll
  <2> QED
    BY <2>1, Times DEF Usable
<1>2. CASE k \notin keys
  <2>1. cache'[k] = cache[k] /\ Get(k)
    BY <1>2 DEF SetAll, Get
  <2> QED
    BY <2>1 DEF CacheStaleness, CachedAccountsUsable
<1> QED
  BY <1>1, <1>2

LEMMA TickSound ==
    ASSUME AuthTypes, AuthTypes', AuthSound, Tick
    PROVE  AuthSound'
<1>cache. ASSUME NEW u \in User, NEW r \in Role
      PROVE  /\ since[u][r] \in Nat /\ since'[u][r] \in Nat
             /\ since'[u][r] <= since[u][r] + 1
             /\ Usable(account[u]) /\ account[u].role = r => since'[u][r] = 0
  <2>1. since[u][r] \in 0 .. Ages
    BY DEF AuthTypes, AuthTypeOK
  <2>2. since'[u][r] = IF Usable(account[u]) /\ account[u].role = r THEN 0
                       ELSE IF since[u][r] = Ages THEN Ages
                       ELSE since[u][r] + 1
    BY DEF Tick
  <2> QED
    BY <2>1, <2>2, AgesType
<1>1. TablesCurrent'
  <2>1. UNCHANGED account /\ \A u \in User : account[u].role \in Role
    BY DEF Tick, AuthTypes, AuthTypeOK, Account
  <2> QED
    BY <1>cache, <2>1 DEF TablesCurrent, Usable
<1>2. ASSUME NEW q \in AuthRequest PROVE CallSound(q)'
  <2> DEFINE u == call[q].id
             r == call[q].user.role
  <2>1. CASE ~Serving(q)
    <3>1. call'[q] = call[q]
      BY <2>1 DEF Tick
    <3> QED
      BY <2>1, <3>1 DEF Serving, CallSound
  <2>2. CASE Serving(q)
    <3>1. call'[q] = [call[q] EXCEPT !.age = @ + 1]
      BY <2>2 DEF Tick
    <3>2. /\ call[q].age \in Nat /\ call'[q].age = call[q].age + 1
          /\ call'[q].step = call[q].step /\ call'[q].id = u
          /\ call'[q].user = call[q].user /\ call'[q].hit = call[q].hit
      BY <3>1, Times DEF AuthTypes, AuthTypeOK, Call
    <3>3. ASSUME call[q].step \in {"verify", "insert", "fill"}
          PROVE  u \in User /\ r \in Role
      BY <3>3, Held DEF Holding, Account
    <3>4. CallSound(q)
      BY DEF AuthSound, CallsSound
    <3>5. CASE call[q].step \in {"verify", "insert", "fill"}
      <4>1. since'[u][r] \in Nat /\ since[u][r] \in Nat
            /\ since'[u][r] <= since[u][r] + 1
        BY <1>cache, <3>3, <3>5
      <4> QED
        BY <3>2, <3>4, <3>5, <4>1, Times DEF CallSound, Usable
    <3>6. CASE call[q].step \notin {"verify", "insert", "fill"}
      BY <3>2, <3>4, <3>6 DEF CallSound
    <3> QED
      BY <3>5, <3>6
  <2> QED
    BY <2>1, <2>2
<1>3. ASSUME NEW k \in Key, Get(k)'
      PROVE  /\ since'[cache'[k].id][cache'[k].user.role]
                   <= TTL - cache'[k].left + Slack
             /\ Usable(cache'[k].user)
  <2>1. cache[k] \in Entry /\ cache[k].left \in Nat
    BY Times DEF AuthTypes, AuthTypeOK, Entry
  <2>2. cache'[k] = [cache[k] EXCEPT !.left = @ - 1] /\ cache[k].left > 1
    BY <1>3, <2>1, Times DEF Tick, Get, NoEntry
  <2> DEFINE u == cache[k].id
             r == cache[k].user.role
  <2>3. /\ cache'[k].left = cache[k].left - 1
        /\ cache'[k].id = u /\ cache'[k].user = cache[k].user
    BY <2>1, <2>2 DEF Entry
  <2>4. Get(k) /\ u \in User /\ r \in Role
    BY <2>1, <2>2 DEF Get, AuthTypes, EntriesHaveIds, Entry, Account
  <2>5. /\ since[u][r] <= TTL - cache[k].left + Slack
        /\ Usable(cache[k].user)
    BY <2>4 DEF AuthSound, CacheStaleness, CachedAccountsUsable
  <2>6. since'[u][r] \in Nat /\ since[u][r] \in Nat
        /\ since'[u][r] <= since[u][r] + 1
    BY <1>cache, <2>4
  <2> QED
    BY <2>1, <2>3, <2>5, <2>6, Times
<1>4. CacheStaleness' /\ CachedAccountsUsable'
  BY <1>3 DEF CacheStaleness, CachedAccountsUsable, Usable
<1>5. ASSUME NEW u \in User, NEW r \in Role, token'[u][r] > 0
      PROVE  since'[u][r] < TTL + 2 * Slack + Accepted - token'[u][r]
  <2>1. token[u][r] \in Nat
    BY Times DEF AuthTypes, AuthTypeOK
  <2>2. token'[u][r] = token[u][r] - 1 /\ token[u][r] > 0
    BY <1>5, <2>1 DEF Tick, Less
  <2>3. since[u][r] < TTL + 2 * Slack + Accepted - token[u][r]
    BY <2>2 DEF AuthSound, TokenStaleness
  <2> QED
    BY <1>cache, <2>1, <2>2, <2>3, Times
<1>6. TokenStaleness'
  BY <1>5 DEF TokenStaleness
<1> QED
  BY <1>1, <1>2, <1>4, <1>6 DEF AuthSound, CallsSound

LEMMA LookUpSound ==
    ASSUME AuthTypes, AuthTypes', AuthSound, NEW q \in AuthRequest, LookUp(q)
    PROVE  AuthSound'
<1>1. Fresher /\ UNCHANGED <<account, cache, token, since>>
  BY KeptFresher DEF LookUp
<1> DEFINE hit(k) == [NoCall("verify") EXCEPT !.id = cache[k].id,
                          !.user = cache[k].user, !.key = k, !.hit = TRUE]
           miss(k) == [NoCall("find") EXCEPT !.key = k]
<1>2. PICK k \in Key :
         call' = [call EXCEPT ![q] = IF Get(k) THEN hit(k) ELSE miss(k)]
  BY DEF LookUp, Begin
<1>3. \A p \in AuthRequest :
         call'[p] = IF p = q THEN IF Get(k) THEN hit(k) ELSE miss(k)
                             ELSE call[p]
  <2> HIDE DEF hit, miss
  <2> QED
    BY <1>2 DEF AuthTypes, AuthTypeOK
<1>4. CallSound(q)'
  <2>1. CASE Get(k)
    <3>1. /\ call'[q].step = "verify" /\ call'[q].hit
          /\ call'[q].id = cache[k].id /\ call'[q].user = cache[k].user
          /\ call'[q].age = 0
      BY <1>3, <2>1 DEF NoCall
    <3>2. /\ since[cache[k].id][cache[k].user.role]
                <= TTL - cache[k].left + Slack
          /\ Usable(cache[k].user)
      BY <2>1 DEF AuthSound, CacheStaleness, CachedAccountsUsable
    <3>3. /\ cache[k].left \in Nat /\ cache[k].left > 0
          /\ cache[k].id \in User /\ cache[k].user.role \in Role
      BY <2>1, Times
         DEF Get, AuthTypes, AuthTypeOK, EntriesHaveIds, Entry, Account
    <3>4. since[cache[k].id][cache[k].user.role] \in Nat
      BY <3>3, AgesType DEF AuthTypes, AuthTypeOK
    <3> QED
      BY <1>1, <3>1, <3>2, <3>3, <3>4, Times DEF CallSound, Usable
  <2>2. CASE ~Get(k)
    <3>1. call'[q].step = "find" /\ ~call'[q].hit
      BY <1>3, <2>2 DEF NoCall
    <3> QED
      BY <3>1 DEF CallSound
  <2> QED
    BY <2>1, <2>2
<1>5. CallsSound'
  BY <1>1, <1>3, <1>4, KeptCall DEF AuthSound, CallsSound
<1> QED
  BY <1>1, <1>5, KeptCache, KeptTokens DEF AuthSound, TablesCurrent, Usable

LEMMA FindSound ==
    ASSUME AuthTypes, AuthTypes', AuthSound, NEW q \in AuthRequest,
           FindByLoginOrEmail(q)
    PROVE  AuthSound'
<1>1. Fresher /\ UNCHANGED <<account, cache, token, since>>
  BY KeptFresher DEF FindByLoginOrEmail
<1>2. PICK u \in User :
         /\ Usable(account[u])
         /\ call' = [call EXCEPT ![q].step = "verify", ![q].id = u,
                                 ![q].user = account[u]]
  BY DEF FindByLoginOrEmail
<1>3. \A p \in AuthRequest : p # q => call'[p] = call[p]
  BY <1>2 DEF AuthTypes, AuthTypeOK
<1>4. /\ call'[q].step = "verify" /\ call'[q].hit = call[q].hit
      /\ call'[q].id = u /\ call'[q].user = account[u]
      /\ call'[q].age = call[q].age /\ call[q].age \in Nat
  BY <1>2, Times DEF AuthTypes, AuthTypeOK, Call
<1>5. ~call[q].hit
  BY DEF FindByLoginOrEmail, AuthSound, CallsSound, CallSound
<1>6. since[u][account[u].role] = 0
  BY <1>2 DEF AuthSound, TablesCurrent
<1>7. CallSound(q)'
  BY <1>1, <1>2, <1>4, <1>6, <1>5 DEF CallSound, Usable
<1>8. CallsSound'
  BY <1>1, <1>3, <1>7, KeptCall DEF AuthSound, CallsSound
<1> QED
  BY <1>1, <1>8, KeptCache, KeptTokens DEF AuthSound, TablesCurrent, Usable

LEMMA IssueSound ==
    ASSUME AuthTypes, AuthTypes', AuthSound, NEW q \in AuthRequest, Issue(q)
    PROVE  AuthSound'
<1> DEFINE u == call[q].id
           a == call[q].user
<1>1. Fresher /\ UNCHANGED <<account, since>>
  BY KeptFresher DEF Issue
<1>2. /\ call[q].step = "verify" /\ Usable(a) /\ End(q)
      /\ token' = [token EXCEPT ![u][a.role] = Accepted]
      /\ IF call[q].hit THEN UNCHANGED cache
                        ELSE SetAll({call[q].key, a.email}, u, a)
  BY DEF Issue
<1>3. /\ u \in User /\ a \in Account /\ a.role \in Role
      /\ call[q].age \in 0 .. Slack /\ since[u][a.role] \in 0 .. Ages
  BY <1>2, Held DEF Holding, Account, AuthTypes, AuthTypeOK, Call
<1>4. CallSound(q)
  BY DEF AuthSound, CallsSound
<1>5. CallsSound'
  BY <1>1, <1>2, EndedCall, KeptCall DEF AuthSound, CallsSound
<1>6. CacheStaleness' /\ CachedAccountsUsable'
  <2>1. CASE call[q].hit
    BY <1>1, <1>2, <2>1, KeptCache DEF AuthSound
  <2>2. CASE ~call[q].hit
    <3>1. since[u][a.role] <= Slack
      BY <1>2, <1>3, <1>4, <2>2, Times, AgesType DEF CallSound
    <3> QED
      BY <1>1, <1>2, <1>3, <2>2, <3>1, MadeEntries DEF AuthSound
  <2> QED
    BY <2>1, <2>2
<1>7. ASSUME NEW w \in User, NEW r \in Role, token'[w][r] > 0
      PROVE  since'[w][r] < TTL + 2 * Slack + Accepted - token'[w][r]
  <2>1. CASE w = u /\ r = a.role
    <3>1. token'[w][r] = Accepted
      BY <1>2, <1>3, <2>1 DEF AuthTypes, AuthTypeOK
    <3>2. since[u][a.role] <= call[q].age + TTL - 1 + Slack
      BY <1>2, <1>3, <1>4, Times, AgesType DEF CallSound
    <3> QED
      BY <1>1, <1>3, <2>1, <3>1, <3>2, Times, AgesType
  <2>2. CASE ~(w = u /\ r = a.role)
    <3>1. token'[w][r] = token[w][r]
      BY <1>2, <1>3, <2>2 DEF AuthTypes, AuthTypeOK
    <3> QED
      BY <1>1, <1>7, <3>1 DEF AuthSound, TokenStaleness
  <2> QED
    BY <2>1, <2>2
<1>8. TokenStaleness'
  BY <1>7 DEF TokenStaleness
<1> QED
  BY <1>1, <1>5, <1>6, <1>8 DEF AuthSound, TablesCurrent, Usable

LEMMA RegisterSound ==
    ASSUME AuthTypes, AuthTypes', AuthSound, NEW q \in AuthRequest,
           Register(q)
    PROVE  AuthSound'
<1>1. Fresher /\ UNCHANGED <<account, cache, token, since>>
  BY KeptFresher DEF Register
<1>2. PICK u \in User, login \in Login, email \in Email, name \in Name,
           role \in Role :
         Begin(q, [NoCall("insert") EXCEPT !.id = u, !.user =
              [stored |-> TRUE, login |-> login, email |-> email,
               name |-> name, role |-> role,
               active |-> TRUE, deleted |-> FALSE]])
  BY DEF Register
<1> DEFINE next == [NoCall("insert") EXCEPT !.id = u, !.user =
              [stored |-> TRUE, login |-> login, email |-> email,
               name |-> name, role |-> role,
               active |-> TRUE, deleted |-> FALSE]]
<1>3. next.step = "insert" /\ Usable(next.user)
  BY DEF NoCall, Usable
<1>4. call' = [call EXCEPT ![q] = next]
  BY <1>2 DEF Begin
<1> HIDE DEF next
<1>5. \A p \in AuthRequest : call'[p] = IF p = q THEN next ELSE call[p]
  BY <1>4, OtherCalls
<1>6. CallSound(q)'
  BY <1>3, <1>5 DEF CallSound, Usable
<1>7. CallsSound'
  BY <1>1, <1>5, <1>6, KeptCall DEF AuthSound, CallsSound
<1> QED
  BY <1>1, <1>7, KeptCache, KeptTokens DEF AuthSound, TablesCurrent, Usable

LEMMA InsertSound ==
    ASSUME AuthTypes, AuthTypes', AuthSound, NEW q \in AuthRequest, Insert(q)
    PROVE  AuthSound'
<1> DEFINE u == call[q].id
           a == call[q].user
<1>1. /\ call[q].step = "insert" /\ WriteAccount(u, a)
      /\ call' = [call EXCEPT ![q].step = "fill"]
      /\ UNCHANGED <<cache, token>>
  BY DEF Insert
<1>2. u \in User /\ a \in Account /\ TablesCurrent /\ CallSound(q)
  BY <1>1, Held DEF Holding, AuthSound, CallsSound
<1>3. Fresher /\ TablesCurrent' /\ (Usable(a) => since'[u][a.role] = 0)
  <2> HIDE DEF u, a
  <2> QED
    BY <1>1, <1>2, WrittenFresher
<1>4. Usable(a)
  BY <1>1, <1>2 DEF CallSound
<1>5. \A p \in AuthRequest : p # q => call'[p] = call[p]
  BY <1>1 DEF AuthTypes, AuthTypeOK
<1>6. /\ call'[q].step = "fill" /\ call'[q].id = u /\ call'[q].user = a
      /\ call'[q].age \in Nat
  BY <1>1, Times DEF AuthTypes, AuthTypeOK, Call
<1>7. CallSound(q)'
  BY <1>3, <1>4, <1>6 DEF CallSound, Usable
<1>8. CallsSound'
  BY <1>3, <1>5, <1>7, KeptCall DEF AuthSound, CallsSound
<1> QED
  BY <1>1, <1>3, <1>8, KeptCache, KeptTokens DEF AuthSound

LEMMA FillSound ==
    ASSUME AuthTypes, AuthTypes', AuthSound, NEW q \in AuthRequest, Fill(q)
    PROVE  AuthSound'
<1> DEFINE u == call[q].id
           a == call[q].user
<1>1. /\ call[q].step = "fill" /\ End(q) /\ SetAll({a.login, a.email}, u, a)
      /\ UNCHANGED <<account, token, since>>
  BY DEF Fill
<1>2. /\ u \in User /\ a \in Account /\ a.role \in Role
      /\ call[q].age \in 0 .. Slack /\ since[u][a.role] \in 0 .. Ages
  BY <1>1, Held DEF Holding, Account, AuthTypes, AuthTypeOK, Call
<1>3. Usable(a) /\ since[u][a.role] <= Slack
  BY <1>1, <1>2, Times, AgesType DEF AuthSound, CallsSound, CallSound
<1>4. CacheStaleness' /\ CachedAccountsUsable'
  BY <1>1, <1>2, <1>3, MadeEntries DEF AuthSound
<1>5. Fresher
  BY <1>1, KeptFresher
<1>6. CallsSound'
  BY <1>1, <1>5, EndedCall, KeptCall DEF AuthSound, CallsSound
<1> QED
  BY <1>1, <1>4, <1>5, <1>6, KeptTokens DEF AuthSound, TablesCurrent, Usable

LEMMA SoundStep == AuthTypes /\ AuthTypes' /\ AuthSound /\ [AuthNext]_authVars
                       => AuthSound'
<1> SUFFICES ASSUME AuthTypes, AuthTypes', AuthSound, [AuthNext]_authVars
             PROVE  AuthSound'
  OBVIOUS
<1>0. TablesCurrent
  BY DEF AuthSound
<1>same. UNCHANGED <<account, since>> => Fresher /\ TablesCurrent'
  BY <1>0, KeptFresher DEF TablesCurrent, Usable
<1>1. ASSUME NEW q \in AuthRequest, UpdateUser(q) \/ DeleteUser(q)
                                    \/ RestoreUser(q)
      PROVE  AuthSound'
  <2>1. PICK s \in {"write", "delete", "restore"} : \E u, a :
           Begin(q, [NoCall(s) EXCEPT !.id = u, !.user = a])
    BY <1>1 DEF UpdateUser, DeleteUser, RestoreUser
  <2>2. PICK u, a : Begin(q, [NoCall(s) EXCEPT !.id = u, !.user = a])
    BY <2>1
  <2> DEFINE next == [NoCall(s) EXCEPT !.id = u, !.user = a]
  <2>next. next.step \notin Bound
    BY DEF NoCall, Bound
  <2>call. call' = [call EXCEPT ![q] = next]
    BY <2>2 DEF Begin
  <2> HIDE DEF next
  <2>3. \A p \in AuthRequest : call'[p] = call[p] \/ call'[p].step \notin Bound
    BY <2>next, <2>call, OtherCalls
  <2>4. \A k \in Key : cache'[k] \in {cache[k], NoEntry}
    BY <1>1, DroppedEntries DEF UpdateUser, DeleteUser, RestoreUser
  <2> QED
    BY <1>1, <1>same, <2>3, <2>4, QuietStep
       DEF UpdateUser, DeleteUser, RestoreUser
<1>2. ASSUME NEW q \in AuthRequest, Write(q) PROVE AuthSound'
  <2> DEFINE u == call[q].id
             a == call[q].user
             new == [account[u] EXCEPT !.login = a.login, !.email = a.email,
                                       !.name = a.name, !.role = a.role]
  <2>1. /\ call[q].step = "write" /\ WriteAccount(u, new)
        /\ call' = [call EXCEPT ![q].step = "drop"]
        /\ UNCHANGED <<cache, token>>
    BY <1>2 DEF Write
  <2>2. u \in User /\ new \in Account
    BY <2>1, Held DEF Holding, Account
  <2>3. Fresher /\ TablesCurrent'
    <3> HIDE DEF u, new
    <3> QED
      BY <1>0, <2>1, <2>2, WrittenFresher
  <2>4. \A p \in AuthRequest : call'[p] = call[p] \/ call'[p].step \notin Bound
    BY <2>1 DEF Bound, AuthTypes, AuthTypeOK, Call
  <2> QED
    BY <2>1, <2>3, <2>4, QuietStep
<1>3. ASSUME NEW q \in AuthRequest, SoftDelete(q) \/ Restore(q)
      PROVE  AuthSound'
  <2> DEFINE u == call[q].id
  <2>1. PICK isDeleted \in BOOLEAN :
           /\ call[q].step \in {"delete", "restore"}
           /\ WriteAccount(u, [account[u] EXCEPT !.deleted = isDeleted])
           /\ End(q)
           /\ UNCHANGED <<cache, token>>
    BY <1>3 DEF SoftDelete, Restore
  <2>2. u \in User /\ [account[u] EXCEPT !.deleted = isDeleted] \in Account
    BY <2>1, Held DEF Holding, Account
  <2>3. Fresher /\ TablesCurrent'
    <3> HIDE DEF u
    <3> QED
      BY <1>0, <2>1, <2>2, WrittenFresher
  <2> QED
    BY <2>1, <2>3, EndedCall, QuietStep
<1>4. ASSUME NEW q \in AuthRequest, SetUserStatus(q) PROVE AuthSound'
  <2>1. PICK u \in User, isActive \in BOOLEAN :
           /\ call' = [call EXCEPT ![q] = NoCall("done")]
           /\ WriteAccount(u, [account[u] EXCEPT !.active = isActive])
           /\ UNCHANGED <<cache, token>>
    BY <1>4 DEF SetUserStatus, Begin
  <2>2. [account[u] EXCEPT !.active = isActive] \in Account
    BY DEF AuthTypes, AuthTypeOK, Account
  <2>3. Fresher /\ TablesCurrent'
    BY <1>0, <2>1, <2>2, WrittenFresher
  <2> QED
    BY <2>1, <2>3, EndedCall, QuietStep DEF End
<1>5. ASSUME NEW q \in AuthRequest, Drop(q) \/ Abandon(q) PROVE AuthSound'
  <2>1. End(q) /\ UNCHANGED <<account, token, since>>
    BY <1>5 DEF Drop, Abandon
  <2>2. \A k \in Key : cache'[k] \in {cache[k], NoEntry}
    BY <1>5, DroppedEntries DEF Drop, Abandon
  <2> QED
    BY <1>same, <2>1, <2>2, EndedCall, QuietStep
<1>6. CASE Restart
  <2>1. \A q \in AuthRequest : call'[q] = call[q] \/ call'[q].step \notin Bound
    BY <1>6 DEF Restart, NoCall, Bound
  <2>2. \A k \in Key : cache'[k] \in {cache[k], NoEntry}
    BY <1>6 DEF Restart
  <2> QED
    BY <1>6, <1>same, <2>1, <2>2, QuietStep DEF Restart
<1>7. CASE UNCHANGED authVars
  BY <1>7, <1>same, QuietStep DEF authVars
<1> QED
  BY <1>1, <1>2, <1>3, <1>4, <1>5, <1>6, <1>7, LookUpSound, FindSound,
     IssueSound, RegisterSound, InsertSound, FillSound, TickSound
     DEF AuthNext

LEMMA SoundInit == AuthInit => AuthSound
<1> SUFFICES ASSUME AuthInit PROVE AuthSound
  OBVIOUS
<1>1. TablesCurrent
  BY TypesInit DEF AuthInit, TablesCurrent, AuthTypes, AuthTypeOK, Account
<1>2. CallsSound
  BY DEF AuthInit, CallsSound, CallSound, NoCall
<1>3. CacheStaleness /\ CachedAccountsUsable
  <2>1. \A k \in Key : ~Get(k)
    BY DEF AuthInit, Get, NoEntry
  <2> QED
    BY <2>1 DEF CacheStaleness, CachedAccountsUsable
<1>4. TokenStaleness
  BY DEF AuthInit, TokenStaleness
<1> QED
  BY <1>1, <1>2, <1>3, <1>4 DEF AuthSound

LEMMA AuthInvariance == AuthSpec => [](AuthTypes /\ AuthSound)
BY TypesInit, TypesStep, SoundInit, SoundStep, PTL DEF AuthSpec

(* What the cache says of an account is stale by no more than its age and  *)
(* the time a handler runs, for any lifetimes and any number of requests.  *)
THEOREM CacheStalenessBounded == AuthSpec => []CacheStaleness
<1>1. AuthTypes /\ AuthSound => CacheStaleness
  BY DEF AuthSound
<1> QED
  BY <1>1, AuthInvariance, PTL

(* A token the API accepts was backed by the table users at most the two   *)
(* lifetimes, the API's clock skew and two handlers ago.                   *)
THEOREM TokenStalenessBounded == AuthSpec => []TokenStaleness
<1>1. AuthTypes /\ AuthSound => TokenStaleness
  BY DEF AuthSound
<1> QED
  BY <1>1, AuthInvariance, PTL

(* No account is ever cached that was inactive or deleted when it was read.*)
THEOREM CachedAccountsAlwaysUsable == AuthSpec => []CachedAccountsUsable
<1>1. AuthTypes /\ AuthSound => CachedAccountsUsable
  BY DEF AuthSound
<1> QED
  BY <1>1, AuthInvariance, PTL

=============================================================================
