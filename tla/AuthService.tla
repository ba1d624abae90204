----------------------------- MODULE AuthService ----------------------------
(***************************************************************************)
(* The Go auth service: accounts in the table users, its in-memory cache   *)
(* of accounts (entries live for five minutes) and the access tokens it    *)
(* issues, which the .NET API accepts on their signature, lifetime and     *)
(* role alone.                                                             *)
(*                                                                         *)
(* Handlers run concurrently; a handler that has read an account from the  *)
(* table puts what it has read into the cache later.  A password is good   *)
(* for the account whose snapshot it is checked against or it is not: the  *)
(* second case ends the request without effect, which is Abandon.          *)
(***************************************************************************)
EXTENDS Integers

CONSTANTS
    User,                \* identifiers accounts can have
    NoUser,              \* "no account"
    Login, Email, Name,  \* lower-case strings in the columns of these names
    NoKey,
    Role,
    AuthRequest,         \* the HTTP requests, each served once
    TTL,                 \* lifetime of a cache entry, in ticks
    Life,                \* lifetime of an access token, in ticks
    Skew,                \* how much later the API still accepts it: the five
                         \* minutes of ClockSkew it does not change, in ticks
    Slack,               \* the longest a handler runs, in ticks
    Overlap,             \* TRUE: requests overlap; FALSE: one at a time
    Faults               \* TRUE: a statement may be committed and its answer
                         \* lost (connection gone, request cancelled)

(* A login request names an account by its login, email or full name.      *)
Key == Login \cup Email \cup Name

ASSUME AuthAssumption ==
    /\ NoUser \notin User
    /\ NoKey \notin Key
    /\ TTL \in Nat \ {0} /\ Life \in Nat \ {0}
    /\ Skew \in Nat /\ Slack \in Nat
    /\ Login # {} /\ Email # {} /\ Name # {} /\ Role # {}
    /\ Overlap \in BOOLEAN /\ Faults \in BOOLEAN

VARIABLES
    account,   \* account[u]: the row of u in the table users
    cache,     \* cache[k]: the cache entry under key k
    token,     \* token[u][r]: ticks the last token of u with role r is
               \* accepted by the API
    call,      \* call[q]: what the handler of request q holds in memory
    since      \* since[u][r]: ticks since u could last be logged in with role
               \* r by the table users; in no variable of the code

authVars == <<account, cache, token, call, since>>

Account == [stored : BOOLEAN, login : Login, email : Email, name : Name,
            role : Role, active : BOOLEAN, deleted : BOOLEAN]

NoAccount == [stored |-> FALSE, login |-> CHOOSE l \in Login : TRUE,
              email |-> CHOOSE e \in Email : TRUE,
              name |-> CHOOSE n \in Name : TRUE,
              role |-> CHOOSE r \in Role : TRUE,
              active |-> FALSE, deleted |-> FALSE]

Usable(a) == a.stored /\ a.active /\ ~a.deleted

(* The unique indexes of the table users; deleted accounts keep their keys.*)
UniqueKeys(acc) ==
    \A u, w \in User : u # w /\ acc[u].stored /\ acc[w].stored =>
        acc[u].login # acc[w].login /\ acc[u].email # acc[w].email

(* A cache entry points to the account as some handler has read it.        *)
Entry == [id : User \cup {NoUser}, user : Account, left : 0 .. TTL]
NoEntry == [id |-> NoUser, user |-> NoAccount, left |-> 0]

(* How long the API accepts a token after it has been issued.              *)
Accepted == Life + Skew

(* Nothing older than this is told apart.                                  *)
Ages == TTL + Accepted + 2 * Slack + 1

CallSteps == {"new", "find", "verify", "insert", "fill", "write", "drop",
              "delete", "restore", "done"}

Call == [step : CallSteps, id : User \cup {NoUser}, user : Account,
         key : Key \cup {NoKey}, hit : BOOLEAN, age : 0 .. Slack]

NoCall(step) == [step |-> step, id |-> NoUser, user |-> NoAccount,
                 key |-> NoKey, hit |-> FALSE, age |-> 0]

Serving(q) == call[q].step \notin {"new", "done"}

AuthInit ==
    /\ account \in [User -> {NoAccount} \cup
          [stored : {TRUE}, login : Login, email : Email, name : Name,
           role : Role, active : {TRUE}, deleted : {FALSE}]]
    /\ UniqueKeys(account)
    /\ cache = [k \in Key |-> NoEntry]
    /\ token = [u \in User |-> [r \in Role |-> 0]]
    /\ call = [q \in AuthRequest |-> NoCall("new")]
    /\ since = [u \in User |-> [r \in Role |->
                   IF Usable(account[u]) /\ account[u].role = r
                   THEN 0 ELSE Ages]]

Begin(q, next) ==
    /\ call[q].step = "new"
    /\ Overlap \/ \A p \in AuthRequest : ~Serving(p)
    /\ call' = [call EXCEPT ![q] = next]

End(q) == call' = [call EXCEPT ![q] = NoCall("done")]

-----------------------------------------------------------------------------
(* userCache.  An entry whose time is over counts as missing.              *)
Get(k) == cache[k].left > 0

SetAll(keys, id, user) ==
    cache' = [k \in Key |->
        IF k \in keys THEN [id |-> id, user |-> user, left |-> TTL]
                      ELSE cache[k]]

Invalidate(keys) ==
    cache' = [k \in Key |-> IF k \in keys THEN NoEntry ELSE cache[k]]

-----------------------------------------------------------------------------
(* Login.  The cache is asked first.                                       *)
LookUp(q) ==
    /\ \E k \in Key :
          Begin(q, IF Get(k)
                   THEN [NoCall("verify") EXCEPT !.id = cache[k].id,
                             !.user = cache[k].user, !.key = k, !.hit = TRUE]
                   ELSE [NoCall("find") EXCEPT !.key = k])
    /\ UNCHANGED <<account, cache, token, since>>

(* FindByLoginOrEmail: some usable account the key fits, by login, email   *)
(* or name; the query does not say which.                                  *)
FindByLoginOrEmail(q) ==
    /\ call[q].step = "find"
    /\ \E u \in User :
          /\ Usable(account[u])
          /\ call[q].key \in {account[u].login, account[u].email,
                              account[u].name}
          /\ call' = [call EXCEPT ![q].step = "verify", ![q].id = u,
                                  ![q].user = account[u]]
    /\ UNCHANGED <<account, cache, token, since>>

(* Mutated form: a cached account is cached anew with each login.          *)
IssueSliding(q) ==
    LET u == call[q].id
        a == call[q].user
    IN  /\ call[q].step = "verify"
        /\ Usable(a)
        /\ SetAll({call[q].key, a.email}, u, a)
        /\ token' = [token EXCEPT ![u][a.role] = Accepted]
        /\ End(q)
        /\ UNCHANGED <<account, since>>

(* The password fits: the token carries id and role of the snapshot.  An   *)
(* account that came from the table is cached under the key typed and      *)
(* under its email.                                                        *)
Issue(q) ==
    LET u == call[q].id
        a == call[q].user
    IN  /\ call[q].step = "verify"
        /\ Usable(a)
        /\ IF call[q].hit THEN UNCHANGED cache
                          ELSE SetAll({call[q].key, a.email}, u, a)
        /\ token' = [token EXCEPT ![u][a.role] = Accepted]
        /\ End(q)
        /\ UNCHANGED <<account, since>>

-----------------------------------------------------------------------------
(* The table after a write to account u, and since when it is as it is.    *)
WriteAccount(u, a) ==
    /\ account' = [account EXCEPT ![u] = a]
    /\ UniqueKeys(account')
    /\ since' = [since EXCEPT ![u] = [r \in Role |->
                    IF Usable(a) /\ a.role = r THEN 0 ELSE @[r]]]

(* Register: the login and the email are free when the handler looks, or   *)
(* the look fails and its error is ignored; the unique indexes decide when *)
(* it inserts.                                                             *)
Taken(login, email) ==
    \E w \in User : /\ account[w].stored
                    /\ account[w].login = login \/ account[w].email = email

Register(q) ==
    /\ \E u \in User, login \in Login, email \in Email, name \in Name,
          role \in Role :
          /\ ~account[u].stored
          /\ \A p \in AuthRequest : call[p].id # u
          /\ Faults \/ ~Taken(login, email)
          /\ Begin(q, [NoCall("insert") EXCEPT !.id = u, !.user =
                [stored |-> TRUE, login |-> login, email |-> email,
                 name |-> name, role |-> role,
                 active |-> TRUE, deleted |-> FALSE]])
    /\ UNCHANGED <<account, cache, token, since>>

Insert(q) ==
    /\ call[q].step = "insert"
    /\ WriteAccount(call[q].id, call[q].user)
    /\ call' = [call EXCEPT ![q].step = "fill"]
    /\ UNCHANGED <<cache, token>>

Fill(q) ==
    /\ call[q].step = "fill"
    /\ SetAll({call[q].user.login, call[q].user.email}, call[q].id,
              call[q].user)
    /\ End(q)
    /\ UNCHANGED <<account, token, since>>

(* UpdateUser: a new login or email must be free, or the look fails.       *)
UpdateUser(q) ==
    /\ \E u \in User, login \in Login, email \in Email, name \in Name,
          role \in Role :
          /\ account[u].stored
          /\ Faults \/ \A w \in User \ {u} : account[w].stored =>
                account[w].login # login /\ account[w].email # email
          /\ Begin(q, [NoCall("write") EXCEPT !.id = u,
                !.user = [account[u] EXCEPT !.login = login, !.email = email,
                                            !.name = name, !.role = role]])
    /\ UNCHANGED <<account, cache, token, since>>

(* Mutated form: login and email change places among the parameters.       *)
WriteSwapped(q) ==
    LET u == call[q].id
        a == call[q].user
    IN  /\ call[q].step = "write"
        /\ WriteAccount(u, [account[u] EXCEPT !.login = a.email,
                  !.email = a.login, !.name = a.name, !.role = a.role])
        /\ call' = [call EXCEPT ![q].step = "drop"]
        /\ UNCHANGED <<cache, token>>

(* Four columns are written; the flags are as they are by now.             *)
Write(q) ==
    LET u == call[q].id
        a == call[q].user
    IN  /\ call[q].step = "write"
        /\ WriteAccount(u, [account[u] EXCEPT !.login = a.login,
                  !.email = a.email, !.name = a.name, !.role = a.role])
        /\ call' = [call EXCEPT ![q].step = "drop"]
        /\ UNCHANGED <<cache, token>>

(* Mutated form: the email's entry is forgotten about.                     *)
DropLogin(q) ==
    /\ call[q].step = "drop"
    /\ Invalidate({call[q].user.login})
    /\ End(q)
    /\ UNCHANGED <<account, token, since>>

(* Mutated form: the account just written is cached at once.               *)
DropAndFill(q) ==
    /\ call[q].step = "drop"
    /\ SetAll({call[q].user.login, call[q].user.email}, call[q].id,
              call[q].user)
    /\ End(q)
    /\ UNCHANGED <<account, token, since>>

(* The entries under the new login and the new email go; entries under an  *)
(* old login, an old email or a name stay.                                 *)
Drop(q) ==
    /\ call[q].step = "drop"
    /\ Invalidate({call[q].user.login, call[q].user.email})
    /\ End(q)
    /\ UNCHANGED <<account, token, since>>

(* SetUserStatus.  Invalidate(id) follows; no entry is kept under an id.   *)
SetUserStatus(q) ==
    \E u \in User, isActive \in BOOLEAN :
        /\ Begin(q, NoCall("done"))
        /\ account[u].stored
        /\ WriteAccount(u, [account[u] EXCEPT !.active = isActive])
        /\ UNCHANGED <<cache, token>>

(* DeleteUser: the entries go first, the account is deleted afterwards.    *)
DeleteUser(q) ==
    /\ \E u \in User :
          /\ account[u].stored /\ ~account[u].deleted
          /\ Begin(q, [NoCall("delete") EXCEPT !.id = u,
                                               !.user = account[u]])
          /\ Invalidate({account[u].login, account[u].email})
    /\ UNCHANGED <<account, token, since>>

SoftDelete(q) ==
    LET u == call[q].id IN
    /\ call[q].step = "delete"
    /\ WriteAccount(u, [account[u] EXCEPT !.deleted = TRUE])
    /\ End(q)
    /\ UNCHANGED <<cache, token>>

(* RestoreUser.                                                            *)
RestoreUser(q) ==
    /\ \E u \in User :
          /\ account[u].stored /\ account[u].deleted
          /\ Begin(q, [NoCall("restore") EXCEPT !.id = u,
                                                !.user = account[u]])
    /\ UNCHANGED <<account, cache, token, since>>

Restore(q) ==
    LET u == call[q].id IN
    /\ call[q].step = "restore"
    /\ WriteAccount(u, [account[u] EXCEPT !.deleted = FALSE])
    /\ End(q)
    /\ UNCHANGED <<cache, token>>

(* The handler ends early: a wrong password, nothing found, a key taken, a *)
(* failed statement or the client gone.  Nothing fails after the write of  *)
(* Register and UpdateUser, but the handler may take it for failed.        *)
Abandon(q) ==
    /\ Serving(q)
    /\ call[q].step \in {"fill", "drop"} => Faults
    /\ End(q)
    /\ UNCHANGED <<account, cache, token, since>>

-----------------------------------------------------------------------------
(* The process is killed and started again.  Tokens are not kept by it.    *)
Restart ==
    /\ \E k \in Key : cache[k] # NoEntry
    /\ cache' = [k \in Key |-> NoEntry]
    /\ call' = [q \in AuthRequest |->
                   IF Serving(q) THEN NoCall("done") ELSE call[q]]
    /\ UNCHANGED <<account, token, since>>

Less(n) == IF n = 0 THEN 0 ELSE n - 1

(* Mutated form: Get does not ask how old.                                  *)
TickForTokens ==
    /\ \A q \in AuthRequest : Serving(q) => call[q].age < Slack
    /\ call' = [q \in AuthRequest |->
                   IF Serving(q) THEN [call[q] EXCEPT !.age = @ + 1]
                                 ELSE call[q]]
    /\ cache' = cache
    /\ token' = [u \in User |-> [r \in Role |-> Less(token[u][r])]]
    /\ since' = [u \in User |-> [r \in Role |->
                    IF Usable(account[u]) /\ account[u].role = r THEN 0
                    ELSE IF since[u][r] = Ages THEN Ages
                    ELSE since[u][r] + 1]]
    /\ UNCHANGED account

(* A tick of the clock.                                                    *)
Tick ==
    /\ \A q \in AuthRequest : Serving(q) => call[q].age < Slack
    /\ call' = [q \in AuthRequest |->
                   IF Serving(q) THEN [call[q] EXCEPT !.age = @ + 1]
                                 ELSE call[q]]
    /\ cache' = [k \in Key |->
                    IF cache[k].left <= 1 THEN NoEntry
                    ELSE [cache[k] EXCEPT !.left = @ - 1]]
    /\ token' = [u \in User |-> [r \in Role |-> Less(token[u][r])]]
    /\ since' = [u \in User |-> [r \in Role |->
                    IF Usable(account[u]) /\ account[u].role = r THEN 0
                    ELSE IF since[u][r] = Ages THEN Ages
                    ELSE since[u][r] + 1]]
    /\ UNCHANGED account

AuthNext ==
    \/ \E q \in AuthRequest :
          \/ LookUp(q) \/ FindByLoginOrEmail(q) \/ Issue(q)
          \/ Register(q) \/ Insert(q) \/ Fill(q)
          \/ UpdateUser(q) \/ Write(q) \/ Drop(q)
          \/ SetUserStatus(q)
          \/ DeleteUser(q) \/ SoftDelete(q)
          \/ RestoreUser(q) \/ Restore(q)
          \/ Abandon(q)
    \/ Restart
    \/ Tick

AuthSpec == AuthInit /\ [][AuthNext]_authVars

-----------------------------------------------------------------------------
(* Type invariant.                                                         *)
AuthTypeOK ==
    /\ account \in [User -> Account]
    /\ cache \in [Key -> Entry]
    /\ token \in [User -> [Role -> 0 .. Accepted]]
    /\ call \in [AuthRequest -> Call]
    /\ since \in [User -> [Role -> 0 .. Ages]]

(* What the cache says was so in the table when the entry was made, give   *)
(* or take the time a handler runs: nothing makes an entry live longer,    *)
(* neither logins with it nor a renamed, deleted or restored account.      *)
CacheStaleness ==
    \A k \in Key : Get(k) =>
        since[cache[k].id][cache[k].user.role] <= TTL - cache[k].left + Slack

(* A token the API accepts is backed by the table users of at most one     *)
(* cache lifetime, one token lifetime, the API's ClockSkew and the time    *)
(* two handlers run ago: so long may an account that is deactivated,       *)
(* deleted or given another role act in its old role, and no longer.       *)
TokenStaleness ==
    \A u \in User, r \in Role : token[u][r] > 0 =>
        since[u][r] < TTL + 2 * Slack + Accepted - token[u][r]

(* The checks of IsDeleted and IsActive that Login makes of a cached       *)
(* account never fail: every cached account was usable when it was read.   *)
CachedAccountsUsable ==
    \A k \in Key : Get(k) => Usable(cache[k].user)

(* While requests do not overlap and no answer is lost, what is cached     *)
(* under the login or the email of an account is, whenever no request is   *)
(* being served, that account in its role and not deleted; or an account   *)
(* for which the word is something else, a name of one being a login of    *)
(* another: never one that had it as its own login, or email, before.      *)
OwnKeysCurrent ==
    (\A q \in AuthRequest : ~Serving(q)) =>
        \A u \in User : account[u].stored =>
            \A k \in {account[u].login, account[u].email} :
                Get(k) => LET a == cache[k].user IN
                    IF cache[k].id = u
                    THEN a.role = account[u].role /\ ~account[u].deleted
                    ELSE /\ k \in {a.login, a.email, a.name}
                         /\ k = account[u].login => k # a.login
                         /\ k = account[u].email => k # a.email

=============================================================================
