----------------------- MODULE AuthSequential_proofs ------------------------
(***************************************************************************)
(* The cache of the auth service while requests are served one at a time   *)
(* and no answer is lost: what is cached under an account's own login or   *)
(* email is that account, or one that has the word in another column.  For *)
(* any accounts, words, lifetimes and requests.                            *)
(*                                                                         *)
(* A change of a login leaves the entry under the old one, so the          *)
(* invariant speaks of what may be cached under the keys that accounts     *)
(* have now; it is broken between a write and the Fill or Drop after it.   *)
(***************************************************************************)
EXTENDS AuthService_proofs

Own(u) == {account[u].login, account[u].email}

(* The entry under a word of u is u as it is, or another account that has  *)
(* the word elsewhere.                                                     *)
Current(k, u) ==
    Get(k) =>
        /\ cache[k].id = u => /\ cache[k].user.role = account[u].role
                              /\ account[u].deleted = FALSE
        /\ cache[k].id # u =>
              /\ k \in {cache[k].user.login, cache[k].user.email,
                        cache[k].user.name}
              /\ k = account[u].login => k # cache[k].user.login
              /\ k = account[u].email => k # cache[k].user.email

(* The cache has yet to be told of what has been written about account u.  *)
Untold(u) ==
    \E q \in AuthRequest : call[q].step \in {"fill", "drop"} /\ call[q].id = u

OwnCached ==
    \A u \in User : account[u].stored =>
        \A k \in Own(u) : Current(k, u) \/ Untold(u)

OneCall == \A p, q \in AuthRequest : Serving(p) /\ Serving(q) => p = q

(* What request q holds is as the table has it.                            *)
CallFresh(q) ==
    LET u == call[q].id
        a == call[q].user
    IN  /\ call[q].step = "find" => call[q].key \in Key
        /\ call[q].step = "verify" /\ ~call[q].hit =>
              account[u] = a /\ call[q].key \in {a.login, a.email, a.name}
        /\ call[q].step = "insert" => ~account[u].stored
        /\ call[q].step = "fill" => account[u] = a
        /\ call[q].step = "drop" =>
              account[u].login = a.login /\ account[u].email = a.email
        /\ call[q].step = "delete" => \A k \in Own(u) : ~Get(k)

OwnFresh ==
    /\ UniqueKeys(account)
    /\ OneCall
    /\ \A q \in AuthRequest : CallFresh(q)
    /\ OwnCached

-----------------------------------------------------------------------------
(* Request q alone is at work before and after its step.                   *)
LEMMA OnlyCall ==
    ASSUME AuthTypes, NEW q \in AuthRequest,
           call' = [call EXCEPT ![q] = call'[q]],
           \A p \in AuthRequest : Serving(p) => p = q
    PROVE  /\ OneCall'
           /\ \A p \in AuthRequest : p # q => call'[p] = call[p]
           /\ CallFresh(q)' => \A p \in AuthRequest : CallFresh(p)'
<1>1. \A p \in AuthRequest : p # q => call'[p] = call[p]
  BY DEF AuthTypes, AuthTypeOK
<1>2. \A p \in AuthRequest : p # q => call'[p].step \in {"new", "done"}
  BY <1>1 DEF Serving
<1>3. OneCall'
  BY <1>2 DEF OneCall, Serving
<1>4. \A p \in AuthRequest : p # q => CallFresh(p)'
  BY <1>2 DEF CallFresh
<1> QED
  BY <1>1, <1>3, <1>4

LEMMA Begun ==
    ASSUME ~Overlap, AuthTypes, NEW q \in AuthRequest, NEW next,
           Begin(q, next)
    PROVE  /\ call' = [call EXCEPT ![q] = call'[q]]
           /\ call'[q] = next
           /\ \A p \in AuthRequest : ~Serving(p)
BY DEF Begin, AuthTypes, AuthTypeOK

LEMMA Served ==
    ASSUME OwnFresh, NEW q \in AuthRequest, Serving(q)
    PROVE  \A p \in AuthRequest : Serving(p) => p = q
BY DEF OwnFresh, OneCall

LEMMA Ended ==
    ASSUME AuthTypes, NEW q \in AuthRequest, End(q)
    PROVE  /\ call' = [call EXCEPT ![q] = call'[q]]
           /\ call'[q].step = "done"
           /\ CallFresh(q)'
<1>1. call' = [call EXCEPT ![q] = call'[q]] /\ call'[q].step = "done"
  BY DEF AuthTypes, AuthTypeOK, End, NoCall
<1> QED
  BY <1>1 DEF CallFresh

(* A step that changes no account and caches nothing, of a request that    *)
(* has nothing to tell the cache, or with the whole cache forgotten.       *)
LEMMA QuietOwn ==
    ASSUME OwnCached, UNCHANGED account,
           \A k \in Key : Get(k)' => /\ Get(k) /\ cache'[k].id = cache[k].id
                                     /\ cache'[k].user = cache[k].user,
           \A u \in User : Untold(u) => Untold(u)',
           account \in [User -> Account]
    PROVE  OwnCached'
<1> SUFFICES ASSUME NEW u \in User, account'[u].stored, NEW k \in Own(u)'
             PROVE  Current(k, u)' \/ Untold(u)'
  BY DEF OwnCached
<1>1. account[u].stored /\ k \in Own(u) /\ k \in Key
  BY DEF Own, Account, Key
<1>2. Current(k, u) \/ Untold(u)
  BY <1>1 DEF OwnCached
<1> QED
  BY <1>1, <1>2 DEF Current

(* Nobody writes: everything cached under own keys is current.             *)
LEMMA AllTold ==
    ASSUME OwnFresh,
           \A q \in AuthRequest : call[q].step \notin {"fill", "drop"}
    PROVE  \A u \in User : ~Untold(u)
BY DEF Untold

(* Request q is alone, has nothing to tell the cache and changes no        *)
(* account; entries may go.                                                *)
LEMMA StillOwn ==
    ASSUME AuthTypes, OwnFresh, NEW q \in AuthRequest,
           call' = [call EXCEPT ![q] = call'[q]],
           \A p \in AuthRequest : Serving(p) => p = q,
           \A u \in User : ~Untold(u),
           UNCHANGED account,
           \A k \in Key : cache'[k] \in {cache[k], NoEntry},
           CallFresh(q)'
    PROVE  OwnFresh'
<1>1. \A k \in Key : Get(k)' => /\ Get(k) /\ cache'[k].id = cache[k].id
                                /\ cache'[k].user = cache[k].user
  BY DEF Get, NoEntry
<1>2. OwnCached'
  BY <1>1, QuietOwn DEF OwnFresh, AuthTypes, AuthTypeOK
<1> QED
  BY <1>2, OnlyCall DEF OwnFresh, UniqueKeys

(* Request q ends with a flag of account u written.                        *)
LEMMA FlagOwn ==
    ASSUME AuthTypes, OwnFresh, NEW q \in AuthRequest,
           call' = [call EXCEPT ![q] = call'[q]],
           \A p \in AuthRequest : Serving(p) => p = q,
           \A u \in User : ~Untold(u),
           NEW u \in User, NEW a \in Account, WriteAccount(u, a),
           a.stored = account[u].stored, a.role = account[u].role,
           a.login = account[u].login, a.email = account[u].email,
           \/ a.deleted \in {FALSE, account[u].deleted}
           \/ \A k \in Own(u) : ~Get(k),
           UNCHANGED cache,
           CallFresh(q)'
    PROVE  OwnFresh'
<1>1. /\ account'[u] = a
      /\ \A w \in User : w # u => account'[w] = account[w]
      /\ UniqueKeys(account)'
  BY DEF WriteAccount, AuthTypes, AuthTypeOK
<1>2. ASSUME NEW w \in User, account'[w].stored, NEW k \in Own(w)'
      PROVE  Current(k, w)'
  <2>1. account[w].stored /\ k \in Own(w)
    BY <1>1, <1>2 DEF Own
  <2>2. Current(k, w)
    BY <2>1 DEF OwnFresh, OwnCached
  <2>3. CASE w # u
    BY <1>1, <2>2, <2>3 DEF Current, Get
  <2>4. CASE w = u
    BY <1>1, <2>1, <2>2, <2>4 DEF Current, Get
  <2> QED
    BY <2>3, <2>4
<1>3. OwnCached'
  BY <1>2 DEF OwnCached
<1> QED
  BY <1>1, <1>3, OnlyCall DEF OwnFresh

(* Request q has written account u and is about to tell the cache.         *)
LEMMA WriteOwn ==
    ASSUME AuthTypes, OwnFresh, NEW q \in AuthRequest,
           call' = [call EXCEPT ![q] = call'[q]],
           \A p \in AuthRequest : Serving(p) => p = q,
           \A u \in User : ~Untold(u),
           NEW u \in User, NEW a \in Account, WriteAccount(u, a),
           call'[q].step \in {"fill", "drop"}, call'[q].id = u,
           UNCHANGED cache,
           CallFresh(q)'
    PROVE  OwnFresh'
<1>1. /\ \A w \in User : w # u => account'[w] = account[w]
      /\ UniqueKeys(account)'
  BY DEF WriteAccount, AuthTypes, AuthTypeOK
<1>2. Untold(u)'
  BY DEF Untold
<1>3. ASSUME NEW w \in User, account'[w].stored, NEW k \in Own(w)', w # u
      PROVE  Current(k, w)'
  <2>1. account[w].stored /\ k \in Own(w)
    BY <1>1, <1>3 DEF Own
  <2>2. Current(k, w)
    BY <2>1 DEF OwnFresh, OwnCached
  <2> QED
    BY <1>1, <1>3, <2>2 DEF Current, Get
<1>4. OwnCached'
  BY <1>2, <1>3 DEF OwnCached
<1> QED
  BY <1>1, <1>4, OnlyCall DEF OwnFresh

(* Account u is cached as it is, under keys of its own.                    *)
LEMMA SetOwn ==
    ASSUME AuthTypes, OwnFresh, NEW u \in User, NEW keys,
           Usable(account[u]),
           keys \subseteq {account[u].login, account[u].email, account[u].name},
           SetAll(keys, u, account[u]), UNCHANGED account,
           \A w \in User : w # u => ~Untold(w),
           \A k \in Own(u) : k \in keys \/ Current(k, u)
    PROVE  OwnCached'
<1> SUFFICES ASSUME NEW w \in User, account'[w].stored, NEW k \in Own(w)'
             PROVE  Current(k, w)'
  BY DEF OwnCached
<1>1. account[w].stored /\ k \in Own(w) /\ account[w] \in Account
      /\ account[u] \in Account /\ k \in Key
  BY DEF Own, AuthTypes, AuthTypeOK, Account, Key
<1>2. cache'[k] = IF k \in keys
                  THEN [id |-> u, user |-> account[u], left |-> TTL]
                  ELSE cache[k]
  BY <1>1 DEF SetAll
<1>3. CASE w = u
  <2>1. CASE k \in keys
    BY <1>2, <1>3, <2>1, <1>1 DEF Current, Usable, Account
  <2>2. CASE k \notin keys
    BY <1>1, <1>2, <1>3, <2>2 DEF Current, Get
  <2> QED
    BY <2>1, <2>2
<1>4. CASE w # u
  <2>1. CASE k \in keys
    <3>1. cache'[k].id = u /\ cache'[k].user = account[u]
      BY <1>2, <2>1
    <3>2. /\ account[w].login # account[u].login
          /\ account[w].email # account[u].email
      BY <1>1, <1>4 DEF OwnFresh, UniqueKeys, Usable
    <3> QED
      BY <1>4, <2>1, <3>1, <3>2 DEF Current
  <2>2. CASE k \notin keys
    <3>1. Current(k, w)
      BY <1>1, <1>4 DEF OwnFresh, OwnCached
    <3> QED
      BY <1>2, <2>2, <3>1 DEF Current, Get
  <2> QED
    BY <2>1, <2>2
<1> QED
  BY <1>3, <1>4


-----------------------------------------------------------------------------
(* The steps.                                                              *)

(* A request that begins finds the cache told of everything.               *)
LEMMA BeginsTold ==
    ASSUME OwnFresh, \A p \in AuthRequest : ~Serving(p)
    PROVE  \A u \in User : ~Untold(u)
BY AllTold DEF Serving

(* One that works at another step than fill and drop, too.                 *)
LEMMA WorksTold ==
    ASSUME OwnFresh, NEW q \in AuthRequest, Serving(q),
           call[q].step \notin {"fill", "drop"}
    PROVE  \A u \in User : ~Untold(u)
<1>1. ASSUME NEW p \in AuthRequest, call[p].step \in {"fill", "drop"}
      PROVE  FALSE
  BY <1>1, Served DEF Serving
<1> QED
  BY <1>1, AllTold

LEMMA LookUpOwn ==
    ASSUME ~Overlap, AuthTypes, OwnFresh, NEW q \in AuthRequest, LookUp(q)
    PROVE  OwnFresh'
<1>1. PICK k \in Key :
         Begin(q, IF Get(k)
                  THEN [NoCall("verify") EXCEPT !.id = cache[k].id,
                            !.user = cache[k].user, !.key = k, !.hit = TRUE]
                  ELSE [NoCall("find") EXCEPT !.key = k])
  BY DEF LookUp
<1>2. CallFresh(q)'
  <2> DEFINE hit == [NoCall("verify") EXCEPT !.id = cache[k].id,
                         !.user = cache[k].user, !.key = k, !.hit = TRUE]
             miss == [NoCall("find") EXCEPT !.key = k]
  <2>0. call'[q] = IF Get(k) THEN hit ELSE miss
    <3>1. Begin(q, IF Get(k) THEN hit ELSE miss)
      BY <1>1
    <3> HIDE DEF hit, miss
    <3> QED
      BY <3>1, Begun
  <2>1. CASE Get(k)
    <3>1. call'[q].step = "verify" /\ call'[q].hit
      BY <2>0, <2>1 DEF NoCall
    <3> QED
      BY <3>1 DEF CallFresh
  <2>2. CASE ~Get(k)
    <3>1. call'[q].step = "find" /\ call'[q].key = k
      BY <2>0, <2>2 DEF NoCall
    <3> QED
      BY <3>1 DEF CallFresh
  <2> QED
    BY <2>1, <2>2
<1>3. /\ call' = [call EXCEPT ![q] = call'[q]]
      /\ \A p \in AuthRequest : ~Serving(p)
  BY <1>1, Begun
<1> QED
  BY <1>2, <1>3, BeginsTold, StillOwn DEF LookUp

LEMMA FindOwn ==
    ASSUME AuthTypes, AuthSound, OwnFresh, NEW q \in AuthRequest,
           FindByLoginOrEmail(q)
    PROVE  OwnFresh'
<1>1. PICK u \in User :
         /\ call[q].step = "find"
         /\ call[q].key \in {account[u].login, account[u].email,
                             account[u].name}
         /\ call' = [call EXCEPT ![q].step = "verify", ![q].id = u,
                                 ![q].user = account[u]]
         /\ UNCHANGED <<account, cache>>
  BY DEF FindByLoginOrEmail
<1>2. /\ call'[q].step = "verify" /\ call'[q].id = u
      /\ call'[q].user = account[u] /\ call'[q].key = call[q].key
      /\ call' = [call EXCEPT ![q] = call'[q]]
  BY <1>1 DEF AuthTypes, AuthTypeOK, Call
<1>3. CallFresh(q)'
  BY <1>1, <1>2 DEF CallFresh
<1>4. Serving(q) /\ call[q].step \notin {"fill", "drop"}
  BY <1>1 DEF Serving
<1> QED
  BY <1>1, <1>2, <1>3, <1>4, WorksTold, Served, StillOwn

LEMMA IssueOwn ==
    ASSUME AuthTypes, OwnFresh, NEW q \in AuthRequest, Issue(q)
    PROVE  OwnFresh'
<1> DEFINE u == call[q].id
           a == call[q].user
<1>1. /\ call[q].step = "verify" /\ Usable(a) /\ End(q)
      /\ IF call[q].hit THEN UNCHANGED cache
                        ELSE SetAll({call[q].key, a.email}, u, a)
      /\ UNCHANGED account
  BY DEF Issue
<1>2. /\ Serving(q)
      /\ \A w \in User : ~Untold(w)
      /\ \A p \in AuthRequest : Serving(p) => p = q
  BY <1>1, WorksTold, Served DEF Serving
<1>3. CASE call[q].hit
  BY <1>1, <1>2, <1>3, Ended, StillOwn
<1>4. CASE ~call[q].hit
  <2>1. /\ u \in User /\ account[u] = a
        /\ call[q].key \in {a.login, a.email, a.name}
    BY <1>1, <1>4, Held DEF Holding, OwnFresh, CallFresh
  <2>2. \A k \in Own(u) : Current(k, u)
    BY <1>1, <1>2, <2>1 DEF OwnFresh, OwnCached, Usable
  <2>3. OwnCached'
    <3>1. SetAll({call[q].key, a.email}, u, account[u]) /\ Usable(account[u])
      BY <1>1, <1>4, <2>1
    <3>2. {call[q].key, a.email} \subseteq
             {account[u].login, account[u].email, account[u].name}
      BY <2>1
    <3> HIDE DEF u, a
    <3> QED
      BY <1>1, <1>2, <2>1, <2>2, <3>1, <3>2, SetOwn
  <2> QED
    BY <1>1, <1>2, <2>3, Ended, OnlyCall DEF OwnFresh, UniqueKeys
<1> QED
  BY <1>3, <1>4

LEMMA RegisterOwn ==
    ASSUME ~Overlap, AuthTypes, OwnFresh, NEW q \in AuthRequest, Register(q)
    PROVE  OwnFresh'
<1>1. PICK u \in User, login \in Login, email \in Email, name \in Name,
           role \in Role :
         /\ ~account[u].stored
         /\ Begin(q, [NoCall("insert") EXCEPT !.id = u, !.user =
              [stored |-> TRUE, login |-> login, email |-> email,
               name |-> name, role |-> role,
               active |-> TRUE, deleted |-> FALSE]])
  BY DEF Register
<1> DEFINE next == [NoCall("insert") EXCEPT !.id = u, !.user =
              [stored |-> TRUE, login |-> login, email |-> email,
               name |-> name, role |-> role,
               active |-> TRUE, deleted |-> FALSE]]
<1>2. call'[q].step = "insert" /\ call'[q].id = u /\ account' = account
  <2>1. next.step = "insert" /\ next.id = u
    BY DEF NoCall
  <2>2. Begin(q, next)
    BY <1>1
  <2> HIDE DEF next
  <2> QED
    BY <2>1, <2>2, Begun DEF Register
<1>3. CallFresh(q)'
  BY <1>1, <1>2 DEF CallFresh
<1>4. /\ call' = [call EXCEPT ![q] = call'[q]]
      /\ \A p \in AuthRequest : ~Serving(p)
  BY <1>1, Begun
<1> QED
  BY <1>3, <1>4, BeginsTold, StillOwn DEF Register

LEMMA InsertOwn ==
    ASSUME AuthTypes, OwnFresh, NEW q \in AuthRequest, Insert(q)
    PROVE  OwnFresh'
<1> DEFINE u == call[q].id
           a == call[q].user
<1>1. /\ call[q].step = "insert" /\ WriteAccount(u, a)
      /\ call' = [call EXCEPT ![q].step = "fill"]
      /\ UNCHANGED cache
  BY DEF Insert
<1>2. /\ u \in User /\ a \in Account /\ Serving(q)
      /\ \A w \in User : ~Untold(w)
      /\ \A p \in AuthRequest : Serving(p) => p = q
  BY <1>1, Held, WorksTold, Served DEF Holding, Serving
<1>3. /\ call' = [call EXCEPT ![q] = call'[q]]
      /\ call'[q].step = "fill" /\ call'[q].id = u /\ call'[q].user = a
  BY <1>1 DEF AuthTypes, AuthTypeOK, Call
<1>4. account'[u] = a
  BY <1>1, <1>2 DEF WriteAccount, AuthTypes, AuthTypeOK
<1>5. CallFresh(q)'
  BY <1>3, <1>4 DEF CallFresh
<1> HIDE DEF u, a
<1> QED
  BY <1>1, <1>2, <1>3, <1>5, WriteOwn

LEMMA FillOwn ==
    ASSUME AuthTypes, AuthSound, OwnFresh, NEW q \in AuthRequest,
           Fill(q)
    PROVE  OwnFresh'
<1> DEFINE u == call[q].id
           a == call[q].user
<1>1. /\ call[q].step = "fill" /\ SetAll({a.login, a.email}, u, a) /\ End(q)
      /\ UNCHANGED account
  BY DEF Fill
<1>2. /\ u \in User /\ Serving(q) /\ account[u] = a /\ Usable(a)
      /\ \A p \in AuthRequest : Serving(p) => p = q
  BY <1>1, Held, Served
     DEF Holding, Serving, OwnFresh, CallFresh, AuthSound, CallsSound, CallSound
<1>3. \A w \in User : w # u => ~Untold(w)
  BY <1>2 DEF Untold, Serving
<1>4. OwnCached'
  <2>1. SetAll(Own(u), u, account[u]) /\ Usable(account[u])
    BY <1>1, <1>2 DEF Own
  <2>2. Own(u) \subseteq {account[u].login, account[u].email, account[u].name}
    BY DEF Own
  <2> HIDE DEF u, a
  <2> QED
    BY <1>1, <1>2, <1>3, <2>1, <2>2, SetOwn
<1> QED
  BY <1>1, <1>2, <1>4, Ended, OnlyCall DEF OwnFresh, UniqueKeys


LEMMA UpdateOwn ==
    ASSUME ~Overlap, AuthTypes, OwnFresh, NEW q \in AuthRequest, UpdateUser(q)
    PROVE  OwnFresh'
<1>1. PICK u, a : Begin(q, [NoCall("write") EXCEPT !.id = u, !.user = a])
  BY DEF UpdateUser
<1> DEFINE next == [NoCall("write") EXCEPT !.id = u, !.user = a]
<1>2. next.step = "write"
  BY DEF NoCall
<1> HIDE DEF next
<1>3. /\ call'[q] = next
      /\ call' = [call EXCEPT ![q] = call'[q]]
      /\ \A p \in AuthRequest : ~Serving(p)
  BY <1>1, Begun DEF next
<1>4. CallFresh(q)'
  BY <1>2, <1>3 DEF CallFresh
<1> QED
  BY <1>3, <1>4, BeginsTold, StillOwn DEF UpdateUser

LEMMA WriteStepOwn ==
    ASSUME AuthTypes, OwnFresh, NEW q \in AuthRequest, Write(q)
    PROVE  OwnFresh'
<1> DEFINE u == call[q].id
           a == call[q].user
           new == [account[u] EXCEPT !.login = a.login, !.email = a.email,
                                     !.name = a.name, !.role = a.role]
<1>1. /\ call[q].step = "write" /\ WriteAccount(u, new)
      /\ call' = [call EXCEPT ![q].step = "drop"]
      /\ UNCHANGED cache
  BY DEF Write
<1>2. /\ u \in User /\ a \in Account /\ Serving(q)
      /\ \A w \in User : ~Untold(w)
      /\ \A p \in AuthRequest : Serving(p) => p = q
  BY <1>1, Held, WorksTold, Served DEF Holding, Serving
<1>3. new \in Account /\ new.login = a.login /\ new.email = a.email
  BY <1>2 DEF AuthTypes, AuthTypeOK, Account
<1>4. /\ call' = [call EXCEPT ![q] = call'[q]]
      /\ call'[q].step = "drop" /\ call'[q].id = u /\ call'[q].user = a
  BY <1>1 DEF AuthTypes, AuthTypeOK, Call
<1>5. CallFresh(q)'
  <2> HIDE DEF u, a, new
  <2>1. account'[u] = new
    BY <1>1, <1>2 DEF WriteAccount, AuthTypes, AuthTypeOK
  <2> QED
    BY <1>3, <1>4, <2>1 DEF CallFresh
<1> HIDE DEF u, a, new
<1> QED
  BY <1>1, <1>2, <1>3, <1>4, <1>5, WriteOwn

(* Everything under the keys the account has now goes.                     *)
LEMMA DropOwn ==
    ASSUME AuthTypes, OwnFresh, NEW q \in AuthRequest, Drop(q)
    PROVE  OwnFresh'
<1> DEFINE u == call[q].id
           a == call[q].user
<1>1. /\ call[q].step = "drop" /\ Invalidate({a.login, a.email}) /\ End(q)
      /\ UNCHANGED account
  BY DEF Drop
<1>2. /\ u \in User /\ Serving(q) /\ Own(u) = {a.login, a.email}
      /\ \A p \in AuthRequest : Serving(p) => p = q
  BY <1>1, Held, Served DEF Holding, Serving, OwnFresh, CallFresh, Own
<1>3. \A w \in User : w # u => ~Untold(w)
  BY <1>2 DEF Untold, Serving
<1>4. ASSUME NEW w \in User, account'[w].stored, NEW k \in Own(w)'
      PROVE  Current(k, w)'
  <2>1. account[w].stored /\ k \in Own(w) /\ k \in Key
    BY <1>1, <1>4 DEF Own, AuthTypes, AuthTypeOK, Account, Key
  <2>2. cache'[k] = IF k \in Own(u) THEN NoEntry ELSE cache[k]
    BY <1>1, <1>2, <2>1 DEF Invalidate
  <2>3. CASE k \in Own(u)
    BY <2>2, <2>3 DEF Current, Get, NoEntry
  <2>4. CASE k \notin Own(u)
    <3>1. Current(k, w)
      BY <1>3, <2>1, <2>4 DEF OwnFresh, OwnCached
    <3> QED
      BY <1>1, <2>2, <2>4, <3>1 DEF Current, Get
  <2> QED
    BY <2>3, <2>4
<1>5. OwnCached'
  BY <1>4 DEF OwnCached
<1> QED
  BY <1>1, <1>2, <1>5, Ended, OnlyCall DEF OwnFresh, UniqueKeys

LEMMA StatusOwn ==
    ASSUME ~Overlap, AuthTypes, OwnFresh, NEW q \in AuthRequest,
           SetUserStatus(q)
    PROVE  OwnFresh'
<1>1. PICK u \in User, isActive \in BOOLEAN :
         /\ Begin(q, NoCall("done"))
         /\ WriteAccount(u, [account[u] EXCEPT !.active = isActive])
         /\ UNCHANGED cache
  BY DEF SetUserStatus
<1> DEFINE a == [account[u] EXCEPT !.active = isActive]
<1>2. /\ a \in Account
      /\ a.stored = account[u].stored /\ a.role = account[u].role
      /\ a.login = account[u].login /\ a.email = account[u].email
      /\ a.deleted = account[u].deleted
  BY DEF AuthTypes, AuthTypeOK, Account
<1>3. /\ call' = [call EXCEPT ![q] = call'[q]]
      /\ call'[q].step = "done"
      /\ \A p \in AuthRequest : ~Serving(p)
  BY <1>1, Begun DEF NoCall
<1>4. CallFresh(q)'
  BY <1>3 DEF CallFresh
<1>5. \A w \in User : ~Untold(w)
  BY <1>3, BeginsTold
<1> HIDE DEF a
<1>6. WriteAccount(u, a)
  BY <1>1 DEF a
<1> QED
  BY <1>1, <1>2, <1>3, <1>4, <1>5, <1>6, FlagOwn

LEMMA DeleteOwn ==
    ASSUME ~Overlap, AuthTypes, OwnFresh, NEW q \in AuthRequest, DeleteUser(q)
    PROVE  OwnFresh'
<1>1. PICK u \in User :
         /\ Begin(q, [NoCall("delete") EXCEPT !.id = u, !.user = account[u]])
         /\ Invalidate({account[u].login, account[u].email})
  BY DEF DeleteUser
<1> DEFINE next == [NoCall("delete") EXCEPT !.id = u, !.user = account[u]]
<1>2. next.step = "delete" /\ next.id = u
  BY DEF NoCall
<1> HIDE DEF next
<1>3. /\ call'[q] = next
      /\ call' = [call EXCEPT ![q] = call'[q]]
      /\ \A p \in AuthRequest : ~Serving(p)
  BY <1>1, Begun DEF next
<1>4. account' = account
  BY DEF DeleteUser
<1>5. \A k \in Own(u) : ~Get(k)'
  BY <1>1 DEF Own, Invalidate, Get, NoEntry, AuthTypes, AuthTypeOK, Account,
              Key
<1>6. CallFresh(q)'
  BY <1>2, <1>3, <1>4, <1>5 DEF CallFresh, Own
<1>7. \A k \in Key : cache'[k] \in {cache[k], NoEntry}
  BY <1>1 DEF Invalidate
<1> QED
  BY <1>3, <1>4, <1>6, <1>7, BeginsTold, StillOwn


(* No key of an account about to be deleted is cached; an account that is  *)
(* deleted and has a cached key is none, so that a restore is harmless.    *)
LEMMA MarkOwn ==
    ASSUME AuthTypes, OwnFresh, NEW q \in AuthRequest,
           SoftDelete(q) \/ Restore(q)
    PROVE  OwnFresh'
<1> DEFINE u == call[q].id
<1>1. PICK isDeleted \in BOOLEAN :
         /\ call[q].step \in {"delete", "restore"}
         /\ isDeleted => call[q].step = "delete"
         /\ WriteAccount(u, [account[u] EXCEPT !.deleted = isDeleted])
         /\ End(q)
         /\ UNCHANGED cache
  BY DEF SoftDelete, Restore
<1>2. /\ u \in User /\ account[u] \in Account /\ Serving(q)
      /\ \A w \in User : ~Untold(w)
      /\ \A p \in AuthRequest : Serving(p) => p = q
  BY <1>1, Held, WorksTold, Served DEF Holding, Serving
<1> DEFINE a == [account[u] EXCEPT !.deleted = isDeleted]
<1>3. /\ a \in Account
      /\ a.stored = account[u].stored /\ a.role = account[u].role
      /\ a.login = account[u].login /\ a.email = account[u].email
      /\ a.deleted = isDeleted
  BY <1>2 DEF Account
<1>4. a.deleted \in {FALSE, account[u].deleted} \/ \A k \in Own(u) : ~Get(k)
  <2>1. CASE isDeleted
    BY <1>1, <1>2, <2>1 DEF OwnFresh, CallFresh
  <2>2. CASE ~isDeleted
    BY <1>3, <2>2
  <2> QED
    BY <2>1, <2>2
<1>5. WriteAccount(u, a)
  BY <1>1
<1> HIDE DEF u, a
<1> QED
  BY <1>1, <1>2, <1>3, <1>4, <1>5, Ended, FlagOwn

LEMMA RestoreOwn ==
    ASSUME ~Overlap, AuthTypes, OwnFresh, NEW q \in AuthRequest,
           RestoreUser(q)
    PROVE  OwnFresh'
<1>1. PICK u \in User :
         Begin(q, [NoCall("restore") EXCEPT !.id = u, !.user = account[u]])
  BY DEF RestoreUser
<1> DEFINE next == [NoCall("restore") EXCEPT !.id = u, !.user = account[u]]
<1>2. next.step = "restore"
  BY DEF NoCall
<1> HIDE DEF next
<1>3. /\ call'[q] = next
      /\ call' = [call EXCEPT ![q] = call'[q]]
      /\ \A p \in AuthRequest : ~Serving(p)
  BY <1>1, Begun DEF next
<1>4. CallFresh(q)'
  BY <1>2, <1>3 DEF CallFresh
<1> QED
  BY <1>3, <1>4, BeginsTold, StillOwn DEF RestoreUser

LEMMA AbandonOwn ==
    ASSUME ~Faults, AuthTypes, OwnFresh, NEW q \in AuthRequest, Abandon(q)
    PROVE  OwnFresh'
<1>1. /\ Serving(q) /\ call[q].step \notin {"fill", "drop"} /\ End(q)
      /\ UNCHANGED <<account, cache>>
  BY DEF Abandon
<1> QED
  BY <1>1, WorksTold, Served, Ended, StillOwn

LEMMA RestartOwn ==
    ASSUME AuthTypes, OwnFresh, Restart
    PROVE  OwnFresh'
<1>1. /\ \A k \in Key : ~Get(k)'
      /\ \A q \in AuthRequest : call'[q].step \in {"new", "done"}
      /\ account' = account
  BY DEF Restart, Get, NoEntry, NoCall, Serving
<1>2. OneCall' /\ \A q \in AuthRequest : CallFresh(q)'
  BY <1>1 DEF OneCall, Serving, CallFresh
<1>3. OwnCached'
  BY <1>1 DEF OwnCached, Own, Current, Key, AuthTypes, AuthTypeOK, Account
<1> QED
  BY <1>1, <1>2, <1>3 DEF OwnFresh, UniqueKeys

LEMMA TickOwn ==
    ASSUME AuthTypes, OwnFresh, Tick
    PROVE  OwnFresh'
<1>1. ASSUME NEW k \in Key, Get(k)'
      PROVE  /\ Get(k) /\ cache'[k].id = cache[k].id
             /\ cache'[k].user = cache[k].user
  <2>1. cache[k].left \in Nat
    BY Times DEF AuthTypes, AuthTypeOK, Entry
  <2>2. cache'[k] = IF cache[k].left <= 1 THEN NoEntry
                    ELSE [cache[k] EXCEPT !.left = @ - 1]
    BY DEF Tick
  <2>3. CASE cache[k].left <= 1
    BY <1>1, <2>2, <2>3 DEF Get, NoEntry
  <2>4. CASE ~(cache[k].left <= 1)
    BY <2>1, <2>2, <2>4 DEF Get, AuthTypes, AuthTypeOK, Entry
  <2> QED
    BY <2>3, <2>4
<1>2. ASSUME NEW q \in AuthRequest
      PROVE  /\ call'[q].step = call[q].step /\ call'[q].id = call[q].id
             /\ call'[q].user = call[q].user /\ call'[q].key = call[q].key
             /\ call'[q].hit = call[q].hit
  BY DEF Tick, AuthTypes, AuthTypeOK, Call
<1>3. account' = account
  BY DEF Tick
<1>4. \A u \in User : Untold(u) => Untold(u)'
  BY <1>2 DEF Untold
<1>5. OwnCached'
  BY <1>1, <1>3, <1>4, QuietOwn DEF OwnFresh, AuthTypes, AuthTypeOK
<1>6. OneCall'
  BY <1>2 DEF OwnFresh, OneCall, Serving
<1>7. ASSUME NEW q \in AuthRequest
      PROVE  CallFresh(q)'
  <2>1. call[q].step = "delete" => Own(call[q].id) \subseteq Key
    BY Held DEF Holding, Own, Account, Key
  <2>2. CallFresh(q)
    BY DEF OwnFresh
  <2> QED
    BY <1>1, <1>2, <1>3, <2>1, <2>2 DEF CallFresh, Own
<1> QED
  BY <1>3, <1>5, <1>6, <1>7 DEF OwnFresh, UniqueKeys

LEMMA OwnFreshStep ==
    ASSUME ~Overlap, ~Faults
    PROVE  AuthTypes /\ AuthSound /\ OwnFresh /\ [AuthNext]_authVars
              => OwnFresh'
<1> SUFFICES ASSUME AuthTypes, AuthSound, OwnFresh, [AuthNext]_authVars
             PROVE  OwnFresh'
  OBVIOUS
<1>1. CASE UNCHANGED authVars
  BY <1>1 DEF authVars, OwnFresh, UniqueKeys, OneCall, Serving, CallFresh,
              OwnCached, Own, Current, Untold, Get
<1> QED
  BY <1>1, LookUpOwn, FindOwn, IssueOwn, RegisterOwn, InsertOwn, FillOwn,
     UpdateOwn, WriteStepOwn, DropOwn, StatusOwn, DeleteOwn, MarkOwn,
     RestoreOwn, AbandonOwn, RestartOwn, TickOwn DEF AuthNext

LEMMA OwnFreshInit == AuthInit => OwnFresh
<1> SUFFICES ASSUME AuthInit PROVE OwnFresh
  OBVIOUS
<1>1. /\ \A q \in AuthRequest : call[q].step = "new"
      /\ \A k \in Key : ~Get(k)
  BY DEF AuthInit, NoCall, Get, NoEntry
<1>2. OneCall /\ \A q \in AuthRequest : CallFresh(q)
  BY <1>1 DEF OneCall, Serving, CallFresh
<1>3. OwnCached
  BY <1>1, TypesInit DEF OwnCached, Own, Current, Key, AuthTypes, AuthTypeOK,
                         Account
<1> QED
  BY <1>2, <1>3 DEF AuthInit, OwnFresh

(* With requests served one at a time and no answers lost, what is cached  *)
(* under an account's login or email is, whenever no request is at work,   *)
(* that account in its role and not deleted, or another account that has   *)
(* the word in another column: a login or an email that has passed from    *)
(* one account to another does not find the former's entry.                *)
THEOREM OwnKeysAlwaysCurrent ==
    ASSUME ~Overlap, ~Faults
    PROVE  AuthSpec => []OwnKeysCurrent
<1>1. AuthTypes /\ AuthSound /\ OwnFresh => OwnKeysCurrent
  <2> SUFFICES ASSUME OwnFresh, \A q \in AuthRequest : ~Serving(q),
                      NEW u \in User, account[u].stored,
                      NEW k \in Own(u), Get(k)
               PROVE  LET a == cache[k].user IN
                      IF cache[k].id = u
                      THEN a.role = account[u].role /\ ~account[u].deleted
                      ELSE /\ k \in {a.login, a.email, a.name}
                           /\ k = account[u].login => k # a.login
                           /\ k = account[u].email => k # a.email
    BY DEF OwnKeysCurrent, Own
  <2>1. ~Untold(u)
    BY DEF Untold, Serving
  <2>2. Current(k, u)
    BY <2>1 DEF OwnFresh, OwnCached
  <2> QED
    BY <2>2 DEF Current
<1>2. AuthTypes /\ AuthSound /\ OwnFresh /\ [AuthNext]_authVars => OwnFresh'
  BY OwnFreshStep
<1> QED
  BY <1>1, <1>2, AuthInvariance, OwnFreshInit, PTL DEF AuthSpec
=============================================================================
