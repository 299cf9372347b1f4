----------------------------- MODULE AuthTokens -----------------------------
(***************************************************************************)
(* The credentials of one account after it has signed in: sessions,        *)
(* key-fetch tokens, authorization codes and refresh tokens                *)
(* (services/fxa_token_manager.py, services/oauth_code_manager.py and the  *)
(* routes that use them).  Sessions last until they expire or are          *)
(* destroyed; the other three are for one use.                             *)
(*                                                                         *)
(* One action is one DynamoDB call with the local computation after it.    *)
(* A client that gets no answer may send the same request again, while the *)
(* first one is still being handled.  The nonces that also stand against   *)
(* that are in module HawkAuthentication and are not relied upon here.     *)
(***************************************************************************)
EXTENDS Integers, FiniteSets

CONSTANTS
    Request,        \* concurrent invocations
    Scope,          \* single scopes
    FirstScope,     \* scope of the code the client starts with
    Lifetime,       \* seconds until a credential for one use expires
    SessionLifetime, \* seconds until a session expires
    Lag,            \* seconds after which a read sees a deletion
    MaxRequests,    \* bound: requests
    MaxTime         \* bound: the clock

ASSUME AuthTokenAssumption ==
    /\ FirstScope \subseteq Scope
    /\ {Lifetime, SessionLifetime, Lag, MaxRequests, MaxTime} \subseteq Nat

VARIABLES
    session,    \* SESSION# items, and those destroyed, with the time of it
    keyfetch,   \* KEYFETCH# items
    code,       \* OAUTHCODE# items
    refresh,    \* REFRESH# items
    req,        \* what each invocation is doing
    answered,   \* the answers with status 200
    arrived,    \* requests so far; a new item has the number of its request
    now         \* time.time() in whole seconds

items == <<session, keyfetch, code, refresh>>
vars == <<items, req, answered, arrived, now>>

(* A destroyed session keeps its record here until no read can see it.     *)
Session == [id : Nat, expiry : Nat, gone : Nat \union {-1}]
KeyFetch == [id : Nat, expiry : Nat]

(* A scope of blanks passes for one when a code is asked for, so that the  *)
(* words of it may be none.                                                *)
Code == [id : Nat, scope : SUBSET Scope, expiry : Nat]

(* The family of a refresh token is the code it descends from; the code    *)
(* has no record of it, nor has the token.                                 *)
Refresh == [id : Nat, family : Nat, scope : SUBSET Scope, expiry : Nat]

(* "use session" stands for the fxa-credentials grant, the scoped key data *)
(* and the session status, which change nothing.                           *)
SessionOps == {"authorize", "use session", "sign out"}
Op == SessionOps \union {"exchange", "rotate", "keys", "revoke"}

(* "named" says whether the body of a rotation has a "scope" at all: one   *)
(* that is there and empty asks for none.                                  *)
Work == [op : Op, n : Nat, used : Nat, family : Nat, named : BOOLEAN,
         scope : SUBSET Scope, at : Nat]

Invocation ==
    [pc : {"idle", "hawk", "consume", "account", "put", "delete", "answer"},
     work : Work]

NoWork == [op |-> "keys", n |-> 0, used |-> 0, family |-> 0, named |-> FALSE,
           scope |-> {}, at |-> 0]
Idle == [pc |-> "idle", work |-> NoWork]

(* A client has just signed in and was given a first code. *)
Init ==
    /\ session = {[id |-> 0, expiry |-> SessionLifetime, gone |-> -1]}
    /\ keyfetch = {[id |-> 0, expiry |-> Lifetime]}
    /\ code = {[id |-> 0, scope |-> FirstScope, expiry |-> Lifetime]}
    /\ refresh = {}
    /\ req = [r \in Request |-> Idle]
    /\ answered = {}
    /\ arrived = 0
    /\ now = 0

At(r, label) == req[r].pc = label
Is(r, op) == req[r].work.op = op

Goto(r, label) == req' = [req EXCEPT ![r].pc = label]

Finish(r) == req' = [req EXCEPT ![r] = Idle]

(***************************************************************************)
(* Requests arrive.  They present a credential that was handed out, used   *)
(* or not.  Of those that name a scope, a rotation need not.               *)
(***************************************************************************)
Start(r, op, label, used, named, scope) ==
    /\ At(r, "idle")
    /\ arrived < MaxRequests
    /\ arrived' = arrived + 1
    /\ req' = [req EXCEPT ![r] =
                  [pc |-> label,
                   work |-> [op |-> op, n |-> arrived + 1, used |-> used,
                             family |-> 0, named |-> named, scope |-> scope, at |-> now]]]
    /\ UNCHANGED <<items, answered, now>>

HandedOut(ops) == {x.n : x \in {y \in answered : y.op \in ops}}

ArriveAuthorize(r) ==
    \E s \in SUBSET Scope : Start(r, "authorize", "hawk", 0, TRUE, s)

ArriveUseSession(r) == Start(r, "use session", "hawk", 0, FALSE, {})

ArriveSignOut(r) == Start(r, "sign out", "hawk", 0, FALSE, {})

ArriveWithKeyFetch(r) == Start(r, "keys", "consume", 0, FALSE, {})

ArriveWithCode(r) ==
    \E c \in HandedOut({"authorize"}) \union {0} :
        Start(r, "exchange", "consume", c, FALSE, {})

ArriveWithRefresh(r) ==
    \E t \in HandedOut({"exchange", "rotate"}) :
        \/ \E s \in SUBSET Scope : Start(r, "rotate", "consume", t, TRUE, s)
        \/ Start(r, "rotate", "consume", t, FALSE, {})
        \/ Start(r, "revoke", "delete", t, FALSE, {})

(***************************************************************************)
(* Session Hawk                                                            *)
(***************************************************************************)
(* get_item without ConsistentRead: a session that was just destroyed may  *)
(* still be there.                                                         *)
Readable(s) == s.gone = -1 \/ now <= s.gone + Lag

(* Where each route goes after verify_session_hawk; session_status needs   *)
(* nothing else.                                                           *)
AfterHawk(op) ==
    CASE op = "authorize"   -> {"put"}
      [] op = "use session" -> {"account", "answer"}
      [] op = "sign out"    -> {"delete"}

(* 401 without a session, after its expiry or with a wrong MAC. *)
VerifySession(r) ==
    /\ At(r, "hawk")
    /\ \/ /\ \E s \in session :
                s.id = req[r].work.used /\ Readable(s) /\ ~(s.expiry < now)
          /\ \E label \in AfterHawk(req[r].work.op) : Goto(r, label)
       \/ Finish(r)
    /\ UNCHANGED <<items, answered, arrived, now>>

(* A slip: signing out reads the session and leaves it. *)
DestroyNothing(r) ==
    /\ At(r, "delete") /\ Is(r, "sign out")
    /\ Goto(r, "answer")
    /\ UNCHANGED <<items, answered, arrived, now>>

DestroySession(r) ==
    /\ At(r, "delete") /\ Is(r, "sign out")
    /\ session' = {IF s.id = req[r].work.used /\ s.gone = -1
                      THEN [s EXCEPT !.gone = now] ELSE s : s \in session}
    /\ Goto(r, "answer")
    /\ UNCHANGED <<keyfetch, code, refresh, answered, arrived, now>>

(***************************************************************************)
(* Credentials for one use.  delete_item on condition that the item exists *)
(* returns what it deleted; everything else is checked afterwards.         *)
(***************************************************************************)
Gone(r, set) == ~ \E i \in set : i.id = req[r].work.used

(* A slip: the key-fetch token is only read. *)
ReadKeyFetch(r) ==
    /\ At(r, "consume") /\ Is(r, "keys")
    /\ \/ \E k \in keyfetch : ~(k.expiry < now) /\ Goto(r, "account")
       \/ Finish(r)
    /\ UNCHANGED <<items, answered, arrived, now>>

(* verify_keyfetch_hawk; a wrong MAC is found after the deletion. *)
ConsumeKeyFetch(r) ==
    /\ At(r, "consume") /\ Is(r, "keys")
    /\ \/ Gone(r, keyfetch) /\ Finish(r) /\ UNCHANGED keyfetch
       \/ \E k \in keyfetch :
             /\ k.id = req[r].work.used
             /\ keyfetch' = keyfetch \ {k}
             /\ \/ ~(k.expiry < now) /\ Goto(r, "account")
                \/ Finish(r)
    /\ UNCHANGED <<session, code, refresh, answered, arrived, now>>

Granted(r, family, scope) ==
    req' = [req EXCEPT ![r].pc = "account",
                       ![r].work = [@ EXCEPT !.family = family, !.scope = scope]]

(* consume_authorization_code and the PKCE check: errno 172, 174, 169, 175 *)
(* or on with the scope of the code.                                       *)
ConsumeCode(r) ==
    /\ At(r, "consume") /\ Is(r, "exchange")
    /\ \/ Gone(r, code) /\ Finish(r) /\ UNCHANGED code
       \/ \E c \in code :
             /\ c.id = req[r].work.used
             /\ code' = code \ {c}
             /\ \/ ~(c.expiry < now) /\ Granted(r, c.id, c.scope)
                \/ Finish(r)
    /\ UNCHANGED <<session, keyfetch, refresh, answered, arrived, now>>

(* The scope of the new tokens.  The default is for a body without the     *)
(* key: a named scope without a word in it is a subset like another, and   *)
(* the token that comes of it is for nothing.                              *)
Wanted(r, t) == IF req[r].work.named THEN req[r].work.scope ELSE t.scope

(* A slip: the refresh token is looked up with get_refresh_token. *)
ReadRefresh(r) ==
    /\ At(r, "consume") /\ Is(r, "rotate")
    /\ \/ \E t \in refresh :
             /\ t.id = req[r].work.used
             /\ ~(t.expiry < now) /\ Wanted(r, t) \subseteq t.scope
             /\ Granted(r, t.family, Wanted(r, t))
       \/ Finish(r)
    /\ UNCHANGED <<items, answered, arrived, now>>

(* A slip: the requested scope is not compared with the granted one. *)
ConsumeRefreshAnyScope(r) ==
    /\ At(r, "consume") /\ Is(r, "rotate")
    /\ \E t \in refresh :
          /\ t.id = req[r].work.used
          /\ refresh' = refresh \ {t}
          /\ ~(t.expiry < now)
          /\ Granted(r, t.family, Wanted(r, t))
    /\ UNCHANGED <<session, keyfetch, code, answered, arrived, now>>

(* consume_refresh_token, then the scope: errno 182 or 163. *)
ConsumeRefresh(r) ==
    /\ At(r, "consume") /\ Is(r, "rotate")
    /\ \/ Gone(r, refresh) /\ Finish(r) /\ UNCHANGED refresh
       \/ \E t \in refresh :
             /\ t.id = req[r].work.used
             /\ refresh' = refresh \ {t}
             /\ IF ~(t.expiry < now) /\ Wanted(r, t) \subseteq t.scope
                   THEN Granted(r, t.family, Wanted(r, t))
                   ELSE Finish(r)
    /\ UNCHANGED <<session, keyfetch, code, answered, arrived, now>>

(***************************************************************************)
(* The rest of the routes                                                  *)
(***************************************************************************)
(* get_account_by_uid, on a replica that may not know the account yet.     *)
GetAccount(r, ops, label) ==
    /\ At(r, "account") /\ req[r].work.op \in ops
    /\ Finish(r) \/ Goto(r, label)
    /\ UNCHANGED <<items, answered, arrived, now>>

(* A slip: the fxa-credentials grant ends with a refresh token, as the     *)
(* other grants do.                                                        *)
GetAccountThenPut(r) == GetAccount(r, {"use session"}, "put")

(* The fxa-credentials grant and the scoped key data answer from it. *)
GetAccountOfSession(r) == GetAccount(r, {"use session"}, "answer")

(* The keys are encrypted for the client. *)
GetAccountOfKeys(r) == GetAccount(r, {"keys"}, "answer")

(* The access token is signed; a refresh token comes next. *)
GetAccountOfGrant(r) == GetAccount(r, {"exchange", "rotate"}, "put")

PutCode(r) ==
    /\ At(r, "put") /\ Is(r, "authorize")
    /\ code' = code \union {[id |-> req[r].work.n, scope |-> req[r].work.scope,
                             expiry |-> now + Lifetime]}
    /\ Goto(r, "answer")
    /\ UNCHANGED <<session, keyfetch, refresh, answered, arrived, now>>

PutRefresh(r) ==
    /\ At(r, "put") /\ req[r].work.op \in {"exchange", "rotate"}
    /\ refresh' = refresh \union
          {[id |-> req[r].work.n, family |-> req[r].work.family,
            scope |-> req[r].work.scope, expiry |-> now + Lifetime]}
    /\ Goto(r, "answer")
    /\ UNCHANGED <<session, keyfetch, code, answered, arrived, now>>

(* A slip: the key is made of the token instead of its hash. *)
RevokeNothing(r) ==
    /\ At(r, "delete") /\ Is(r, "revoke")
    /\ Goto(r, "answer")
    /\ UNCHANGED <<items, answered, arrived, now>>

(* oauth_destroy deletes, whether or not the token is still there. *)
Revoke(r) ==
    /\ At(r, "delete") /\ Is(r, "revoke")
    /\ refresh' = {t \in refresh : t.id # req[r].work.used}
    /\ Goto(r, "answer")
    /\ UNCHANGED <<session, keyfetch, code, answered, arrived, now>>

(* The client has what it asked for.  On record with it: the requests and  *)
(* the time so far.                                                        *)
Answer(r) ==
    /\ At(r, "answer")
    /\ answered' = answered \union
          {[op |-> req[r].work.op, n |-> req[r].work.n, used |-> req[r].work.used,
            family |-> req[r].work.family, scope |-> req[r].work.scope,
            at |-> req[r].work.at, before |-> arrived, done |-> now]}
    /\ Finish(r)
    /\ UNCHANGED <<items, arrived, now>>

(* An invocation dies, a call of it raises, or its answer is lost. *)
Crash(r) ==
    /\ ~At(r, "idle")
    /\ Finish(r)
    /\ UNCHANGED <<items, answered, arrived, now>>

(* DynamoDB deletes expired items, sooner or later.  Until then they are   *)
(* refused, so that it does not matter which go first.                     *)
Fresh(set) == {i \in set : ~(i.expiry < now)}

Sweep ==
    /\ session' = Fresh(session)
    /\ keyfetch' = Fresh(keyfetch)
    /\ code' = Fresh(code)
    /\ refresh' = Fresh(refresh)
    /\ UNCHANGED <<req, answered, arrived, now>>

Tick ==
    /\ now < MaxTime
    /\ now' = now + 1
    /\ UNCHANGED <<items, req, answered, arrived>>

Arrive(r) ==
    \/ ArriveAuthorize(r) \/ ArriveUseSession(r) \/ ArriveSignOut(r)
    \/ ArriveWithKeyFetch(r) \/ ArriveWithCode(r) \/ ArriveWithRefresh(r)

Consume(r) == ConsumeKeyFetch(r) \/ ConsumeCode(r) \/ ConsumeRefresh(r)

Handle(r) ==
    \/ VerifySession(r) \/ DestroySession(r) \/ Consume(r)
    \/ GetAccountOfSession(r) \/ GetAccountOfKeys(r) \/ GetAccountOfGrant(r)
    \/ PutCode(r) \/ PutRefresh(r) \/ Revoke(r) \/ Answer(r)

Next ==
    \/ \E r \in Request : Arrive(r) \/ Handle(r) \/ Crash(r)
    \/ Sweep \/ Tick

Spec == Init /\ [][Next]_vars

(***************************************************************************)
(* Properties                                                              *)
(***************************************************************************)
Answered == [op : Op, n : Nat, used : Nat, family : Nat, scope : SUBSET Scope,
             at : Nat, before : Nat, done : Nat]

(* The calls that a request for op makes. *)
StepsOf(op) ==
    CASE op = "authorize"              -> {"hawk", "put"}
      [] op = "use session"            -> {"hawk", "account"}
      [] op = "sign out"               -> {"hawk", "delete"}
      [] op \in {"exchange", "rotate"} -> {"consume", "account", "put"}
      [] op = "keys"                   -> {"consume", "account"}
      [] op = "revoke"                 -> {"delete"}

OnRoute(q) == q.pc \in {"idle", "answer"} \union StepsOf(q.work.op)

(* Items, requests and answers have their fields, and a request is at a    *)
(* call that its route makes.                                              *)
TypeOK ==
    /\ session \subseteq Session
    /\ keyfetch \subseteq KeyFetch
    /\ code \subseteq Code
    /\ refresh \subseteq Refresh
    /\ req \in [Request -> Invocation]
    /\ \A r \in Request : OnRoute(req[r])
    /\ answered \subseteq Answered
    /\ {arrived, now} \subseteq Nat

(* A code, a key-fetch token and a refresh token are good for one answer,  *)
(* however many requests present it at once and wherever they die          *)
(* ("Consume an authorization code (single-use) atomically",               *)
(* oauth_code_manager.py:71).                                              *)
UsedOnce ==
    \A x, y \in answered :
        /\ x.op \in {"exchange", "rotate", "keys"}
        /\ y.op = x.op
        /\ y.used = x.used
        => x = y

(* The refresh tokens that descend from one code never become two: a       *)
(* rotation replaces its token also when it is sent twice or races its     *)
(* own revocation.                                                         *)
RotationNeverForks == \A t, u \in refresh : t.family = u.family => t = u

(* A scope that a rotation gave up does not come back: the live token of a *)
(* family has no scope that an answer of the family was without.           *)
ScopeOnlyNarrows ==
    \A t \in refresh, x \in answered :
        x.op \in {"exchange", "rotate"} /\ x.family = t.family => t.scope \subseteq x.scope

(* A refresh token whose revocation was answered gives nothing to a        *)
(* request that arrives later.                                             *)
RevokedIsRefused ==
    \A x, y \in answered :
        x.op = "revoke" /\ y.op = "rotate" /\ y.used = x.used => y.n <= x.before

(* A session that was signed out gives nothing to a request that arrives   *)
(* once reads have caught up.                                              *)
SignedOutIsRefused ==
    \A x, y \in answered :
        x.op = "sign out" /\ y.op \in SessionOps /\ y.used = x.used
            => y.at <= x.done + Lag
=============================================================================
