---------------------------- MODULE AuthAccounts ----------------------------
(***************************************************************************)
(* Accounts of the auth server (services/auth_account_manager.py and the   *)
(* routes account_create, account_login, account_status, oidc_exchange and *)
(* get_profile).  An account is three DynamoDB items: EMAIL#address and    *)
(* OIDCSUB#subject name the uid, ACCOUNT#uid holds the rest.  They are     *)
(* written one after the other, without a transaction, and a write that    *)
(* fails is followed by deletions of what was written before it.           *)
(*                                                                         *)
(* One action is one DynamoDB call with the local computation after it.    *)
(* A call that raises may have taken effect before.  A call that is not    *)
(* in a condition reads whatever version of an item a replica still has.   *)
(***************************************************************************)
EXTENDS Integers, FiniteSets

CONSTANTS
    Request,         \* concurrent invocations
    Email,           \* normalised addresses
    Subject,         \* OIDC subjects
    None,            \* no item, or no value
    LegacyEmail,     \* address of an account without its OIDCSUB item, or None
    LegacySubject,   \* its subject, or None when it has none on record
    MaxRequests,     \* bound: requests
    MaxFailures      \* bound: calls that raise

Uid == Nat

ASSUME AccountAssumption ==
    /\ None \notin Uid \union Email \union Subject
    /\ Email \intersect Subject = {}       \* keys of different items differ
    /\ LegacyEmail \in Email \union {None}
    /\ LegacySubject \in Subject \union {None}
    /\ {MaxRequests, MaxFailures} \subseteq Nat

VARIABLES
    email,      \* EMAIL#address: the uid, or None
    subject,    \* OIDCSUB#subject: the uid, or None
    account,    \* the items ACCOUNT#uid
    token,      \* session and key-fetch tokens: their kind and uid
    seen,       \* every value the EMAIL and OIDCSUB items have had
    req,        \* what each invocation is doing
    answered,   \* the answers with status 200 that name a uid
    lost,       \* uids whose registration died or failed ambiguously
    arrived,    \* requests so far; a new uid is the number of its request
    failed      \* calls that raised so far

items == <<email, subject, account, token, seen>>
vars == <<email, subject, account, token, seen, req, answered, lost, arrived, failed>>

Account == [uid : Uid, email : Email, subject : Subject \union {None}]

Creating == {"email", "subject", "account", "drop email", "drop both", "drop subject"}

(* A request: the route, its next call, its arguments and the uid it has.  *)
Invocation ==
    [op : {"create", "login", "status", "profile"},
     pc : Creating \union {"idle", "find", "by uid", "by subject", "fetch",
                           "backfill", "session", "keys", "answer"},
     email : Email \union {None}, subject : Subject \union {None},
     uid : Uid \union {None}]

Idle == [op |-> "status", pc |-> "idle", email |-> None, subject |-> None,
         uid |-> None]

(* At first there is nothing, or one account from before the OIDCSUB items. *)
Init ==
    /\ account = IF LegacyEmail = None THEN {}
                 ELSE {[uid |-> 0, email |-> LegacyEmail, subject |-> LegacySubject]}
    /\ email = [e \in Email |-> IF e = LegacyEmail THEN 0 ELSE None]
    /\ subject = [s \in Subject |-> None]
    /\ token = {}
    /\ seen = {}
    /\ req = [r \in Request |-> Idle]
    /\ answered = {}
    /\ lost = {}
    /\ arrived = 0
    /\ failed = 0

At(r, label) == req[r].pc = label

Goto(r, label) == req' = [req EXCEPT ![r].pc = label]

Finish(r) == req' = [req EXCEPT ![r] = Idle]

(***************************************************************************)
(* Requests arrive                                                         *)
(***************************************************************************)
Start(r, q) ==
    /\ At(r, "idle")
    /\ arrived < MaxRequests
    /\ arrived' = arrived + 1
    /\ req' = [req EXCEPT ![r] = q]
    /\ UNCHANGED <<items, answered, lost, failed>>

(* POST /v1/account/create, with a valid OIDC token; the uid is random.    *)
ArriveCreate(r) ==
    \E e \in Email, s \in Subject :
        Start(r, [op |-> "create", pc |-> "email", email |-> e, subject |-> s,
                  uid |-> arrived + 1])

ArriveByEmail(r, op) ==
    \E e \in Email : Start(r, [Idle EXCEPT !.op = op, !.pc = "find", !.email = e])

(* POST /v1/account/login *)
ArriveLogin(r) == ArriveByEmail(r, "login")

(* GET /v1/account/status *)
ArriveStatus(r) == ArriveByEmail(r, "status")

(* POST /v1/oidc/exchange, once the provider has named an address: it asks *)
(* the same question as a status query.                                    *)
ArriveExchange(r) == ArriveByEmail(r, "status")

(* GET /v1/profile with an access token of an account: it names the        *)
(* subject and, since tokens carry it, the uid.                            *)
ArriveProfile(r) ==
    \E a \in account :
        /\ a.subject # None
        /\ \E u \in {a.uid, None} :
              Start(r, [op |-> "profile", email |-> None, subject |-> a.subject,
                        pc |-> IF u = None THEN "by subject" ELSE "by uid",
                        uid |-> u])

(***************************************************************************)
(* create_account                                                          *)
(***************************************************************************)
SetEmail(e, v) ==
    /\ email' = [email EXCEPT ![e] = v]
    /\ seen' = seen \union {<<e, email[e]>>}

SetSubject(s, v) ==
    /\ subject' = [subject EXCEPT ![s] = v]
    /\ seen' = seen \union {<<s, subject[s]>>}

(* A slip: the put has no condition. *)
PutEmailAnyway(r) ==
    /\ At(r, "email")
    /\ SetEmail(req[r].email, req[r].uid)
    /\ Goto(r, "subject")
    /\ UNCHANGED <<subject, account, token, answered, lost, arrived, failed>>

(* A slip: a conflict is settled by naming the account that has the        *)
(* address under the new subject.                                          *)
PutEmailOrLink(r) ==
    /\ At(r, "email")
    /\ IF email[req[r].email] = None
          THEN /\ SetEmail(req[r].email, req[r].uid)
               /\ Goto(r, "subject")
               /\ UNCHANGED subject
          ELSE /\ SetSubject(req[r].subject, email[req[r].email])
               /\ Finish(r)
               /\ UNCHANGED email
    /\ UNCHANGED <<account, token, answered, lost, arrived, failed>>

(* 1. EMAIL#, only if the address is free; otherwise 400 "Account already  *)
(* exists".                                                                *)
PutEmail(r) ==
    /\ At(r, "email")
    /\ IF email[req[r].email] = None
          THEN /\ SetEmail(req[r].email, req[r].uid)
               /\ Goto(r, "subject")
          ELSE /\ Finish(r)
               /\ UNCHANGED <<email, seen>>
    /\ UNCHANGED <<subject, account, token, answered, lost, arrived, failed>>

(* A slip: the tokens are put before ACCOUNT#. *)
PutSubjectThenTokens(r) ==
    /\ At(r, "subject")
    /\ SetSubject(req[r].subject, req[r].uid)
    /\ Goto(r, "session")
    /\ UNCHANGED <<email, account, token, answered, lost, arrived, failed>>

(* 2. OIDCSUB#, whoever had it. *)
PutSubject(r) ==
    /\ At(r, "subject")
    /\ SetSubject(req[r].subject, req[r].uid)
    /\ Goto(r, "account")
    /\ UNCHANGED <<email, account, token, answered, lost, arrived, failed>>

NewAccount(r) ==
    [uid |-> req[r].uid, email |-> req[r].email, subject |-> req[r].subject]

(* 3. ACCOUNT#. *)
PutAccount(r) ==
    /\ At(r, "account")
    /\ account' = account \union {NewAccount(r)}
    /\ Goto(r, "session")
    /\ UNCHANGED <<email, subject, token, seen, answered, lost, arrived, failed>>

(* The clean-up deletes EMAIL# and, when ACCOUNT# failed, OIDCSUB#, without *)
(* looking whose they are by now; then the exception is raised again.      *)
AfterDropEmail(r) ==
    IF At(r, "drop both") THEN Goto(r, "drop subject") ELSE Finish(r)

(* A slip: the clean-up after ACCOUNT# failed stops at OIDCSUB#. *)
DropEmailNever(r) ==
    /\ req[r].pc \in {"drop email", "drop both"}
    /\ AfterDropEmail(r)
    /\ UNCHANGED <<items, answered, lost, arrived, failed>>

DropEmail(r) ==
    /\ req[r].pc \in {"drop email", "drop both"}
    /\ SetEmail(req[r].email, None)
    /\ AfterDropEmail(r)
    /\ UNCHANGED <<subject, account, token, answered, lost, arrived, failed>>

DropSubject(r) ==
    /\ At(r, "drop subject")
    /\ SetSubject(req[r].subject, None)
    /\ Finish(r)
    /\ UNCHANGED <<email, account, token, answered, lost, arrived, failed>>

(***************************************************************************)
(* A call of create_account raises.  In the first alternative of each it   *)
(* had no effect, in the second it had and only its answer is missing.     *)
(***************************************************************************)
CallFails ==
    /\ failed < MaxFailures
    /\ failed' = failed + 1
    /\ UNCHANGED <<token, answered, arrived>>

Lose(r) == lost' = lost \union {req[r].uid}

PutEmailFails(r) ==
    /\ At(r, "email")
    /\ CallFails
    /\ \/ UNCHANGED <<email, seen, lost>>
       \/ /\ email[req[r].email] = None
          /\ SetEmail(req[r].email, req[r].uid)
          /\ Lose(r)
    /\ Finish(r)
    /\ UNCHANGED <<subject, account>>

PutSubjectFails(r) ==
    /\ At(r, "subject")
    /\ CallFails
    /\ \/ UNCHANGED <<subject, seen, lost>>
       \/ SetSubject(req[r].subject, req[r].uid) /\ Lose(r)
    /\ Goto(r, "drop email")
    /\ UNCHANGED <<email, account>>

PutAccountFails(r) ==
    /\ At(r, "account")
    /\ CallFails
    /\ \/ UNCHANGED <<account, lost>>
       \/ account' = account \union {NewAccount(r)} /\ Lose(r)
    /\ Goto(r, "drop both")
    /\ UNCHANGED <<email, subject, seen>>

(* A deletion that raises is logged and the clean-up goes on. *)
DropEmailFails(r) ==
    /\ req[r].pc \in {"drop email", "drop both"}
    /\ CallFails
    /\ \/ UNCHANGED <<email, seen>> /\ Lose(r)
       \/ SetEmail(req[r].email, None) /\ UNCHANGED lost
    /\ AfterDropEmail(r)
    /\ UNCHANGED <<subject, account>>

DropSubjectFails(r) ==
    /\ At(r, "drop subject")
    /\ CallFails
    /\ \/ UNCHANGED <<subject, seen>> /\ Lose(r)
       \/ SetSubject(req[r].subject, None) /\ UNCHANGED lost
    /\ Finish(r)
    /\ UNCHANGED <<email, account>>

(***************************************************************************)
(* Lookups, login and the tokens at the end                                *)
(***************************************************************************)
(* get_item without ConsistentRead. *)
Versions(k, current) == {current} \union {p[2] : p \in {q \in seen : q[1] = k}}

(* A slip: a status query is answered from the EMAIL# item alone. *)
FetchUnlessStatus(r, u) ==
    IF u = None /\ req[r].op # "status" THEN Finish(r)
    ELSE req' = [req EXCEPT ![r].pc = IF req[r].op = "status" THEN "answer" ELSE "fetch",
                            ![r].uid = u]

(* Continue with the item ACCOUNT#u, or stop when there was no item. *)
FetchOrStop(r, u) ==
    IF u = None THEN Finish(r)
    ELSE req' = [req EXCEPT ![r].pc = "fetch", ![r].uid = u]

GetEmail(r) ==
    /\ At(r, "find")
    /\ \E u \in Versions(req[r].email, email[req[r].email]) : FetchOrStop(r, u)
    /\ UNCHANGED <<items, answered, lost, arrived, failed>>

GetSubject(r) ==
    /\ At(r, "by subject")
    /\ \E u \in Versions(req[r].subject, subject[req[r].subject]) : FetchOrStop(r, u)
    /\ UNCHANGED <<items, answered, lost, arrived, failed>>

(* The uid of the access token is tried first, then its subject. *)
GetAccountOfToken(r) ==
    /\ At(r, "by uid")
    /\ \/ /\ \E a \in account : a.uid = req[r].uid
          /\ Goto(r, "answer")
       \/ Goto(r, "by subject")
    /\ UNCHANGED <<items, answered, lost, arrived, failed>>

(* After get_account_by_uid found the account: a login with the right      *)
(* password goes on with the subject on record.                            *)
Fetched(r, a) ==
    IF req[r].op # "login" THEN Goto(r, "answer")
    ELSE req' = [req EXCEPT ![r].pc = IF a.subject = None THEN "session" ELSE "backfill",
                            ![r].subject = a.subject]

(* No item yet at this replica, or a wrong password. *)
GetAccount(r) ==
    /\ At(r, "fetch")
    /\ \/ Finish(r)
       \/ \E a \in account : a.uid = req[r].uid /\ Fetched(r, a)
    /\ UNCHANGED <<items, answered, lost, arrived, failed>>

(* ensure_oidcsub_record: only if there is none. *)
Backfill(r) ==
    /\ At(r, "backfill")
    /\ IF subject[req[r].subject] = None
          THEN SetSubject(req[r].subject, req[r].uid)
          ELSE UNCHANGED <<subject, seen>>
    /\ Goto(r, "session")
    /\ UNCHANGED <<email, account, token, answered, lost, arrived, failed>>

PutToken(r, kind) ==
    /\ token' = token \union {<<kind, req[r].uid>>}
    /\ UNCHANGED <<email, subject, account, seen, answered, lost, arrived, failed>>

(* A login has a key-fetch token only with ?keys=true. *)
PutSession(r) ==
    /\ At(r, "session")
    /\ Goto(r, "keys") \/ (req[r].op = "login" /\ Goto(r, "answer"))
    /\ PutToken(r, "session")

PutKeyFetch(r) ==
    /\ At(r, "keys")
    /\ Goto(r, "answer")
    /\ PutToken(r, "keyfetch")

Answer(r) ==
    /\ At(r, "answer")
    /\ answered' = answered \union
          {[op |-> req[r].op, email |-> req[r].email,
            subject |-> req[r].subject, uid |-> req[r].uid]}
    /\ Finish(r)
    /\ UNCHANGED <<items, lost, arrived, failed>>

(* An invocation dies, or another call of it raises.  One that was in the  *)
(* middle of create_account leaves what it wrote.                          *)
Crash(r) ==
    /\ ~At(r, "idle")
    /\ IF req[r].pc \in Creating \ {"email"} THEN Lose(r) ELSE UNCHANGED lost
    /\ Finish(r)
    /\ UNCHANGED <<items, answered, arrived, failed>>

Create(r) ==
    \/ PutEmail(r) \/ PutSubject(r) \/ PutAccount(r)
    \/ DropEmail(r) \/ DropSubject(r)

CreateFails(r) ==
    \/ PutEmailFails(r) \/ PutSubjectFails(r) \/ PutAccountFails(r)
    \/ DropEmailFails(r) \/ DropSubjectFails(r)

Look(r) == GetEmail(r) \/ GetSubject(r) \/ GetAccountOfToken(r) \/ GetAccount(r)

Hand(r) == Backfill(r) \/ PutSession(r) \/ PutKeyFetch(r) \/ Answer(r)

Next ==
    \E r \in Request :
        \/ ArriveCreate(r) \/ ArriveLogin(r) \/ ArriveStatus(r)
        \/ ArriveExchange(r) \/ ArriveProfile(r)
        \/ Create(r) \/ CreateFails(r) \/ Look(r) \/ Hand(r)
        \/ Crash(r)

Spec == Init /\ [][Next]_vars

(***************************************************************************)
(* Properties                                                              *)
(***************************************************************************)
Exists(u) == \E a \in account : a.uid = u

TypeOK ==
    /\ email \in [Email -> Uid \union {None}]
    /\ subject \in [Subject -> Uid \union {None}]
    /\ account \subseteq Account
    /\ token \subseteq {"session", "keyfetch"} \X Uid
    /\ seen \subseteq (Email \union Subject) \X (Uid \union {None})
    /\ req \in [Request -> Invocation]
    /\ answered \subseteq [op : {"create", "login", "status", "profile"},
                           email : Email \union {None},
                           subject : Subject \union {None}, uid : Uid]
    /\ lost \subseteq Uid
    /\ {arrived, failed} \subseteq Nat

(* Whoever was told that an account was created can sign in with it from   *)
(* then on: its address leads to it whatever registrations of the same     *)
(* address or subject run, fail half way and clean up after themselves.    *)
(* The same holds of an account that a login or a status query found,      *)
(* unless its registration failed although ACCOUNT# had been written.      *)
LeadsTo(e, u) == email[e] = u /\ Exists(u)

RegisteredCanSignIn ==
    \A x \in answered :
        x.op # "profile" =>
            LeadsTo(x.email, x.uid) \/ (x.op # "create" /\ x.uid \in lost)

(* "If later writes fail, earlier records are cleaned up to prevent        *)
(* orphans": an address or a subject leads to an account, or to one that   *)
(* is being created, unless that invocation died, a call of it failed      *)
(* without saying whether it took effect, or the clean-up itself failed.   *)
InProgress(u) == \E r \in Request : req[r].pc \in Creating /\ req[r].uid = u

NoOrphans ==
    /\ \A e \in Email : email[e] # None =>
          Exists(email[e]) \/ InProgress(email[e]) \/ email[e] \in lost
    /\ \A s \in Subject : subject[s] # None =>
          Exists(subject[s]) \/ InProgress(subject[s]) \/ subject[s] \in lost

(* A profile is that of an account of the subject in the access token, also *)
(* when several accounts of the subject were created, backfilled and       *)
(* cleaned up, and the uid in the token was not found (get_profile falls   *)
(* back to OIDCSUB#).                                                      *)
ProfileIsOwn ==
    \A x \in answered : x.op = "profile" =>
        \A a \in account : a.uid = x.uid => a.subject = x.subject

(* Tokens are only handed out for accounts that are there, although they   *)
(* are written by the invocation that creates the account.                 *)
TokensHaveAccounts == \A t \in token : Exists(t[2])
=============================================================================
