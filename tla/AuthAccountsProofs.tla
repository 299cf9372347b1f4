------------------------- MODULE AuthAccountsProofs -------------------------
(***************************************************************************)
(* Accounts, for any number of concurrent registrations, logins, lookups,  *)
(* failures and crashes: whoever registered can sign in, nothing is        *)
(* orphaned but by a clean-up that could not finish, a profile is that of  *)
(* the subject, and tokens are for accounts that are there.                *)
(*                                                                         *)
(* The argument is one of ownership.  No call looks at whose item it       *)
(* deletes, but from its first put on, an address leads to the one         *)
(* registration that put it, until that one deletes it: the put is         *)
(* conditional, uids are never used twice, and only an owner deletes.      *)
(* Subjects have no owner, since their put is not conditional; but         *)
(* whatever uid an item OIDCSUB#subject ever named is of that subject.     *)
(***************************************************************************)
EXTENDS AuthAccounts, TLAPS

(* What the items have named, now or before. *)
EmailHad(e, u) == email[e] = u \/ <<e, u>> \in seen
SubjectHad(s, u) == subject[s] = u \/ <<s, u>> \in seen

(* u is of subject s: an item or an account says so. *)
Belongs(u, s) == SubjectHad(s, u) \/ \E a \in account : a.uid = u /\ a.subject = s

(***************************************************************************)
(* The parts of the invariant: requests have what their next call needs.   *)
(***************************************************************************)
Fresh == {"email", "subject", "account"}
Handing == {"session", "keys", "answer"}

Sane(q) ==
    /\ q.pc \in Creating => q.op = "create"
    /\ q.op = "create" =>
          /\ q.pc \in Creating \union Handing
          /\ q.uid \in Uid /\ q.email \in Email /\ q.subject \in Subject
    /\ q.op = "login" =>
          q.pc \in {"find", "fetch", "backfill"} \union Handing /\ q.email \in Email
    /\ q.op = "status" =>
          \/ q.pc = "idle"
          \/ q.pc \in {"find", "fetch", "answer"} /\ q.email \in Email
    /\ q.op = "profile" =>
          q.pc \in {"by uid", "by subject", "fetch", "answer"} /\ q.subject \in Subject
    /\ q.pc \in {"by uid", "fetch", "backfill"} \union Handing => q.uid \in Uid
    /\ q.pc = "backfill" => q.subject \in Subject

(* A registration: what its uid stands for, label by label. *)
Making(q) ==
    /\ \A e \in Email : EmailHad(e, q.uid) => e = q.email /\ q.pc # "email"
    /\ \A s \in Subject : SubjectHad(s, q.uid) =>
          /\ s = q.subject
          /\ q.pc \in {"email", "subject", "drop email"} => q.uid \in lost
    /\ \A a \in account : a.uid = q.uid =>
          /\ a.email = q.email /\ a.subject = q.subject
          /\ q.pc \notin Fresh \union {"drop email"}
          /\ q.pc \in Creating => q.uid \in lost
    /\ q.pc \in {"subject", "account", "drop email", "drop both"} => email[q.email] = q.uid
    /\ q.pc = "drop subject" => email[q.email] # q.uid \/ q.uid \in lost
    /\ q.pc \in Fresh \union Handing => q.uid \notin lost
    /\ q.pc \in Handing => Exists(q.uid) /\ EmailHad(q.email, q.uid)

(* A lookup: where the uid was found. *)
Looking(q) ==
    /\ q.op \in {"login", "status"} =>
          /\ q.pc \in {"fetch", "backfill"} \union Handing => EmailHad(q.email, q.uid)
          /\ q.pc \in {"backfill"} \union Handing => Exists(q.uid)
          /\ q.pc = "backfill" => \E a \in account : a.uid = q.uid /\ a.subject = q.subject
    /\ q.op = "profile" /\ q.pc # "by subject" => Belongs(q.uid, q.subject)

(* Uids are the numbers of registrations, so far. *)
Numbered ==
    /\ \A e \in Email : email[e] # None => email[e] <= arrived
    /\ \A s \in Subject : subject[s] # None => subject[s] <= arrived
    /\ \A p \in seen : p[2] # None => p[2] <= arrived
    /\ \A a \in account : a.uid <= arrived
    /\ \A u \in lost : u <= arrived
    /\ \A x \in answered : x.uid <= arrived
    /\ \A r \in Request : req[r].op = "create" => req[r].uid <= arrived

(* A uid is that of one registration. *)
Unique ==
    /\ \A r, s \in Request :
          req[r].op = "create" /\ req[s].op = "create" /\ req[r].uid = req[s].uid => r = s
    /\ \A r \in Request, x \in answered :
          req[r].op = "create" /\ x.op = "create" => req[r].uid # x.uid

(* An account is found by its address, and by no other subject. *)
Found ==
    /\ \A a, b \in account : a.uid = b.uid => a = b
    /\ \A a \in account, e \in Email :
          EmailHad(e, a.uid) => email[e] = a.uid \/ a.uid \in lost
    /\ \A a \in account, s \in Subject : SubjectHad(s, a.uid) => a.subject = s

(* What was answered was found. *)
Told ==
    \A x \in answered :
        /\ x.op = "profile" => x.subject \in Subject /\ Belongs(x.uid, x.subject)
        /\ x.op # "profile" =>
              x.email \in Email /\ EmailHad(x.email, x.uid) /\ Exists(x.uid)
        /\ x.op = "create" => x.uid \notin lost

RequestOK(q) == Sane(q) /\ (q.op = "create" => Making(q)) /\ Looking(q)

Requests == \A r \in Request : RequestOK(req[r])

IInv ==
    /\ TypeOK
    /\ Requests
    /\ Numbered
    /\ Unique
    /\ Found
    /\ Told
    /\ NoOrphans
    /\ TokensHaveAccounts

-----------------------------------------------------------------------------
(***************************************************************************)
(* What a step may do to the items.                                        *)
(***************************************************************************)
(* No history is forgotten, and no account. *)
Grows ==
    /\ \A e \in Email, v \in Uid : EmailHad(e, v) => EmailHad(e, v)'
    /\ \A s \in Subject, v \in Uid : SubjectHad(s, v) => SubjectHad(s, v)'
    /\ account \subseteq account'
    /\ lost \subseteq lost'

(* Only uid u is written, and an address changes only from or to u. *)
Touches(u) ==
    /\ \A e \in Email : email'[e] # email[e] => {email[e], email'[e]} \subseteq {None, u}
    /\ \A e \in Email, v \in Uid : EmailHad(e, v)' => EmailHad(e, v) \/ v = u
    /\ \A s \in Subject : subject'[s] \in {subject[s], None, u}
    /\ \A s \in Subject, v \in Uid : SubjectHad(s, v)' => SubjectHad(s, v) \/ v = u
    /\ \A a \in account' : a \in account \/ a.uid = u
    /\ \A v \in lost' : v \in lost \/ v = u

(* A step that writes no other uid than u. *)
Writes(u) ==
    /\ Grows /\ Touches(u)
    /\ email' \in [Email -> Uid \union {None}]
    /\ subject' \in [Subject -> Uid \union {None}]
    /\ account' \subseteq Account
    /\ seen' \subseteq (Email \union Subject) \X (Uid \union {None})
    /\ \A p \in seen' : p \in seen \/ p[2] \in {email[e] : e \in Email}
                                    \/ p[2] \in {subject[s] : s \in Subject}
    /\ lost' \subseteq Uid

(* What Found and NoOrphans ask of uid u, busy or not with a registration. *)
Fits(u, busy) ==
    /\ \A a, b \in account : a.uid = u /\ b.uid = u => a = b
    /\ \A a \in account, e \in Email :
          a.uid = u /\ EmailHad(e, u) => email[e] = u \/ u \in lost
    /\ \A a \in account, s \in Subject : a.uid = u /\ SubjectHad(s, u) => a.subject = s
    /\ \A e \in Email : email[e] = u => Exists(u) \/ u \in lost \/ busy
    /\ \A s \in Subject : subject[s] = u => Exists(u) \/ u \in lost \/ busy

(* Addresses and subjects are keys of different items, and no uid is None. *)
LEMMA Keys ==
    /\ None \notin Uid /\ None \notin Email /\ None \notin Subject
    /\ \A e \in Email : e \notin Subject
BY AccountAssumption

(* An idle invocation has nothing to keep. *)
LEMMA IdleSane ==
    /\ Idle \in Invocation /\ Sane(Idle) /\ Looking(Idle)
    /\ Idle.op = "status" /\ Idle.pc = "idle"
BY DEF Idle, Invocation, Sane, Looking, Creating, Handing

(* Request r goes on as q, at label l and otherwise as it was. *)
Moved(r, l, q) ==
    /\ req' = [req EXCEPT ![r] = q]
    /\ q.pc = l /\ q.op = req[r].op /\ q.email = req[r].email
    /\ q.subject = req[r].subject /\ q.uid = req[r].uid

(* Goto changes the label and nothing else. *)
LEMMA GotoMoves ==
    ASSUME TypeOK, NEW r \in Request,
           NEW l, Goto(r, l),
           \/ l \in Creating
           \/ l \in {"idle", "find", "by uid", "by subject", "fetch", "backfill",
                    "session", "keys", "answer"}
    PROVE  \E q \in Invocation : Moved(r, l, q)
<1> DEFINE q == [req[r] EXCEPT !.pc = l]
<1>1. req[r] \in Invocation
  BY DEF TypeOK
<1>2. /\ q \in Invocation /\ q.pc = l /\ q.op = req[r].op /\ q.email = req[r].email
      /\ q.subject = req[r].subject /\ q.uid = req[r].uid
  BY <1>1 DEF Invocation
<1>3. req' = [req EXCEPT ![r] = q]
  BY DEF Goto, TypeOK
<1> QED BY <1>2, <1>3 DEF Moved

(***************************************************************************)
(* One item is written, and its value before becomes history.              *)
(***************************************************************************)
LEMMA EmailSet ==
    ASSUME TypeOK, NEW e \in Email, NEW v \in Uid \union {None}, SetEmail(e, v),
           UNCHANGED subject
    PROVE  /\ \A d \in Email, w \in Uid : EmailHad(d, w)' <=> EmailHad(d, w) \/ (d = e /\ w = v)
           /\ \A s \in Subject, w \in Uid : SubjectHad(s, w)' <=> SubjectHad(s, w)
           /\ \A d \in Email : email'[d] = IF d = e THEN v ELSE email[d]
           /\ email' \in [Email -> Uid \union {None}]
           /\ seen' \subseteq (Email \union Subject) \X (Uid \union {None})
<1> USE Keys DEF TypeOK, SetEmail, EmailHad, SubjectHad
<1>1. \A d \in Email : email'[d] = IF d = e THEN v ELSE email[d]
  OBVIOUS
<1>2. ASSUME NEW d, NEW w
      PROVE  <<d, w>> \in seen' <=> <<d, w>> \in seen \/ (d = e /\ w = email[e])
  OBVIOUS
<1>3. \A d \in Email, w \in Uid : EmailHad(d, w)' <=> EmailHad(d, w) \/ (d = e /\ w = v)
  BY <1>1, <1>2
<1>4. \A s \in Subject, w \in Uid : SubjectHad(s, w)' <=> SubjectHad(s, w)
  BY <1>2
<1>5. email' \in [Email -> Uid \union {None}]
  OBVIOUS
<1>6. seen' \subseteq (Email \union Subject) \X (Uid \union {None})
  <2>1. <<e, email[e]>> \in (Email \union Subject) \X (Uid \union {None})
    OBVIOUS
  <2> QED BY <2>1
<1> QED BY <1>1, <1>3, <1>4, <1>5, <1>6

LEMMA SubjectSet ==
    ASSUME TypeOK, NEW s \in Subject, NEW v \in Uid \union {None}, SetSubject(s, v),
           UNCHANGED email
    PROVE  /\ \A d \in Subject, w \in Uid :
                  SubjectHad(d, w)' <=> SubjectHad(d, w) \/ (d = s /\ w = v)
           /\ \A e \in Email, w \in Uid : EmailHad(e, w)' <=> EmailHad(e, w)
           /\ \A d \in Subject : subject'[d] = IF d = s THEN v ELSE subject[d]
           /\ subject' \in [Subject -> Uid \union {None}]
           /\ seen' \subseteq (Email \union Subject) \X (Uid \union {None})
<1> USE Keys DEF TypeOK, SetSubject, EmailHad, SubjectHad
<1>1. \A d \in Subject : subject'[d] = IF d = s THEN v ELSE subject[d]
  OBVIOUS
<1>2. ASSUME NEW d, NEW w
      PROVE  <<d, w>> \in seen' <=> <<d, w>> \in seen \/ (d = s /\ w = subject[s])
  OBVIOUS
<1>3. \A d \in Subject, w \in Uid : SubjectHad(d, w)' <=> SubjectHad(d, w) \/ (d = s /\ w = v)
  BY <1>1, <1>2
<1>4. \A e \in Email, w \in Uid : EmailHad(e, w)' <=> EmailHad(e, w)
  BY <1>2
<1>5. subject' \in [Subject -> Uid \union {None}]
  OBVIOUS
<1>6. seen' \subseteq (Email \union Subject) \X (Uid \union {None})
  <2>1. <<s, subject[s]>> \in (Email \union Subject) \X (Uid \union {None})
    OBVIOUS
  <2> QED BY <2>1
<1> QED BY <1>1, <1>3, <1>4, <1>5, <1>6

(* Nothing is written. *)
LEMMA NothingSet ==
    ASSUME UNCHANGED <<email, subject, seen>>
    PROVE  /\ \A e, v : EmailHad(e, v)' <=> EmailHad(e, v)
           /\ \A s, v : SubjectHad(s, v)' <=> SubjectHad(s, v)
BY DEF EmailHad, SubjectHad

(***************************************************************************)
(* What is kept by a step that writes another uid.                         *)
(***************************************************************************)
LEMMA MakingKept ==
    ASSUME TypeOK, NEW u \in Uid, Grows, Touches(u),
           NEW q \in Invocation, q.op = "create", Sane(q), q.uid # u, Making(q)
    PROVE  Making(q)'
<1> USE Keys
<1>1. q.uid \in Uid /\ q.email \in Email /\ q.subject \in Subject
  BY DEF Sane
<1>2. \A e \in Email : EmailHad(e, q.uid)' => EmailHad(e, q.uid)
  BY <1>1 DEF Touches
<1>3. \A s \in Subject : SubjectHad(s, q.uid)' => SubjectHad(s, q.uid)
  BY <1>1 DEF Touches
<1>4. \A a \in account' : a.uid = q.uid => a \in account
  BY DEF Touches
<1>5. email'[q.email] = q.uid <=> email[q.email] = q.uid
  BY <1>1 DEF Touches
<1>6. q.uid \in lost' <=> q.uid \in lost
  BY DEF Touches, Grows
<1>7. Exists(q.uid) => Exists(q.uid)'
  BY DEF Exists, Grows
<1>8. EmailHad(q.email, q.uid) => EmailHad(q.email, q.uid)'
  BY <1>1 DEF Grows
<1> QED
  BY <1>1, <1>2, <1>3, <1>4, <1>5, <1>6, <1>7, <1>8 DEF Making

LEMMA LookingKept ==
    ASSUME Grows, NEW q \in Invocation, Sane(q), Looking(q)
    PROVE  Looking(q)'
<1>1. \A u \in Uid : Exists(u) => Exists(u)'
  BY DEF Exists, Grows
<1>2. \A u \in Uid, s \in Subject : Belongs(u, s) => Belongs(u, s)'
  BY DEF Belongs, Grows
<1>3. \A u \in Uid, s \in Subject :
        (\E a \in account : a.uid = u /\ a.subject = s)
          => \E a \in account' : a.uid = u /\ a.subject = s
  BY DEF Grows
<1>4. \A e \in Email, u \in Uid : EmailHad(e, u) => EmailHad(e, u)'
  BY DEF Grows
<1>5. q.pc \in {"by uid", "fetch", "backfill"} \union Handing => q.uid \in Uid
  BY DEF Sane
<1>6. ASSUME q.op \in {"login", "status"}
      PROVE  /\ q.pc \in {"fetch", "backfill"} \union Handing => EmailHad(q.email, q.uid)'
             /\ q.pc \in {"backfill"} \union Handing => Exists(q.uid)'
             /\ q.pc = "backfill" => \E a \in account' : a.uid = q.uid /\ a.subject = q.subject
  <2>1. q.pc \in {"fetch", "backfill"} \union Handing => q.email \in Email
    BY <1>6 DEF Sane, Handing
  <2>2. q.pc = "backfill" => q.subject \in Subject
    BY DEF Sane
  <2> QED BY <1>1, <1>3, <1>4, <1>5, <1>6, <2>1, <2>2 DEF Looking
<1>7. ASSUME q.op = "profile", q.pc # "by subject"
      PROVE  Belongs(q.uid, q.subject)'
  <2>1. q.uid \in Uid /\ q.subject \in Subject
    BY <1>7 DEF Sane, Handing
  <2> QED BY <1>2, <1>7, <2>1 DEF Looking
<1> QED
  BY <1>6, <1>7 DEF Looking

(* The requests after a step of r, which goes on as q. *)
LEMMA RequestsKept ==
    ASSUME TypeOK, Requests, NEW u \in Uid, Grows, Touches(u),
           NEW r \in Request, NEW q \in Invocation, req' = [req EXCEPT ![r] = q],
           Sane(q), q.op = "create" => Making(q)', Looking(q)',
           \A s \in Request \ {r} : req[s].op = "create" => req[s].uid # u
    PROVE  Requests'
<1> SUFFICES ASSUME NEW s \in Request, NEW c, c = req'[s] PROVE RequestOK(c)'
  BY DEF Requests
<1>1. CASE s = r
  BY <1>1 DEF TypeOK, RequestOK
<1>2. CASE s # r
  <2>1. /\ c = req[s] /\ c \in Invocation /\ RequestOK(c)
        /\ c.op = "create" => c.uid # u
    BY <1>2 DEF TypeOK, Requests
  <2>2. c.op = "create" => Making(c)'
    BY <2>1, MakingKept DEF RequestOK
  <2>3. Looking(c)'
    BY <2>1, LookingKept DEF RequestOK
  <2> QED BY <2>1, <2>2, <2>3 DEF RequestOK
<1> QED BY <1>1, <1>2

LEMMA FoundKept ==
    ASSUME TypeOK, Found, NEW u \in Uid, Grows, Touches(u), NEW busy, Fits(u, busy)',
           account' \subseteq Account
    PROVE  Found'
<1> USE Keys
<1>1. \A a \in account' : a.uid # u => a \in account
  BY DEF Touches
<1>2. \A a \in account' : a.uid \in Uid
  BY DEF Account
<1>3. \A a, b \in account' : a.uid = b.uid => a = b
  BY <1>1 DEF Found, Fits
<1>4. ASSUME NEW a \in account', NEW e \in Email, EmailHad(e, a.uid)'
      PROVE  email'[e] = a.uid \/ a.uid \in lost'
  <2>1. CASE a.uid = u
    BY <1>4, <2>1 DEF Fits
  <2>2. CASE a.uid # u
    <3>1. a \in account /\ EmailHad(e, a.uid)
      BY <1>1, <1>2, <1>4, <2>2 DEF Touches
    <3>2. email[e] = a.uid \/ a.uid \in lost
      BY <3>1 DEF Found
    <3>3. email[e] = a.uid => email'[e] = a.uid
      BY <1>2, <2>2 DEF Touches
    <3> QED BY <3>2, <3>3 DEF Grows
  <2> QED BY <2>1, <2>2
<1>5. ASSUME NEW a \in account', NEW s \in Subject, SubjectHad(s, a.uid)'
      PROVE  a.subject = s
  <2>1. CASE a.uid = u
    BY <1>5, <2>1 DEF Fits
  <2>2. CASE a.uid # u
    BY <1>1, <1>2, <1>5, <2>2 DEF Touches, Found
  <2> QED BY <2>1, <2>2
<1> QED BY <1>3, <1>4, <1>5 DEF Found

LEMMA OrphansKept ==
    ASSUME TypeOK, NoOrphans, NEW u \in Uid, Grows, Touches(u),
           NEW r \in Request, NEW q \in Invocation, req' = [req EXCEPT ![r] = q],
           req[r].pc \in Creating => req[r].uid = u,
           q.pc \in Creating => q.uid = u,
           Fits(u, q.pc \in Creating)'
    PROVE  NoOrphans'
<1> USE Keys
<1>1. ASSUME NEW v \in Uid, Exists(v) \/ InProgress(v) \/ v \in lost, v # u
      PROVE  (Exists(v) \/ InProgress(v) \/ v \in lost)'
  <2>1. Exists(v) => Exists(v)'
    BY DEF Exists, Grows
  <2>2. InProgress(v) => InProgress(v)'
    BY <1>1 DEF InProgress, TypeOK
  <2> QED BY <1>1, <2>1, <2>2 DEF Grows
<1>2. q.pc \in Creating => InProgress(u)'
  BY DEF InProgress, TypeOK
<1>3. ASSUME NEW e \in Email, email'[e] # None
      PROVE  (Exists(email[e]) \/ InProgress(email[e]) \/ email[e] \in lost)'
  <2>1. CASE email'[e] = u
    BY <1>2, <2>1 DEF Fits
  <2>2. CASE email'[e] # u
    <3>1. email'[e] = email[e]
      BY <1>3, <2>2 DEF Touches
    <3> QED BY <1>1, <1>3, <2>2, <3>1 DEF NoOrphans, TypeOK
  <2> QED BY <2>1, <2>2
<1>4. ASSUME NEW s \in Subject, subject'[s] # None
      PROVE  (Exists(subject[s]) \/ InProgress(subject[s]) \/ subject[s] \in lost)'
  <2>1. CASE subject'[s] = u
    BY <1>2, <2>1 DEF Fits
  <2>2. CASE subject'[s] # u
    <3>1. subject'[s] = subject[s]
      BY <1>4, <2>2 DEF Touches
    <3> QED BY <1>1, <1>4, <2>2, <3>1 DEF NoOrphans, TypeOK
  <2> QED BY <2>1, <2>2
<1> QED BY <1>3, <1>4 DEF NoOrphans

(***************************************************************************)
(* The calls, as steps that write one uid.                                 *)
(***************************************************************************)
LEMMA EmailWrites ==
    ASSUME TypeOK, NEW u \in Uid, NEW e \in Email, NEW v \in {None, u}, SetEmail(e, v),
           email[e] \in {None, u}, UNCHANGED <<subject, account>>,
           lost' = lost \/ lost' = lost \union {u}
    PROVE  /\ Writes(u)
           /\ \A d \in Email : EmailHad(d, u)' => EmailHad(d, u) \/ d = e
           /\ \A d \in Subject : SubjectHad(d, u)' => SubjectHad(d, u)
<1> USE Keys
<1>1. v \in Uid \union {None} /\ UNCHANGED subject
  OBVIOUS
<1>2. /\ \A d \in Email, w \in Uid : EmailHad(d, w)' <=> EmailHad(d, w) \/ (d = e /\ w = v)
      /\ \A s \in Subject, w \in Uid : SubjectHad(s, w)' <=> SubjectHad(s, w)
      /\ \A d \in Email : email'[d] = IF d = e THEN v ELSE email[d]
      /\ email' \in [Email -> Uid \union {None}]
      /\ seen' \subseteq (Email \union Subject) \X (Uid \union {None})
  BY <1>1, EmailSet
<1>3. Grows
  BY <1>2 DEF Grows
<1>4. Touches(u)
  BY <1>2 DEF Touches
<1>5. \A p \in seen' : p \in seen \/ p[2] = email[e]
  BY DEF SetEmail
<1> QED BY <1>2, <1>3, <1>4, <1>5 DEF Writes, TypeOK

LEMMA SubjectWrites ==
    ASSUME TypeOK, NEW u \in Uid, NEW s \in Subject, NEW v \in {None, u}, SetSubject(s, v),
           UNCHANGED <<email, account>>, lost' = lost \/ lost' = lost \union {u}
    PROVE  /\ Writes(u)
           /\ \A d \in Email : EmailHad(d, u)' => EmailHad(d, u)
           /\ \A d \in Subject : SubjectHad(d, u)' => SubjectHad(d, u) \/ d = s
<1> USE Keys
<1>1. v \in Uid \union {None} /\ UNCHANGED email
  OBVIOUS
<1>2. /\ \A d \in Subject, w \in Uid :
             SubjectHad(d, w)' <=> SubjectHad(d, w) \/ (d = s /\ w = v)
      /\ \A e \in Email, w \in Uid : EmailHad(e, w)' <=> EmailHad(e, w)
      /\ \A d \in Subject : subject'[d] = IF d = s THEN v ELSE subject[d]
      /\ subject' \in [Subject -> Uid \union {None}]
      /\ seen' \subseteq (Email \union Subject) \X (Uid \union {None})
  BY <1>1, SubjectSet
<1>3. Grows
  BY <1>2 DEF Grows
<1>4. Touches(u)
  BY <1>2 DEF Touches
<1>5. \A p \in seen' : p \in seen \/ p[2] = subject[s]
  BY DEF SetSubject
<1> QED BY <1>2, <1>3, <1>4, <1>5 DEF Writes, TypeOK

LEMMA AccountWrites ==
    ASSUME TypeOK, NEW u \in Uid, UNCHANGED <<email, subject, seen>>,
           account' \subseteq Account, account \subseteq account',
           \A a \in account' : a \in account \/ a.uid = u,
           lost' = lost \/ lost' = lost \union {u}
    PROVE  /\ Writes(u)
           /\ \A d \in Email : EmailHad(d, u)' <=> EmailHad(d, u)
           /\ \A d \in Subject : SubjectHad(d, u)' <=> SubjectHad(d, u)
<1>1. Grows
  BY NothingSet DEF Grows
<1>2. Touches(u)
  BY NothingSet DEF Touches
<1> QED BY <1>1, <1>2, NothingSet DEF Writes, TypeOK

-----------------------------------------------------------------------------
(***************************************************************************)
(* A step in which r goes on as q, only uid u is written, and nothing is   *)
(* handed out: whatever is not about the requests is kept.                 *)
(***************************************************************************)
LEMMA WriteStep ==
    ASSUME IInv, NEW r \in Request, NEW u \in Uid, u <= arrived,
           NEW q \in Invocation, req' = [req EXCEPT ![r] = q], Requests',
           q.op = "create" => req[r].op = "create" /\ q.uid = req[r].uid,
           req[r].pc \in Creating => req[r].uid = u, q.pc \in Creating => q.uid = u,
           Writes(u), Fits(u, q.pc \in Creating)', failed' \in Nat,
           \A x \in answered : x.op = "create" /\ x.uid = u => lost' = lost,
           UNCHANGED <<token, answered, arrived>>
    PROVE  IInv'
<1> USE Keys
<1>1. /\ TypeOK /\ Found /\ NoOrphans /\ Grows /\ Touches(u) /\ account' \subseteq Account
      /\ u # None
  BY DEF IInv, Writes
<1>2. \A s \in Request : req'[s].op = "create" =>
         req[s].op = "create" /\ req'[s].uid = req[s].uid
  <2>1. req'[r] = q /\ \A s \in Request \ {r} : req'[s] = req[s]
    BY <1>1 DEF TypeOK
  <2> QED BY <2>1
<1>3. TypeOK'
  <2>1. req' \in [Request -> Invocation]
    BY <1>1 DEF TypeOK
  <2> QED BY <1>1, <2>1 DEF TypeOK, Writes
<1>4. Numbered'
  <2>1. \A e \in Email : email'[e] # None => email'[e] <= arrived
    BY <1>1 DEF Touches, IInv, Numbered
  <2>2. \A s \in Subject : subject'[s] # None => subject'[s] <= arrived
    BY <1>1 DEF Touches, IInv, Numbered
  <2>3. \A p \in seen' : p[2] # None => p[2] <= arrived
    BY DEF IInv, Numbered, Writes
  <2>4. \A a \in account' : a.uid <= arrived
    BY <1>1 DEF Touches, IInv, Numbered
  <2>5. \A v \in lost' : v <= arrived
    BY <1>1 DEF Touches, IInv, Numbered
  <2>6. \A s \in Request : req'[s].op = "create" => req'[s].uid <= arrived
    BY <1>2 DEF IInv, Numbered
  <2> QED BY <2>1, <2>2, <2>3, <2>4, <2>5, <2>6 DEF Numbered, IInv
<1>5. Unique'
  BY <1>2 DEF IInv, Unique
<1>6. Found'
  BY <1>1, FoundKept
<1>7. Told'
  <2>1. \A v \in Uid : Exists(v) => Exists(v)'
    BY <1>1 DEF Exists, Grows
  <2>2. \A v \in Uid, s \in Subject : Belongs(v, s) => Belongs(v, s)'
    BY <1>1 DEF Belongs, Grows
  <2>3. \A e \in Email, v \in Uid : EmailHad(e, v) => EmailHad(e, v)'
    BY <1>1 DEF Grows
  <2>4. \A x \in answered : x.uid \in Uid
    BY <1>1 DEF TypeOK
  <2>5. \A x \in answered : x.op = "create" => x.uid \notin lost'
    BY <1>1 DEF Touches, IInv, Told
  <2> QED BY <2>1, <2>2, <2>3, <2>4, <2>5 DEF IInv, Told
<1>8. NoOrphans'
  BY <1>1, OrphansKept
<1>9. TokensHaveAccounts'
  BY <1>1 DEF IInv, TokensHaveAccounts, Exists, Grows
<1> QED BY <1>3, <1>4, <1>5, <1>6, <1>7, <1>8, <1>9 DEF IInv

(* A step of a registration, which writes only its own uid. *)
LEMMA CreateStep ==
    ASSUME IInv, NEW r \in Request, req[r].op = "create", NEW u \in Uid, u = req[r].uid,
           NEW q \in Invocation, req' = [req EXCEPT ![r] = q],
           q = Idle \/ (q.op = "create" /\ q.uid = u /\ Sane(q) /\ Making(q)'),
           Writes(u), Fits(u, q.pc \in Creating)', failed' \in Nat,
           UNCHANGED <<token, answered, arrived>>
    PROVE  IInv'
<1>1. /\ TypeOK /\ Requests /\ Grows /\ Touches(u) /\ u <= arrived
  BY DEF IInv, Writes, Numbered
<1>2. /\ Sane(q) /\ Looking(q)'
      /\ q.op = "create" => q.uid = u /\ Making(q)'
      /\ q.pc \in Creating => q.op = "create"
  <2>1. CASE q = Idle
    BY <2>1, IdleSane DEF Looking, Handing, Creating
  <2>2. CASE q.op = "create" /\ q.uid = u /\ Sane(q) /\ Making(q)'
    BY <2>2 DEF Looking
  <2> QED BY <2>1, <2>2
<1>3. \A s \in Request \ {r} : req[s].op = "create" => req[s].uid # u
  BY DEF IInv, Unique
<1>4. \A x \in answered : x.op = "create" => x.uid # u
  BY DEF IInv, Unique
<1>5. Requests'
  BY <1>1, <1>2, <1>3, RequestsKept
<1> QED BY <1>1, <1>2, <1>4, <1>5, WriteStep

LEMMA SameAccount ==
    ASSUME NEW a \in Account, NEW b \in Account,
           a.uid = b.uid, a.email = b.email, a.subject = b.subject
    PROVE  a = b
BY DEF Account

LEMMA FailureCounted == ASSUME TypeOK, CallFails PROVE failed' \in Nat
BY DEF TypeOK, CallFails

(* What is known of a registration in the middle of create_account. *)
LEMMA Registration ==
    ASSUME IInv, NEW r \in Request, req[r].pc \in Creating
    PROVE  /\ TypeOK /\ req[r] \in Invocation /\ req[r].op = "create"
           /\ Sane(req[r]) /\ Making(req[r])
           /\ req[r].uid \in Uid /\ req[r].email \in Email /\ req[r].subject \in Subject
           /\ req[r] # Idle
BY IdleSane DEF IInv, TypeOK, Requests, RequestOK, Sane, Creating

LEMMA PutEmailStep == ASSUME IInv, NEW r \in Request, PutEmail(r) PROVE IInv'
<1> USE Keys
<1> PICK u \in Uid, e \in Email, s \in Subject :
         u = req[r].uid /\ e = req[r].email /\ s = req[r].subject
  BY Registration DEF PutEmail, At, Creating
<1>1. /\ TypeOK /\ req[r].op = "create" /\ Sane(req[r]) /\ Making(req[r])
      /\ req[r].pc = "email" /\ failed' \in Nat
  BY Registration DEF PutEmail, At, Creating, TypeOK
<1>2. /\ \A a \in account : a.uid # u
      /\ \A d \in Email : ~EmailHad(d, u)
      /\ \A d \in Subject : ~SubjectHad(d, u)
      /\ u \notin lost
  BY <1>1 DEF Making, Fresh, Handing, Creating
<1>3. CASE email[e] = None
  <2>1. SetEmail(e, u) /\ Goto(r, "subject") /\ UNCHANGED <<subject, account, lost>>
    BY <1>3 DEF PutEmail
  <2>2. /\ Writes(u)
        /\ \A d \in Email : EmailHad(d, u)' => EmailHad(d, u) \/ d = e
        /\ \A d \in Subject : SubjectHad(d, u)' => SubjectHad(d, u)
    BY <1>1, <1>3, <2>1, EmailWrites
  <2> PICK q \in Invocation : Moved(r, "subject", q)
    BY <1>1, <2>1, GotoMoves DEF Creating
  <2>3. /\ req' = [req EXCEPT ![r] = q]
        /\ q.pc = "subject" /\ q.op = "create" /\ q.email = e /\ q.subject = s /\ q.uid = u
    BY <1>1, <2>1 DEF Moved
  <2>4. /\ \A d \in Email : EmailHad(d, u)' => d = e
        /\ \A d \in Subject : ~SubjectHad(d, u)'
        /\ email'[e] = u
    BY <1>1, <1>2, <2>1, <2>2 DEF SetEmail, TypeOK
  <2>5. Making(q)'
    BY <1>2, <2>1, <2>3, <2>4 DEF Making, Fresh, Handing, Creating
  <2>6. Fits(u, q.pc \in Creating)'
    BY <1>2, <2>1, <2>3 DEF Fits, Creating
  <2>7. Sane(q)
    BY <2>3 DEF Sane, Creating, Handing
  <2> QED BY <1>1, <2>2, <2>3, <2>5, <2>6, <2>7, CreateStep DEF PutEmail
<1>4. CASE email[e] # None
  <2>1. /\ req' = [req EXCEPT ![r] = Idle]
        /\ UNCHANGED <<email, subject, account, seen, lost>>
    BY <1>4 DEF PutEmail, Finish
  <2>2. Writes(u)
    BY <1>1, <2>1, AccountWrites DEF TypeOK
  <2>3. Fits(u, Idle.pc \in Creating)'
    BY <1>2, <2>1 DEF Fits, EmailHad, SubjectHad
  <2> QED BY <1>1, <2>1, <2>2, <2>3, IdleSane, CreateStep DEF PutEmail
<1> QED BY <1>3, <1>4

LEMMA PutSubjectStep == ASSUME IInv, NEW r \in Request, PutSubject(r) PROVE IInv'
<1> USE Keys
<1> PICK u \in Uid, e \in Email, s \in Subject :
         u = req[r].uid /\ e = req[r].email /\ s = req[r].subject
  BY Registration DEF PutSubject, At, Creating
<1>1. /\ TypeOK /\ req[r].op = "create" /\ Sane(req[r]) /\ Making(req[r])
      /\ req[r].pc = "subject" /\ failed' \in Nat
      /\ SetSubject(s, u) /\ Goto(r, "account") /\ UNCHANGED <<email, account, lost>>
  BY Registration DEF PutSubject, At, Creating, TypeOK
<1>2. /\ \A a \in account : a.uid # u
      /\ \A d \in Email : EmailHad(d, u) => d = e
      /\ \A d \in Subject : ~SubjectHad(d, u)
      /\ u \notin lost /\ email[e] = u
  BY <1>1 DEF Making, Fresh, Handing, Creating
<1>3. /\ Writes(u)
      /\ \A d \in Email : EmailHad(d, u)' => EmailHad(d, u)
      /\ \A d \in Subject : SubjectHad(d, u)' => SubjectHad(d, u) \/ d = s
  BY <1>1, SubjectWrites
<1> PICK q \in Invocation : Moved(r, "account", q)
  BY <1>1, GotoMoves DEF Creating
<1>4. /\ req' = [req EXCEPT ![r] = q]
      /\ q.pc = "account" /\ q.op = "create" /\ q.email = e /\ q.subject = s /\ q.uid = u
  BY <1>1 DEF Moved
<1>5. /\ \A d \in Email : EmailHad(d, u)' => d = e
      /\ \A d \in Subject : SubjectHad(d, u)' => d = s
  BY <1>2, <1>3
<1>6. Making(q)'
  BY <1>1, <1>2, <1>4, <1>5 DEF Making, Fresh, Handing, Creating
<1>7. Fits(u, q.pc \in Creating)'
  BY <1>1, <1>2, <1>4 DEF Fits, Creating
<1>8. Sane(q)
  BY <1>4 DEF Sane, Creating, Handing
<1> QED BY <1>1, <1>3, <1>4, <1>6, <1>7, <1>8, CreateStep DEF PutSubject

LEMMA PutAccountStep == ASSUME IInv, NEW r \in Request, PutAccount(r) PROVE IInv'
<1> USE Keys
<1> PICK u \in Uid, e \in Email, s \in Subject :
         u = req[r].uid /\ e = req[r].email /\ s = req[r].subject
  BY Registration DEF PutAccount, At, Creating
<1> DEFINE a0 == [uid |-> u, email |-> e, subject |-> s]
<1>1. /\ TypeOK /\ req[r].op = "create" /\ Sane(req[r]) /\ Making(req[r])
      /\ req[r].pc = "account" /\ failed' \in Nat
      /\ account' = account \union {a0} /\ Goto(r, "session")
      /\ UNCHANGED <<email, subject, seen, lost>>
  BY Registration DEF PutAccount, At, Creating, TypeOK, NewAccount
<1>2. /\ \A a \in account : a.uid # u
      /\ \A d \in Email : EmailHad(d, u) => d = e
      /\ \A d \in Subject : SubjectHad(d, u) => d = s
      /\ u \notin lost /\ email[e] = u
  BY <1>1 DEF Making, Fresh, Handing, Creating
<1>3. /\ a0 \in Account /\ account' \subseteq Account
      /\ a0.uid = u /\ a0.email = e /\ a0.subject = s /\ a0 \in account'
  BY <1>1 DEF Account, TypeOK
<1> HIDE DEF a0
<1>4. /\ Writes(u)
      /\ \A d \in Email : EmailHad(d, u)' <=> EmailHad(d, u)
      /\ \A d \in Subject : SubjectHad(d, u)' <=> SubjectHad(d, u)
  BY <1>1, <1>3, AccountWrites
<1> PICK q \in Invocation : Moved(r, "session", q)
  BY <1>1, GotoMoves DEF Creating
<1>5. /\ req' = [req EXCEPT ![r] = q]
      /\ q.pc = "session" /\ q.op = "create" /\ q.email = e /\ q.subject = s /\ q.uid = u
  BY <1>1 DEF Moved
<1>6. /\ \A d \in Email : EmailHad(d, u)' => d = e
      /\ \A d \in Subject : SubjectHad(d, u)' => d = s
      /\ EmailHad(e, u)'
  <2>1. EmailHad(e, u)
    BY <1>2 DEF EmailHad
  <2> QED BY <1>2, <1>4, <2>1
<1>11. Exists(u)'
  BY <1>3 DEF Exists
<1>7. \A a \in account' : a.uid = u => a = a0
  BY <1>1, <1>2
<1>8. Making(q)'
  BY <1>1, <1>2, <1>3, <1>5, <1>6, <1>7, <1>11 DEF Making, Fresh, Handing, Creating
<1>9. Fits(u, q.pc \in Creating)'
  BY <1>1, <1>2, <1>3, <1>6, <1>7, <1>11 DEF Fits
<1>10. Sane(q)
  BY <1>5 DEF Sane, Creating, Handing
<1> QED BY <1>1, <1>4, <1>5, <1>8, <1>9, <1>10, CreateStep DEF PutAccount

LEMMA PutEmailFailsStep == ASSUME IInv, NEW r \in Request, PutEmailFails(r) PROVE IInv'
<1> USE Keys
<1> PICK u \in Uid, e \in Email, s \in Subject :
         u = req[r].uid /\ e = req[r].email /\ s = req[r].subject
  BY Registration DEF PutEmailFails, At, Creating
<1>1. /\ TypeOK /\ req[r].op = "create" /\ Making(req[r]) /\ req[r].pc = "email"
      /\ req' = [req EXCEPT ![r] = Idle] /\ failed' \in Nat
      /\ UNCHANGED <<subject, account, token, answered, arrived>>
  <2>1. req[r].pc = "email" /\ req[r].pc \in Creating /\ CallFails
    BY DEF PutEmailFails, At, Creating
  <2> QED BY <2>1, Registration, FailureCounted DEF PutEmailFails, CallFails, Finish
<1>2. /\ \A a \in account : a.uid # u
      /\ \A d \in Email : ~EmailHad(d, u)
      /\ \A d \in Subject : ~SubjectHad(d, u)
  BY <1>1 DEF Making, Fresh, Handing, Creating
<1>3. CASE UNCHANGED <<email, seen, lost>>
  <2>1. Writes(u)
    BY <1>1, <1>3, AccountWrites DEF TypeOK
  <2>2. Fits(u, Idle.pc \in Creating)'
    BY <1>1, <1>2, <1>3 DEF Fits, EmailHad, SubjectHad
  <2> QED BY <1>1, <2>1, <2>2, IdleSane, CreateStep
<1>4. CASE email[e] = None /\ SetEmail(e, u) /\ Lose(r)
  <2>1. Writes(u)
    BY <1>1, <1>4, EmailWrites DEF Lose
  <2>2. u \in lost'
    BY <1>4 DEF Lose
  <2>3. Fits(u, Idle.pc \in Creating)'
    BY <1>1, <1>2, <2>2 DEF Fits
  <2> QED BY <1>1, <2>1, <2>3, IdleSane, CreateStep
<1> QED BY <1>3, <1>4 DEF PutEmailFails

LEMMA PutSubjectFailsStep == ASSUME IInv, NEW r \in Request, PutSubjectFails(r) PROVE IInv'
<1> USE Keys
<1> PICK u \in Uid, e \in Email, s \in Subject :
         u = req[r].uid /\ e = req[r].email /\ s = req[r].subject
  BY Registration DEF PutSubjectFails, At, Creating
<1>1. /\ TypeOK /\ req[r].op = "create" /\ Making(req[r]) /\ req[r].pc = "subject"
      /\ Goto(r, "drop email") /\ failed' \in Nat
      /\ UNCHANGED <<email, account, token, answered, arrived>>
  <2>1. req[r].pc = "subject" /\ req[r].pc \in Creating /\ CallFails
    BY DEF PutSubjectFails, At, Creating
  <2> QED BY <2>1, Registration, FailureCounted DEF PutSubjectFails, CallFails
<1>2. /\ \A a \in account : a.uid # u
      /\ \A d \in Email : EmailHad(d, u) => d = e
      /\ \A d \in Subject : ~SubjectHad(d, u)
      /\ email[e] = u
  BY <1>1 DEF Making, Fresh, Handing, Creating
<1>3. /\ Writes(u)
      /\ \A d \in Email : EmailHad(d, u)' => EmailHad(d, u)
      /\ \A d \in Subject : SubjectHad(d, u)' => d = s /\ u \in lost'
  <2>1. CASE UNCHANGED <<subject, seen, lost>>
    BY <1>1, <1>2, <2>1, AccountWrites DEF TypeOK
  <2>2. CASE SetSubject(s, u) /\ Lose(r)
    <3>1. u \in lost' /\ lost' = lost \union {u}
      BY <2>2 DEF Lose
    <3> QED BY <1>1, <1>2, <2>2, <3>1, SubjectWrites
  <2> QED BY <2>1, <2>2 DEF PutSubjectFails
<1> PICK q \in Invocation : Moved(r, "drop email", q)
  BY <1>1, GotoMoves DEF Creating
<1>4. /\ req' = [req EXCEPT ![r] = q]
      /\ q.pc = "drop email" /\ q.op = "create" /\ q.email = e /\ q.subject = s /\ q.uid = u
  BY <1>1 DEF Moved
<1>5. Making(q)'
  BY <1>1, <1>2, <1>3, <1>4 DEF Making, Fresh, Handing, Creating
<1>6. Fits(u, q.pc \in Creating)'
  BY <1>1, <1>2, <1>4 DEF Fits, Creating
<1>7. Sane(q)
  BY <1>4 DEF Sane, Creating, Handing
<1> QED BY <1>1, <1>3, <1>4, <1>5, <1>6, <1>7, CreateStep

LEMMA PutAccountFailsStep == ASSUME IInv, NEW r \in Request, PutAccountFails(r) PROVE IInv'
<1> USE Keys
<1> PICK u \in Uid, e \in Email, s \in Subject :
         u = req[r].uid /\ e = req[r].email /\ s = req[r].subject
  BY Registration DEF PutAccountFails, At, Creating
<1> DEFINE a0 == [uid |-> u, email |-> e, subject |-> s]
<1>1. /\ TypeOK /\ req[r].op = "create" /\ Making(req[r]) /\ req[r].pc = "account"
      /\ Goto(r, "drop both") /\ failed' \in Nat
      /\ UNCHANGED <<email, subject, seen, token, answered, arrived>>
      /\ \/ account' = account /\ lost' = lost
         \/ account' = account \union {a0} /\ lost' = lost \union {u}
  <2>1. req[r].pc = "account" /\ req[r].pc \in Creating /\ CallFails /\ a0 = NewAccount(r)
    BY DEF PutAccountFails, At, Creating, NewAccount
  <2> HIDE DEF a0
  <2> QED BY <2>1, Registration, FailureCounted DEF PutAccountFails, CallFails, Lose
<1>2. /\ \A a \in account : a.uid # u
      /\ \A d \in Email : EmailHad(d, u) => d = e
      /\ \A d \in Subject : SubjectHad(d, u) => d = s
      /\ email[e] = u
  BY <1>1 DEF Making, Fresh, Handing, Creating
<1>3. /\ a0 \in Account /\ account' \subseteq Account
      /\ a0.uid = u /\ a0.email = e /\ a0.subject = s
  <2>1. a0 \in Account /\ a0.uid = u /\ a0.email = e /\ a0.subject = s
    BY DEF Account
  <2> HIDE DEF a0
  <2> QED BY <1>1, <2>1 DEF TypeOK
<1> HIDE DEF a0
<1>4. \A a \in account' : a.uid = u => a = a0 /\ u \in lost'
  BY <1>1, <1>2
<1>5. /\ Writes(u)
      /\ \A d \in Email : EmailHad(d, u)' <=> EmailHad(d, u)
      /\ \A d \in Subject : SubjectHad(d, u)' <=> SubjectHad(d, u)
  BY <1>1, <1>3, AccountWrites
<1> PICK q \in Invocation : Moved(r, "drop both", q)
  BY <1>1, GotoMoves DEF Creating
<1>6. /\ req' = [req EXCEPT ![r] = q]
      /\ q.pc = "drop both" /\ q.op = "create" /\ q.email = e /\ q.subject = s /\ q.uid = u
  BY <1>1 DEF Moved
<1>7. Making(q)'
  BY <1>1, <1>2, <1>3, <1>4, <1>5, <1>6 DEF Making, Fresh, Handing, Creating
<1>8. Fits(u, q.pc \in Creating)'
  BY <1>2, <1>3, <1>4, <1>5, <1>6 DEF Fits, Creating
<1>9. Sane(q)
  BY <1>6 DEF Sane, Creating, Handing
<1> QED BY <1>1, <1>5, <1>6, <1>7, <1>8, <1>9, CreateStep

(* The clean-up deletes the address, or loses track of it. *)
LEMMA EmailDropped ==
    ASSUME IInv, NEW r \in Request, req[r].pc \in {"drop email", "drop both"},
           AfterDropEmail(r), failed' \in Nat,
           \/ SetEmail(req[r].email, None) /\ lost' = lost
           \/ UNCHANGED <<email, seen>> /\ lost' = lost \union {req[r].uid},
           UNCHANGED <<subject, account, token, answered, arrived>>
    PROVE  IInv'
<1> USE Keys
<1> PICK u \in Uid, e \in Email, s \in Subject :
         u = req[r].uid /\ e = req[r].email /\ s = req[r].subject
  BY Registration DEF At, Creating
<1>1. TypeOK /\ req[r] \in Invocation /\ req[r].op = "create" /\ Making(req[r])
  BY Registration DEF Creating
<1>2. /\ \A d \in Email : EmailHad(d, u) => d = e
      /\ \A d \in Subject : SubjectHad(d, u) => d = s
      /\ \A a \in account : a.uid = u =>
            a.email = e /\ a.subject = s /\ u \in lost /\ req[r].pc = "drop both"
      /\ req[r].pc = "drop email" => \A d \in Subject : subject[d] = u => u \in lost
      /\ email[e] = u
  BY <1>1 DEF Making, Fresh, Handing, Creating, SubjectHad
<1>3. /\ Writes(u)
      /\ \A d \in Email : EmailHad(d, u)' => d = e
      /\ \A d \in Subject : SubjectHad(d, u)' => SubjectHad(d, u)
      /\ \A d \in Email : email'[d] = u => u \in lost'
      /\ lost \subseteq lost'
  <2>1. CASE SetEmail(e, None) /\ lost' = lost
    <3>1. /\ Writes(u)
          /\ \A d \in Email : EmailHad(d, u)' => EmailHad(d, u) \/ d = e
          /\ \A d \in Subject : SubjectHad(d, u)' => SubjectHad(d, u)
      BY <1>1, <1>2, <2>1, EmailWrites
    <3>2. \A d \in Email : email'[d] = IF d = e THEN None ELSE email[d]
      BY <1>1, <2>1 DEF SetEmail, TypeOK
    <3>3. \A d \in Email : email[d] = u => d = e
      BY <1>2 DEF EmailHad
    <3> QED BY <1>2, <2>1, <3>1, <3>2, <3>3
  <2>2. CASE UNCHANGED <<email, seen>> /\ lost' = lost \union {u}
    <3>1. account' \subseteq Account
      BY <1>1 DEF TypeOK
    <3>2. /\ Writes(u)
          /\ \A d \in Email : EmailHad(d, u)' <=> EmailHad(d, u)
          /\ \A d \in Subject : SubjectHad(d, u)' <=> SubjectHad(d, u)
      BY <1>1, <2>2, <3>1, AccountWrites
    <3> QED BY <1>2, <2>2, <3>2
  <2> QED BY <2>1, <2>2
<1>4. /\ \A a, b \in account' : a.uid = u /\ b.uid = u => a = b
      /\ \A a \in account' : a.uid = u => u \in lost'
  <2>1. account' \subseteq Account /\ account' = account
    BY <1>1 DEF TypeOK
  <2>2. ASSUME NEW a \in account', NEW b \in account', a.uid = u, b.uid = u PROVE a = b
    <3>1. a \in Account /\ b \in Account /\ a \in account /\ b \in account
      BY <2>1
    <3>2. a.uid = b.uid /\ a.email = b.email /\ a.subject = b.subject
      BY <1>2, <2>2, <3>1
    <3> QED BY <3>1, <3>2, SameAccount
  <2> QED BY <1>2, <1>3, <2>1, <2>2
<1>5. CASE req[r].pc = "drop email"
  <2>1. req' = [req EXCEPT ![r] = Idle]
    BY <1>5 DEF AfterDropEmail, At, Finish
  <2>2. Fits(u, Idle.pc \in Creating)'
    BY <1>2, <1>3, <1>4, <1>5 DEF Fits
  <2> QED BY <1>1, <1>3, <2>1, <2>2, IdleSane, CreateStep
<1>6. CASE req[r].pc = "drop both"
  <2> PICK q \in Invocation : Moved(r, "drop subject", q)
    BY <1>1, <1>6, GotoMoves DEF AfterDropEmail, At, Creating
  <2>1. /\ req' = [req EXCEPT ![r] = q] /\ q.pc = "drop subject"
        /\ q.op = "create" /\ q.email = e /\ q.subject = s /\ q.uid = u
    BY <1>1 DEF Moved
  <2>2. Making(q)'
    BY <1>2, <1>3, <2>1 DEF Making, Fresh, Handing, Creating
  <2>3. Fits(u, q.pc \in Creating)'
    BY <1>2, <1>3, <1>4, <2>1 DEF Fits, Creating
  <2>4. Sane(q)
    BY <2>1 DEF Sane, Creating, Handing
  <2> QED BY <1>1, <1>3, <2>1, <2>2, <2>3, <2>4, CreateStep
<1> QED BY <1>5, <1>6

(* The clean-up deletes the subject, or loses track of it. *)
LEMMA SubjectDropped ==
    ASSUME IInv, NEW r \in Request, At(r, "drop subject"), Finish(r), failed' \in Nat,
           \/ SetSubject(req[r].subject, None) /\ lost' = lost
           \/ UNCHANGED <<subject, seen>> /\ lost' = lost \union {req[r].uid},
           UNCHANGED <<email, account, token, answered, arrived>>
    PROVE  IInv'
<1> USE Keys
<1> PICK u \in Uid, e \in Email, s \in Subject :
         u = req[r].uid /\ e = req[r].email /\ s = req[r].subject
  BY Registration DEF At, Creating
<1>1. /\ TypeOK /\ req[r] \in Invocation /\ req[r].op = "create" /\ Making(req[r])
      /\ req[r].pc = "drop subject" /\ req' = [req EXCEPT ![r] = Idle]
  BY Registration DEF Creating, At, Finish
<1>2. /\ \A d \in Email : EmailHad(d, u) => d = e
      /\ \A d \in Subject : SubjectHad(d, u) => d = s
      /\ \A a \in account : a.uid = u => a.email = e /\ a.subject = s /\ u \in lost
      /\ email[e] # u \/ u \in lost
  BY <1>1 DEF Making, Fresh, Handing, Creating
<1>3. /\ Writes(u)
      /\ \A d \in Subject : SubjectHad(d, u)' => d = s
      /\ \A d \in Subject : subject'[d] = u => u \in lost'
      /\ lost \subseteq lost'
  <2>1. CASE SetSubject(s, None) /\ lost' = lost
    <3>1. /\ Writes(u)
          /\ \A d \in Subject : SubjectHad(d, u)' => SubjectHad(d, u) \/ d = s
      BY <1>1, <1>2, <2>1, SubjectWrites
    <3>2. \A d \in Subject : subject'[d] = IF d = s THEN None ELSE subject[d]
      BY <1>1, <2>1 DEF SetSubject, TypeOK
    <3>3. \A d \in Subject : subject[d] = u => d = s
      BY <1>2 DEF SubjectHad
    <3> QED BY <1>2, <2>1, <3>1, <3>2, <3>3
  <2>2. CASE UNCHANGED <<subject, seen>> /\ lost' = lost \union {u}
    <3>1. account' \subseteq Account
      BY <1>1 DEF TypeOK
    <3>2. /\ Writes(u)
          /\ \A d \in Subject : SubjectHad(d, u)' <=> SubjectHad(d, u)
      BY <1>1, <2>2, <3>1, AccountWrites
    <3> QED BY <1>2, <2>2, <3>2
  <2> QED BY <2>1, <2>2
<1>4. \A d \in Email : email'[d] = u => u \in lost'
  <2>1. \A d \in Email : email[d] = u => d = e
    BY <1>2 DEF EmailHad
  <2> QED BY <1>2, <1>3, <2>1
<1>5. /\ \A a, b \in account' : a.uid = u /\ b.uid = u => a = b
      /\ \A a \in account' : a.uid = u => u \in lost'
  <2>1. account' \subseteq Account /\ account' = account
    BY <1>1 DEF TypeOK
  <2>2. ASSUME NEW a \in account', NEW b \in account', a.uid = u, b.uid = u PROVE a = b
    <3>1. a \in Account /\ b \in Account /\ a \in account /\ b \in account
      BY <2>1
    <3>2. a.uid = b.uid /\ a.email = b.email /\ a.subject = b.subject
      BY <1>2, <2>2, <3>1
    <3> QED BY <3>1, <3>2, SameAccount
  <2> QED BY <1>2, <1>3, <2>1, <2>2
<1>6. Fits(u, Idle.pc \in Creating)'
  BY <1>2, <1>3, <1>4, <1>5 DEF Fits
<1> QED BY <1>1, <1>3, <1>6, IdleSane, CreateStep

(* Registration r dies. *)
LEMMA CreateDies ==
    ASSUME IInv, NEW r \in Request, req[r].pc \in Creating, Crash(r)
    PROVE  IInv'
<1> USE Keys
<1> PICK u \in Uid, e \in Email, s \in Subject :
         u = req[r].uid /\ e = req[r].email /\ s = req[r].subject
  BY Registration DEF At, Creating
<1>1. /\ TypeOK /\ req[r].op = "create" /\ Making(req[r])
      /\ req' = [req EXCEPT ![r] = Idle] /\ failed' \in Nat
      /\ UNCHANGED <<email, subject, account, seen, token, answered, arrived>>
      /\ lost' = IF req[r].pc = "email" THEN lost ELSE lost \union {u}
  BY Registration DEF Crash, Finish, Lose, At, Creating, TypeOK, items
<1>2. /\ Writes(u)
      /\ \A d \in Email : EmailHad(d, u)' <=> EmailHad(d, u)
      /\ \A d \in Subject : SubjectHad(d, u)' <=> SubjectHad(d, u)
  <2>1. account' \subseteq Account
    BY <1>1 DEF TypeOK
  <2> QED BY <1>1, <2>1, AccountWrites
<1>3. /\ \A d \in Email : EmailHad(d, u) => u \in lost'
      /\ \A d \in Subject : SubjectHad(d, u) => d = req[r].subject /\ u \in lost'
      /\ \A a \in account : a.uid = u =>
            a.email = req[r].email /\ a.subject = req[r].subject
  BY <1>1 DEF Making
<1>4. \A a, b \in account' : a.uid = u /\ b.uid = u => a = b
  BY <1>1, <1>3, SameAccount DEF TypeOK
<1>5. /\ \A d \in Email : email'[d] = u => u \in lost'
      /\ \A d \in Subject : subject'[d] = u => u \in lost'
  BY <1>1, <1>3 DEF EmailHad, SubjectHad
<1>6. Fits(u, Idle.pc \in Creating)'
  BY <1>1, <1>2, <1>3, <1>4, <1>5 DEF Fits
<1> QED BY <1>1, <1>2, <1>6, IdleSane, CreateStep

-----------------------------------------------------------------------------
(***************************************************************************)
(* A step in which r, not in the middle of create_account, goes on as q    *)
(* and no item but tokens is written.                                      *)
(***************************************************************************)
LEMMA SameRequest ==
    ASSUME UNCHANGED <<email, subject, account, seen, lost>>, NEW q, RequestOK(q)
    PROVE  RequestOK(q)'
<1>1. /\ \A e, v : EmailHad(e, v)' <=> EmailHad(e, v)
      /\ \A s, v : SubjectHad(s, v)' <=> SubjectHad(s, v)
  BY NothingSet
<1>2. Making(q) => Making(q)'
  BY <1>1 DEF Making, Exists
<1>3. Looking(q) => Looking(q)'
  BY <1>1 DEF Looking, Exists, Belongs
<1> QED BY <1>2, <1>3 DEF RequestOK

(* An answer that may be given. *)
Answers == [op : {"create", "login", "status", "profile"}, email : Email \union {None},
            subject : Subject \union {None}, uid : Uid]

AnswerOK(x) ==
    /\ x.op = "profile" => x.subject \in Subject /\ Belongs(x.uid, x.subject)
    /\ x.op # "profile" => x.email \in Email /\ EmailHad(x.email, x.uid) /\ Exists(x.uid)
    /\ x.op = "create" => x.uid \notin lost
    /\ x.uid <= arrived

LEMMA ReadStep ==
    ASSUME IInv, NEW r \in Request, req[r].pc \notin Creating,
           NEW q \in Invocation, req' = [req EXCEPT ![r] = q], RequestOK(q),
           UNCHANGED <<email, subject, account, seen, lost>>, failed' \in Nat,
           arrived' \in Nat, arrived <= arrived',
           q.op = "create" =>
              /\ q.uid <= arrived'
              /\ \A s \in Request \ {r} : req[s].op = "create" => req[s].uid # q.uid
              /\ \A x \in answered' : x.op = "create" => x.uid # q.uid,
           \A t \in token' : t \in token
              \/ (t \in {"session", "keyfetch"} \X Uid /\ Exists(t[2])),
           \A x \in answered' : x \in answered
              \/ /\ x \in Answers /\ AnswerOK(x)
                 /\ x.op = "create" => \A s \in Request \ {r} :
                       req[s].op = "create" => req[s].uid # x.uid
    PROVE  IInv'
<1> USE Keys
<1>1. TypeOK /\ Found /\ NoOrphans /\ Told /\ Numbered /\ Unique /\ Requests
  BY DEF IInv
<1>2. /\ \A e, v : EmailHad(e, v)' <=> EmailHad(e, v)
      /\ \A s, v : SubjectHad(s, v)' <=> SubjectHad(s, v)
  BY NothingSet
<1>3. req'[r] = q /\ \A s \in Request \ {r} : req'[s] = req[s]
  BY <1>1 DEF TypeOK
<1>4. TypeOK'
  <2>1. req' \in [Request -> Invocation]
    BY <1>1 DEF TypeOK
  <2>2. token' \subseteq {"session", "keyfetch"} \X Uid
    BY <1>1 DEF TypeOK
  <2>3. answered' \subseteq Answers
    BY <1>1 DEF TypeOK, Answers
  <2> QED BY <1>1, <2>1, <2>2, <2>3 DEF TypeOK, Answers
<1>5. Requests'
  <2> SUFFICES ASSUME NEW s \in Request, NEW c, c = req'[s] PROVE RequestOK(c)'
    BY DEF Requests
  <2>1. RequestOK(c)
    BY <1>1, <1>3 DEF Requests
  <2> QED BY <2>1, SameRequest
<1>6. Numbered'
  <2>1. \A n \in Nat : n <= arrived => n <= arrived'
    BY <1>1 DEF TypeOK
  <2>2. /\ \A e \in Email : email'[e] # None => email'[e] <= arrived'
        /\ \A s \in Subject : subject'[s] # None => subject'[s] <= arrived'
        /\ \A a \in account' : a.uid <= arrived'
        /\ \A u \in lost' : u <= arrived'
    BY <1>1, <2>1 DEF TypeOK, Numbered, Account, Uid
  <2>3. \A p \in seen' : p[2] # None => p[2] <= arrived'
    BY <1>1, <2>1 DEF TypeOK, Numbered, Uid
  <2>4. \A x \in answered' : x.uid <= arrived'
    BY <1>1, <2>1 DEF TypeOK, Numbered, Answers, AnswerOK, Uid
  <2>5. \A s \in Request : req'[s].op = "create" => req'[s].uid <= arrived'
    <3> SUFFICES ASSUME NEW s \in Request \ {r}, req[s].op = "create"
                 PROVE  req[s].uid <= arrived'
      BY <1>3
    <3>1. req[s].uid \in Nat
      BY <1>1 DEF Requests, RequestOK, Sane, Uid
    <3> QED BY <1>1, <2>1, <3>1 DEF Numbered
  <2> QED BY <2>2, <2>3, <2>4, <2>5 DEF Numbered
<1>7. Unique'
  <2>1. \A s, t \in Request :
          req'[s].op = "create" /\ req'[t].op = "create" /\ req'[s].uid = req'[t].uid => s = t
    BY <1>1, <1>3 DEF Unique
  <2>2. \A s \in Request, x \in answered' :
          req'[s].op = "create" /\ x.op = "create" => req'[s].uid # x.uid
    BY <1>1, <1>3 DEF Unique
  <2> QED BY <2>1, <2>2 DEF Unique
<1>8. Found'
  BY <1>1, <1>2 DEF Found
<1>9. Told'
  BY <1>1, <1>2 DEF Told, AnswerOK, Belongs, Exists
<1>10. NoOrphans'
  <2>1. \A v : InProgress(v) => InProgress(v)'
    BY <1>3 DEF InProgress
  <2> QED BY <1>1, <2>1 DEF NoOrphans, Exists
<1>11. TokensHaveAccounts'
  BY DEF IInv, TokensHaveAccounts, Exists
<1> QED BY <1>4, <1>5, <1>6, <1>7, <1>8, <1>9, <1>10, <1>11 DEF IInv

(* A lookup or its arrival: nothing at all is written. *)
LEMMA LookStep ==
    ASSUME IInv, NEW r \in Request, req[r].pc \notin Creating,
           NEW q \in Invocation, req' = [req EXCEPT ![r] = q], RequestOK(q), q.op # "create",
           UNCHANGED <<items, answered, lost>>, failed' \in Nat,
           arrived' \in Nat, arrived <= arrived'
    PROVE  IInv'
<1>1. /\ UNCHANGED <<email, subject, account, seen, lost>>
      /\ token' = token /\ answered' = answered
  BY DEF items
<1>2. \A t \in token' : t \in token
         \/ (t \in {"session", "keyfetch"} \X Uid /\ Exists(t[2]))
  <2>1. token' = token
    BY <1>1
  <2> QED BY <2>1
<1>3. \A x \in answered' : x \in answered
         \/ /\ x \in Answers /\ AnswerOK(x)
            /\ x.op = "create" => \A s \in Request \ {r} :
                  req[s].op = "create" => req[s].uid # x.uid
  BY <1>1
<1> QED BY <1>1, <1>2, <1>3, ReadStep

-----------------------------------------------------------------------------
(***************************************************************************)
(* Requests arrive.                                                        *)
(***************************************************************************)
LEMMA Arrived ==
    ASSUME IInv, NEW r \in Request, NEW q, Start(r, q)
    PROVE  /\ TypeOK /\ req' = [req EXCEPT ![r] = q] /\ req[r].pc \notin Creating
           /\ arrived \in Nat /\ arrived' = arrived + 1 /\ failed' \in Nat
           /\ arrived' \in Nat /\ arrived <= arrived'
           /\ UNCHANGED <<items, answered, lost>>
<1>1. TypeOK /\ arrived \in Nat /\ failed \in Nat
  BY DEF IInv, TypeOK
<1>2. req[r].pc \notin Creating
  BY DEF Start, At, Creating
<1> QED BY <1>1, <1>2 DEF Start

LEMMA ArriveCreateStep == ASSUME IInv, NEW r \in Request, ArriveCreate(r) PROVE IInv'
<1> USE Keys
<1> PICK e \in Email, s \in Subject :
         Start(r, [op |-> "create", pc |-> "email", email |-> e, subject |-> s,
                   uid |-> arrived + 1])
  BY DEF ArriveCreate
<1> DEFINE q == [op |-> "create", pc |-> "email", email |-> e, subject |-> s,
                 uid |-> arrived + 1]
<1>1. /\ TypeOK /\ Numbered /\ arrived \in Nat /\ arrived + 1 \in Uid
      /\ arrived + 1 # None /\ failed' \in Nat
      /\ UNCHANGED <<items, answered, lost>> /\ arrived' = arrived + 1
      /\ arrived' \in Nat /\ arrived <= arrived' /\ req[r].pc \notin Creating
  BY Arrived DEF IInv, Uid
<1>2. /\ q \in Invocation /\ q.op = "create" /\ q.pc = "email" /\ q.email = e
      /\ q.subject = s /\ q.uid = arrived + 1
  BY <1>1 DEF Invocation, Creating
<1>3. req' = [req EXCEPT ![r] = q]
  BY DEF Start
<1> HIDE DEF q
<1>4. \A n \in Nat : n <= arrived => n # arrived + 1
  BY <1>1
<1>5. Sane(q)
  BY <1>1, <1>2 DEF Sane, Creating, Handing
<1>6. /\ \A d \in Email : ~EmailHad(d, q.uid)
      /\ \A d \in Subject : ~SubjectHad(d, q.uid)
  <2>1. \A d \in Email : email[d] # q.uid
    BY <1>1, <1>2, <1>4 DEF TypeOK, Numbered, Uid
  <2>2. \A d \in Subject : subject[d] # q.uid
    BY <1>1, <1>2, <1>4 DEF TypeOK, Numbered, Uid
  <2>3. \A d : <<d, q.uid>> \notin seen
    BY <1>1, <1>2, <1>4 DEF Numbered, Uid
  <2> QED BY <2>1, <2>2, <2>3 DEF EmailHad, SubjectHad
<1>7. /\ \A a \in account : a.uid # q.uid
      /\ q.uid \notin lost
      /\ \A x \in answered : x.uid # q.uid
      /\ \A t \in Request : req[t].op = "create" => req[t].uid # q.uid
  BY <1>1, <1>2, <1>4 DEF Numbered
<1>8. Making(q)
  BY <1>2, <1>6, <1>7 DEF Making, Fresh, Handing, Creating
<1>9. RequestOK(q)
  BY <1>2, <1>5, <1>8 DEF RequestOK, Looking
<1>10. /\ UNCHANGED <<email, subject, account, seen, lost>>
       /\ token' = token /\ answered' = answered
  BY <1>1 DEF items
<1>11. \A t \in token' : t \in token
          \/ (t \in {"session", "keyfetch"} \X Uid /\ Exists(t[2]))
  <2>1. token' = token
    BY <1>10
  <2> QED BY <2>1
<1>12. /\ q.uid <= arrived'
       /\ \A t \in Request \ {r} : req[t].op = "create" => req[t].uid # q.uid
       /\ \A x \in answered' : x.op = "create" => x.uid # q.uid
  BY <1>1, <1>2, <1>7, <1>10
<1>13. \A x \in answered' : x \in answered
          \/ /\ x \in Answers /\ AnswerOK(x)
             /\ x.op = "create" => \A t \in Request \ {r} :
                   req[t].op = "create" => req[t].uid # x.uid
  BY <1>10
<1> QED BY <1>1, <1>2, <1>3, <1>9, <1>10, <1>11, <1>12, <1>13, ReadStep

LEMMA ArriveByEmailStep ==
    ASSUME IInv, NEW r \in Request, NEW op \in {"login", "status"}, ArriveByEmail(r, op)
    PROVE  IInv'
<1> USE Keys
<1> PICK e \in Email : Start(r, [Idle EXCEPT !.op = op, !.pc = "find", !.email = e])
  BY DEF ArriveByEmail
<1> DEFINE q == [Idle EXCEPT !.op = op, !.pc = "find", !.email = e]
<1>1. /\ TypeOK /\ arrived' \in Nat /\ arrived <= arrived' /\ failed' \in Nat
      /\ UNCHANGED <<items, answered, lost>> /\ req[r].pc \notin Creating
  BY Arrived
<1>2. q \in Invocation /\ q.op = op /\ q.pc = "find" /\ q.email = e
  BY DEF Invocation, Creating, Idle
<1>3. req' = [req EXCEPT ![r] = q]
  BY DEF Start
<1> HIDE DEF q
<1>4. RequestOK(q)
  BY <1>2 DEF RequestOK, Sane, Looking, Creating, Handing
<1> QED BY <1>1, <1>2, <1>3, <1>4, LookStep

LEMMA ArriveProfileStep == ASSUME IInv, NEW r \in Request, ArriveProfile(r) PROVE IInv'
<1> USE Keys
<1> PICK a \in account : a.subject # None /\ \E u \in {a.uid, None} :
         Start(r, [op |-> "profile", email |-> None, subject |-> a.subject,
                   pc |-> IF u = None THEN "by subject" ELSE "by uid", uid |-> u])
  BY DEF ArriveProfile
<1> PICK u \in {a.uid, None} :
         Start(r, [op |-> "profile", email |-> None, subject |-> a.subject,
                   pc |-> IF u = None THEN "by subject" ELSE "by uid", uid |-> u])
  OBVIOUS
<1> DEFINE q == [op |-> "profile", email |-> None, subject |-> a.subject,
                 pc |-> IF u = None THEN "by subject" ELSE "by uid", uid |-> u]
<1>1. /\ TypeOK /\ arrived' \in Nat /\ arrived <= arrived' /\ failed' \in Nat
      /\ UNCHANGED <<items, answered, lost>> /\ req[r].pc \notin Creating
  BY Arrived
<1>2. a.uid \in Uid /\ a.subject \in Subject
  BY <1>1 DEF TypeOK, Account
<1>3. /\ q \in Invocation /\ q.op = "profile" /\ q.subject = a.subject /\ q.uid = u
      /\ q.pc = IF u = None THEN "by subject" ELSE "by uid"
  BY <1>2 DEF Invocation
<1>4. req' = [req EXCEPT ![r] = q]
  BY DEF Start
<1> HIDE DEF q
<1>5. Sane(q)
  BY <1>2, <1>3 DEF Sane, Creating, Handing
<1>6. Looking(q)
  BY <1>3 DEF Looking, Belongs
<1> QED BY <1>1, <1>3, <1>4, <1>5, <1>6, LookStep DEF RequestOK

-----------------------------------------------------------------------------
(***************************************************************************)
(* Lookups.                                                                *)
(***************************************************************************)
(* Who is at a label of the lookups. *)
LEMMA Labels ==
    ASSUME NEW q \in Invocation, Sane(q)
    PROVE  /\ q.pc = "find" => q.op \in {"login", "status"} /\ q.email \in Email
           /\ q.pc = "by subject" => q.op = "profile" /\ q.subject \in Subject
           /\ q.pc = "by uid" => q.op = "profile" /\ q.subject \in Subject /\ q.uid \in Uid
           /\ q.pc = "backfill" => q.op = "login" /\ q.subject \in Subject /\ q.uid \in Uid
<1>1. q.op \in {"create", "login", "status", "profile"}
  BY DEF Invocation
<1> QED BY <1>1 DEF Sane, Creating, Handing

(* What is known of any request. *)
LEMMA Request0 ==
    ASSUME IInv, NEW r \in Request
    PROVE  /\ TypeOK /\ req[r] \in Invocation /\ RequestOK(req[r]) /\ Sane(req[r])
           /\ Looking(req[r]) /\ arrived \in Nat /\ failed \in Nat /\ arrived <= arrived
BY DEF IInv, TypeOK, Requests, RequestOK

LEMMA FinishStep ==
    ASSUME IInv, NEW r \in Request, req[r].pc \notin Creating, Finish(r),
           UNCHANGED <<items, answered, lost, arrived, failed>>
    PROVE  IInv'
<1>1. req' = [req EXCEPT ![r] = Idle]
  BY DEF Finish
<1>2. RequestOK(Idle) /\ Idle \in Invocation /\ Idle.op # "create"
  BY IdleSane DEF RequestOK
<1> QED BY <1>1, <1>2, Request0, LookStep

(* The uid that was found is one that the item has had. *)
LEMMA FetchStep ==
    ASSUME IInv, NEW r \in Request, req[r].pc \in {"find", "by subject"},
           NEW u \in Uid \union {None}, FetchOrStop(r, u),
           req[r].pc = "find" /\ u # None => EmailHad(req[r].email, u),
           req[r].pc = "by subject" /\ u # None => SubjectHad(req[r].subject, u),
           UNCHANGED <<items, answered, lost, arrived, failed>>
    PROVE  IInv'
<1> USE Keys
<1>1. CASE u = None
  BY <1>1, FinishStep DEF FetchOrStop, Creating
<1>2. CASE u # None
  <2> DEFINE q == [req[r] EXCEPT !.pc = "fetch", !.uid = u]
  <2>1. req' = [req EXCEPT ![r].pc = "fetch", ![r].uid = u]
    BY <1>2 DEF FetchOrStop
  <2>2. req' = [req EXCEPT ![r] = q]
    BY <2>1, Request0 DEF TypeOK, Invocation
  <2>3. /\ q \in Invocation /\ q.op = req[r].op /\ q.pc = "fetch" /\ q.uid = u
        /\ q.email = req[r].email /\ q.subject = req[r].subject
    BY <1>2, Request0 DEF Invocation
  <2> HIDE DEF q
  <2>4. req[r].op # "create" /\ Sane(q)
    BY <1>2, <2>3, Request0 DEF Sane, Creating, Handing
  <2>5. req[r].pc = "find" => req[r].op # "profile"
    BY Request0 DEF Sane
  <2>6. req[r].pc = "by subject" => req[r].op = "profile"
    BY Request0, Labels
  <2>7. Looking(q)
    BY <1>2, <2>3, <2>5, <2>6 DEF Looking, Belongs, Handing
  <2>8. RequestOK(q) /\ q.op # "create" /\ req[r].pc \notin Creating
    BY <2>3, <2>4, <2>7 DEF RequestOK, Creating
  <2> QED BY <2>2, <2>3, <2>8, Request0, LookStep
<1> QED BY <1>1, <1>2

LEMMA VersionsHad ==
    ASSUME TypeOK
    PROVE  /\ \A e \in Email : \A u \in Versions(e, email[e]) :
                u \in Uid \union {None} /\ EmailHad(e, u)
           /\ \A s \in Subject : \A u \in Versions(s, subject[s]) :
                u \in Uid \union {None} /\ SubjectHad(s, u)
<1>1. ASSUME NEW k, NEW v \in Uid \union {None}, NEW u \in Versions(k, v)
      PROVE  u \in Uid \union {None} /\ (u = v \/ <<k, u>> \in seen)
  BY <1>1 DEF Versions, TypeOK
<1>2. ASSUME NEW e \in Email, NEW u \in Versions(e, email[e])
      PROVE  u \in Uid \union {None} /\ EmailHad(e, u)
  <2>1. email[e] \in Uid \union {None}
    BY DEF TypeOK
  <2> QED BY <1>1, <2>1 DEF EmailHad
<1>3. ASSUME NEW s \in Subject, NEW u \in Versions(s, subject[s])
      PROVE  u \in Uid \union {None} /\ SubjectHad(s, u)
  <2>1. subject[s] \in Uid \union {None}
    BY DEF TypeOK
  <2> QED BY <1>1, <2>1 DEF SubjectHad
<1> QED BY <1>2, <1>3

LEMMA GetEmailStep == ASSUME IInv, NEW r \in Request, GetEmail(r) PROVE IInv'
<1>1. req[r].pc = "find" /\ req[r].email \in Email
  BY Request0, Labels DEF GetEmail, At
<1> PICK u \in Versions(req[r].email, email[req[r].email]) : FetchOrStop(r, u)
  BY DEF GetEmail
<1>2. u \in Uid \union {None} /\ EmailHad(req[r].email, u)
  BY <1>1, Request0, VersionsHad
<1> QED BY <1>1, <1>2, FetchStep DEF GetEmail

LEMMA GetSubjectStep == ASSUME IInv, NEW r \in Request, GetSubject(r) PROVE IInv'
<1>1. req[r].pc = "by subject" /\ req[r].subject \in Subject
  BY Request0, Labels DEF GetSubject, At
<1> PICK u \in Versions(req[r].subject, subject[req[r].subject]) : FetchOrStop(r, u)
  BY DEF GetSubject
<1>2. u \in Uid \union {None} /\ SubjectHad(req[r].subject, u)
  BY <1>1, Request0, VersionsHad
<1> QED BY <1>1, <1>2, FetchStep DEF GetSubject

LEMMA GetAccountOfTokenStep == ASSUME IInv, NEW r \in Request, GetAccountOfToken(r) PROVE IInv'
<1>1. /\ req[r].pc = "by uid" /\ req[r].pc \notin Creating /\ req[r].op = "profile"
      /\ req[r].uid \in Uid /\ req[r].subject \in Subject
      /\ UNCHANGED <<items, answered, lost, arrived, failed>>
  BY Request0, Labels DEF GetAccountOfToken, At, Creating
<1> PICK l \in {"answer", "by subject"} : Goto(r, l)
  BY DEF GetAccountOfToken
<1> PICK q \in Invocation : Moved(r, l, q)
  BY Request0, GotoMoves
<1>2. /\ req' = [req EXCEPT ![r] = q] /\ q.op = "profile" /\ q.pc = l
      /\ q.uid = req[r].uid /\ q.subject = req[r].subject
  BY <1>1 DEF Moved
<1>3. Sane(q)
  BY <1>1, <1>2 DEF Sane, Creating, Handing
<1>4. Looking(q)
  BY <1>1, <1>2, Request0 DEF Looking
<1>5. RequestOK(q) /\ q.op # "create"
  BY <1>2, <1>3, <1>4 DEF RequestOK
<1> QED BY <1>1, <1>2, <1>5, Request0, LookStep

LEMMA GetAccountStep == ASSUME IInv, NEW r \in Request, GetAccount(r) PROVE IInv'
<1> USE Keys
<1>1. /\ req[r].pc = "fetch" /\ req[r].pc \notin Creating /\ req[r].uid \in Uid
      /\ req[r].op # "create"
      /\ UNCHANGED <<items, answered, lost, arrived, failed>>
  BY Request0 DEF GetAccount, At, Sane, Creating, Handing
<1>2. CASE Finish(r)
  BY <1>1, <1>2, FinishStep
<1>3. CASE \E a \in account : a.uid = req[r].uid /\ Fetched(r, a)
  <2> PICK a \in account : a.uid = req[r].uid /\ Fetched(r, a)
    BY <1>3
  <2>1. Exists(req[r].uid) /\ a \in Account
    BY Request0 DEF Exists, TypeOK
  <2>2. CASE req[r].op # "login"
    <3> PICK q \in Invocation : Moved(r, "answer", q)
      BY <2>2, Request0, GotoMoves DEF Fetched
    <3>1. /\ req' = [req EXCEPT ![r] = q] /\ q.op = req[r].op /\ q.pc = "answer"
          /\ q.email = req[r].email /\ q.uid = req[r].uid /\ q.subject = req[r].subject
      BY DEF Moved
    <3>2. Sane(q)
      BY <1>1, <2>2, <3>1, Request0 DEF Sane, Creating, Handing
    <3>3. Looking(q)
      BY <1>1, <2>1, <3>1, Request0 DEF Looking, Handing
    <3>4. RequestOK(q) /\ q.op # "create"
      BY <1>1, <3>1, <3>2, <3>3 DEF RequestOK
    <3> QED BY <1>1, <3>1, <3>4, Request0, LookStep
  <2>3. CASE req[r].op = "login"
    <3> DEFINE l == IF a.subject = None THEN "session" ELSE "backfill"
               q == [req[r] EXCEPT !.pc = l, !.subject = a.subject]
    <3>1. req' = [req EXCEPT ![r].pc = l, ![r].subject = a.subject]
      BY <2>3 DEF Fetched
    <3>2. req' = [req EXCEPT ![r] = q]
      BY <3>1, Request0 DEF TypeOK, Invocation
    <3>3. a.subject \in Subject \union {None}
      BY <2>1 DEF Account
    <3>4. /\ q \in Invocation /\ q.op = "login" /\ q.pc = l /\ q.uid = req[r].uid
          /\ q.email = req[r].email /\ q.subject = a.subject
      BY <2>3, <3>3, Request0 DEF Invocation
    <3> HIDE DEF q
    <3>5. req[r].email \in Email
      BY <2>3, Request0 DEF Sane
    <3>6. Sane(q)
      BY <1>1, <3>3, <3>4, <3>5 DEF Sane, Creating, Handing
    <3>7. Looking(q)
      BY <1>1, <2>1, <2>3, <3>4, Request0 DEF Looking, Handing
    <3>8. RequestOK(q) /\ q.op # "create"
      BY <3>4, <3>6, <3>7 DEF RequestOK
    <3> QED BY <1>1, <3>2, <3>4, <3>8, Request0, LookStep
  <2> QED BY <2>2, <2>3
<1> QED BY <1>2, <1>3 DEF GetAccount

-----------------------------------------------------------------------------
(***************************************************************************)
(* A login writes OIDCSUB# of the subject on record, with the uid of an    *)
(* account: a registration of that uid has written ACCOUNT#.               *)
(***************************************************************************)
LEMMA BackfillStep == ASSUME IInv, NEW r \in Request, Backfill(r) PROVE IInv'
<1> USE Keys
<1> PICK u \in Uid, s \in Subject : u = req[r].uid /\ s = req[r].subject
  BY Request0, Labels DEF Backfill, At
<1> PICK e : e = req[r].email
  OBVIOUS
<1>1. /\ TypeOK /\ req[r].pc = "backfill" /\ req[r].op = "login" /\ req[r].pc \notin Creating
      /\ Goto(r, "session") /\ failed' \in Nat /\ e \in Email
      /\ UNCHANGED <<email, account, token, answered, lost, arrived, failed>>
  BY Request0, Labels DEF Backfill, At, Creating, Sane
<1>2. EmailHad(e, u) /\ \E a \in account : a.uid = u /\ a.subject = s
  BY <1>1, Request0 DEF Looking
<1> PICK a0 \in account : a0.uid = u /\ a0.subject = s
  BY <1>2
<1>3. /\ Found /\ NoOrphans /\ Requests /\ u <= arrived
      /\ \A a \in account : a.uid = u => a = a0
      /\ Exists(u)
  BY DEF IInv, Found, Numbered, Exists
<1>4. /\ Writes(u)
      /\ \A d \in Email : EmailHad(d, u)' => EmailHad(d, u)
      /\ \A d \in Subject : SubjectHad(d, u)' => SubjectHad(d, u) \/ d = s
  <2>1. CASE subject[s] = None
    BY <1>1, <2>1, SubjectWrites DEF Backfill
  <2>2. CASE subject[s] # None
    <3>1. UNCHANGED <<subject, seen>> /\ account' \subseteq Account
      BY <1>1, <2>2 DEF Backfill, TypeOK
    <3> QED BY <1>1, <3>1, AccountWrites
  <2> QED BY <2>1, <2>2
<1>5. Grows /\ Touches(u)
  BY <1>4 DEF Writes
<1> PICK q \in Invocation : Moved(r, "session", q)
  BY <1>1, GotoMoves
<1>6. /\ req' = [req EXCEPT ![r] = q] /\ q.op = "login" /\ q.pc = "session"
      /\ q.email = e /\ q.uid = u /\ q.subject = s
  BY <1>1 DEF Moved
<1>7. Exists(u)' /\ EmailHad(e, u)'
  BY <1>1, <1>2, <1>3, <1>5 DEF Exists, Grows
<1>8. RequestOK(q)'
  <2>1. Sane(q)
    BY <1>1, <1>6 DEF Sane, Creating, Handing
  <2>2. Looking(q)'
    BY <1>6, <1>7 DEF Looking
  <2> QED BY <1>6, <2>1, <2>2 DEF RequestOK
<1>9. Requests'
  <2> SUFFICES ASSUME NEW t \in Request, NEW c, c = req'[t] PROVE RequestOK(c)'
    BY DEF Requests
  <2>1. CASE t = r
    BY <1>1, <1>6, <1>8, <2>1 DEF TypeOK
  <2>2. CASE t # r
    <3>1. c = req[t] /\ c \in Invocation /\ RequestOK(c)
      BY <1>1, <1>3, <1>6, <2>2 DEF TypeOK, Requests
    <3>2. ASSUME c.op = "create", c.uid = u PROVE Making(c)'
      <4>1. Making(c) /\ Sane(c)
        BY <3>1, <3>2 DEF RequestOK
      <4>2. c.subject = s /\ c.pc \notin Fresh \union {"drop email"}
        BY <3>2, <4>1 DEF Making
      <4>3. \A d \in Email : EmailHad(d, u)' => d = c.email /\ c.pc # "email"
        BY <1>4, <3>2, <4>1 DEF Making
      <4>4. \A d \in Subject : SubjectHad(d, u)' => d = c.subject
        BY <1>4, <3>2, <4>1, <4>2 DEF Making
      <4>5. c.pc \in Handing => EmailHad(c.email, u)'
        BY <1>5, <3>2, <4>1 DEF Making, Sane, Grows
      <4> QED BY <1>1, <1>7, <3>2, <4>1, <4>2, <4>3, <4>4, <4>5 DEF Making, Fresh
    <3>3. c.op = "create" /\ c.uid # u => Making(c)'
      BY <1>1, <1>5, <3>1, MakingKept DEF RequestOK
    <3>4. Looking(c)'
      BY <1>5, <3>1, LookingKept DEF RequestOK
    <3> QED BY <3>1, <3>2, <3>3, <3>4 DEF RequestOK
  <2> QED BY <2>1, <2>2
<1>10. Fits(u, q.pc \in Creating)'
  <2>1. \A d \in Subject : SubjectHad(d, u) => d = s
    BY <1>3 DEF Found
  <2>2. \A d \in Email : EmailHad(d, u) => email[d] = u \/ u \in lost
    BY <1>3 DEF Found
  <2> QED BY <1>1, <1>3, <1>4, <1>7, <2>1, <2>2 DEF Fits
<1>11. q.pc \notin Creating
  BY <1>6 DEF Creating
<1> QED BY <1>1, <1>3, <1>4, <1>6, <1>9, <1>10, <1>11, WriteStep

(***************************************************************************)
(* Tokens and answers.                                                     *)
(***************************************************************************)
(* Whoever hands out something has found or made the account. *)
LEMMA HandingHas ==
    ASSUME IInv, NEW r \in Request, req[r].pc \in Handing
    PROVE  /\ TypeOK /\ req[r] \in Invocation /\ RequestOK(req[r])
           /\ req[r].uid \in Uid /\ req[r].pc \notin Creating
           /\ req[r].op # "profile" =>
                 /\ req[r].email \in Email
                 /\ EmailHad(req[r].email, req[r].uid) /\ Exists(req[r].uid)
           /\ req[r].op = "profile" =>
                 req[r].subject \in Subject /\ Belongs(req[r].uid, req[r].subject)
           /\ req[r].pc # "answer" => req[r].op \in {"create", "login"}
           /\ req[r].op = "create" => req[r].uid \notin lost
<1>1. req[r].op \in {"create", "login", "status", "profile"}
  BY Request0 DEF Invocation
<1>2. req[r].pc \notin Creating /\ req[r].uid \in Uid
  BY Request0 DEF Sane, Creating, Handing
<1>3. CASE req[r].op = "create"
  <2>1. Making(req[r]) /\ req[r].email \in Email
    BY <1>3, Request0 DEF RequestOK, Sane
  <2>2. req[r].uid \notin lost /\ Exists(req[r].uid) /\ EmailHad(req[r].email, req[r].uid)
    BY <2>1 DEF Making
  <2> QED BY <1>2, <1>3, <2>1, <2>2, Request0
<1>4. CASE req[r].op \in {"login", "status"}
  <2>1. Exists(req[r].uid) /\ EmailHad(req[r].email, req[r].uid)
    BY <1>4, Request0 DEF Looking
  <2>2. req[r].email \in Email /\ (req[r].pc # "answer" => req[r].op = "login")
    BY <1>4, Request0 DEF Sane, Handing
  <2> QED BY <1>2, <1>4, <2>1, <2>2, Request0
<1>5. CASE req[r].op = "profile"
  <2>1. req[r].pc = "answer" /\ req[r].subject \in Subject
    BY <1>5, Request0 DEF Sane, Handing
  <2>2. Belongs(req[r].uid, req[r].subject)
    BY <1>5, <2>1, Request0 DEF Looking
  <2> QED BY <1>2, <1>5, <2>1, <2>2, Request0
<1> QED BY <1>1, <1>3, <1>4, <1>5

LEMMA PutTokenStep ==
    ASSUME IInv, NEW r \in Request, req[r].pc \in {"session", "keys"},
           NEW l \in {"keys", "answer"}, Goto(r, l),
           NEW kind \in {"session", "keyfetch"}, PutToken(r, kind)
    PROVE  IInv'
<1> USE Keys
<1>1. req[r].pc \in Handing
  BY DEF Handing
<1>2. /\ req[r].op \in {"create", "login"} /\ req[r].uid \in Uid /\ req[r].pc \notin Creating
      /\ req[r].email \in Email
      /\ EmailHad(req[r].email, req[r].uid) /\ Exists(req[r].uid)
  BY <1>1, HandingHas
<1> PICK q \in Invocation : Moved(r, l, q)
  BY Request0, GotoMoves
<1>3. /\ req' = [req EXCEPT ![r] = q] /\ q.op = req[r].op /\ q.pc = l
      /\ q.email = req[r].email /\ q.uid = req[r].uid /\ q.subject = req[r].subject
  BY DEF Moved
<1>4. Sane(q)
  BY <1>1, <1>2, <1>3, Request0 DEF Sane, Creating, Handing
<1>5. q.op = "create" => Making(q)
  <2>1. ASSUME q.op = "create" PROVE Making(req[r])
    BY <1>3, <2>1, Request0 DEF RequestOK
  <2> QED BY <1>1, <1>3, <2>1 DEF Making, Fresh, Handing, Creating
<1>6. Looking(q)
  BY <1>2, <1>3, <1>4 DEF Looking, Handing
<1>7. RequestOK(q)
  BY <1>4, <1>5, <1>6 DEF RequestOK
<1>8. UNCHANGED <<email, subject, account, seen, lost>> /\ answered' = answered
  BY DEF PutToken
<1>9. \A t \in token' : t \in token
         \/ (t \in {"session", "keyfetch"} \X Uid /\ Exists(t[2]))
  <2>1. token' = token \union {<<kind, req[r].uid>>}
    BY DEF PutToken
  <2> QED BY <1>2, <2>1
<1>10. q.op = "create" =>
         /\ q.uid <= arrived'
         /\ \A s \in Request \ {r} : req[s].op = "create" => req[s].uid # q.uid
         /\ \A x \in answered' : x.op = "create" => x.uid # q.uid
  BY <1>3, <1>8 DEF IInv, Unique, Numbered, PutToken
<1>11. \A x \in answered' : x \in answered
         \/ /\ x \in Answers /\ AnswerOK(x)
            /\ x.op = "create" => \A s \in Request \ {r} :
                  req[s].op = "create" => req[s].uid # x.uid
  BY <1>8
<1>12. /\ failed' \in Nat /\ arrived' \in Nat /\ arrived <= arrived'
  BY Request0 DEF PutToken
<1> QED BY <1>2, <1>3, <1>7, <1>8, <1>9, <1>10, <1>11, <1>12, ReadStep

LEMMA AnswerStep == ASSUME IInv, NEW r \in Request, Answer(r) PROVE IInv'
<1> USE Keys
<1> DEFINE y == [op |-> req[r].op, email |-> req[r].email,
                 subject |-> req[r].subject, uid |-> req[r].uid]
<1>1. req[r].pc = "answer" /\ req[r].pc \in Handing
  BY DEF Answer, At, Handing
<1>2. /\ y \in Answers /\ y.op = req[r].op /\ y.email = req[r].email
      /\ y.subject = req[r].subject /\ y.uid = req[r].uid
  BY <1>1, HandingHas DEF Answers, Invocation
<1>3. answered' = answered \union {y}
  BY DEF Answer
<1> HIDE DEF y
<1>4. req[r].uid \in Uid /\ req[r].uid # None
  BY <1>1, HandingHas
<1>5. \A s \in Subject : SubjectHad(s, req[r].uid) => req[r].uid <= arrived
  BY <1>4 DEF IInv, Numbered, SubjectHad
<1>6. Exists(req[r].uid) => req[r].uid <= arrived
  BY DEF IInv, Numbered, Exists
<1>7. req[r].uid <= arrived
  <2>1. CASE req[r].op = "profile"
    BY <1>1, <1>5, <1>6, <2>1, HandingHas DEF Belongs, Exists
  <2>2. CASE req[r].op # "profile"
    BY <1>1, <1>6, <2>2, HandingHas
  <2> QED BY <2>1, <2>2
<1>8. AnswerOK(y)
  BY <1>1, <1>2, <1>7, HandingHas DEF AnswerOK
<1>9. y.op = "create" => \A s \in Request \ {r} : req[s].op = "create" => req[s].uid # y.uid
  BY <1>2 DEF IInv, Unique
<1>10. req' = [req EXCEPT ![r] = Idle]
  BY DEF Answer, Finish
<1>11. RequestOK(Idle) /\ Idle \in Invocation /\ Idle.op # "create"
  BY IdleSane DEF RequestOK
<1>12. /\ UNCHANGED <<email, subject, account, seen, lost>> /\ token' = token
       /\ failed' \in Nat /\ arrived' \in Nat /\ arrived <= arrived'
  BY Request0 DEF Answer, items
<1>13. \A t \in token' : t \in token
         \/ (t \in {"session", "keyfetch"} \X Uid /\ Exists(t[2]))
  BY <1>12
<1>14. \A x \in answered' : x \in answered
         \/ /\ x \in Answers /\ AnswerOK(x)
            /\ x.op = "create" => \A s \in Request \ {r} :
                  req[s].op = "create" => req[s].uid # x.uid
  BY <1>2, <1>3, <1>8, <1>9
<1>15. req[r].pc \notin Creating
  BY <1>1, HandingHas
<1> QED BY <1>10, <1>11, <1>12, <1>13, <1>14, <1>15, ReadStep

LEMMA CrashStep == ASSUME IInv, NEW r \in Request, Crash(r) PROVE IInv'
<1>1. CASE req[r].pc \in Creating
  BY <1>1, CreateDies
<1>2. CASE req[r].pc \notin Creating
  BY <1>2, FinishStep DEF Crash
<1> QED BY <1>1, <1>2

-----------------------------------------------------------------------------
(***************************************************************************)
(* The invariant holds.                                                    *)
(***************************************************************************)
LEMMA InitInv == Init => IInv
<1> SUFFICES ASSUME Init PROVE IInv
  OBVIOUS
<1> USE Keys
<1>1. 0 \in Uid /\ 0 # None /\ arrived = 0
  BY DEF Uid, Init
<1>2. \A r \in Request : req[r] = Idle
  BY DEF Init
<1>3. account \subseteq Account /\ \A a \in account :
        a.uid = 0 /\ a.email = LegacyEmail /\ LegacyEmail \in Email
  BY <1>1, AccountAssumption DEF Init, Account
<1>4. /\ \A e \in Email : email[e] = IF e = LegacyEmail THEN 0 ELSE None
      /\ \A s \in Subject : subject[s] = None
      /\ \A e, u : EmailHad(e, u) <=> email[e] = u
      /\ \A s, u : SubjectHad(s, u) <=> subject[s] = u
  BY DEF Init, EmailHad, SubjectHad
<1>5. TypeOK
  <2>1. email \in [Email -> Uid \union {None}] /\ subject \in [Subject -> Uid \union {None}]
    BY <1>1 DEF Init
  <2>2. req \in [Request -> Invocation]
    BY IdleSane DEF Init
  <2> QED BY <1>3, <2>1, <2>2 DEF TypeOK, Init
<1>6. Requests
  BY <1>2, IdleSane DEF Requests, RequestOK
<1>7. Numbered
  BY <1>1, <1>2, <1>3, <1>4, IdleSane DEF Numbered, Init
<1>8. Unique
  BY <1>2, IdleSane DEF Unique
<1>9. Found
  <2>1. ASSUME NEW a \in account, NEW b \in account PROVE a = b
    BY DEF Init
  <2> QED BY <1>1, <1>3, <1>4, <2>1 DEF Found
<1>10. Told
  BY DEF Told, Init
<1>11. NoOrphans
  <2>1. ASSUME LegacyEmail \in Email PROVE Exists(0)
    <3>1. account = {[uid |-> 0, email |-> LegacyEmail, subject |-> LegacySubject]}
      BY <2>1 DEF Init
    <3> QED BY <3>1 DEF Exists
  <2> QED BY <1>1, <1>4, <2>1 DEF NoOrphans
<1>12. TokensHaveAccounts
  BY DEF TokensHaveAccounts, Init
<1> QED BY <1>5, <1>6, <1>7, <1>8, <1>9, <1>10, <1>11, <1>12 DEF IInv

LEMMA NextInv == IInv /\ [Next]_vars => IInv'
<1> SUFFICES ASSUME IInv, [Next]_vars PROVE IInv'
  OBVIOUS
<1>1. CASE UNCHANGED vars
  <2> USE <1>1 DEF vars
  <2>1. TypeOK'
    BY DEF IInv, TypeOK
  <2>2. Requests'
    <3> SUFFICES ASSUME NEW s \in Request, NEW c, c = req'[s] PROVE RequestOK(c)'
      BY DEF Requests
    <3> QED BY SameRequest DEF IInv, Requests
  <2>3. Numbered' /\ Unique'
    BY DEF IInv, Numbered, Unique
  <2>4. Found'
    BY DEF IInv, Found, EmailHad, SubjectHad
  <2>5. Told'
    BY DEF IInv, Told, Belongs, EmailHad, SubjectHad, Exists
  <2>6. NoOrphans' /\ TokensHaveAccounts'
    BY DEF IInv, NoOrphans, InProgress, TokensHaveAccounts, Exists
  <2> QED BY <2>1, <2>2, <2>3, <2>4, <2>5, <2>6 DEF IInv
<1>2. ASSUME NEW r \in Request,
             \/ ArriveCreate(r) \/ ArriveLogin(r) \/ ArriveStatus(r)
             \/ ArriveExchange(r) \/ ArriveProfile(r)
      PROVE  IInv'
  BY <1>2, ArriveCreateStep, ArriveByEmailStep, ArriveProfileStep
     DEF ArriveLogin, ArriveStatus, ArriveExchange
<1>3. ASSUME NEW r \in Request, Create(r) PROVE IInv'
  <2>1. CASE DropEmail(r)
    <3>1. failed' \in Nat
      BY <2>1, Request0 DEF DropEmail
    <3> QED BY <2>1, <3>1, EmailDropped DEF DropEmail
  <2>2. CASE DropSubject(r)
    <3>1. failed' \in Nat
      BY <2>2, Request0 DEF DropSubject
    <3> QED BY <2>2, <3>1, SubjectDropped DEF DropSubject
  <2> QED BY <1>3, <2>1, <2>2, PutEmailStep, PutSubjectStep, PutAccountStep DEF Create
<1>4. ASSUME NEW r \in Request, CreateFails(r) PROVE IInv'
  <2>1. CASE DropEmailFails(r)
    <3>1. failed' \in Nat
      BY <2>1, Request0, FailureCounted DEF DropEmailFails
    <3> QED BY <2>1, <3>1, EmailDropped DEF DropEmailFails, CallFails, Lose
  <2>2. CASE DropSubjectFails(r)
    <3>1. failed' \in Nat
      BY <2>2, Request0, FailureCounted DEF DropSubjectFails
    <3> QED BY <2>2, <3>1, SubjectDropped DEF DropSubjectFails, CallFails, Lose
  <2> QED BY <1>4, <2>1, <2>2, PutEmailFailsStep, PutSubjectFailsStep, PutAccountFailsStep
          DEF CreateFails
<1>5. ASSUME NEW r \in Request, Look(r) PROVE IInv'
  BY <1>5, GetEmailStep, GetSubjectStep, GetAccountOfTokenStep, GetAccountStep DEF Look
<1>6. ASSUME NEW r \in Request, Hand(r) PROVE IInv'
  <2>1. CASE PutSession(r)
    BY <2>1, PutTokenStep DEF PutSession, At
  <2>2. CASE PutKeyFetch(r)
    BY <2>2, PutTokenStep DEF PutKeyFetch, At
  <2> QED BY <1>6, <2>1, <2>2, BackfillStep, AnswerStep DEF Hand
<1> QED BY <1>1, <1>2, <1>3, <1>4, <1>5, <1>6, CrashStep DEF Next

LEMMA Invariant == Spec => []IInv
BY InitInv, NextInv, PTL DEF Spec

-----------------------------------------------------------------------------
(* Every variable has its type. *)
THEOREM AccountsTyped == Spec => []TypeOK
<1>1. IInv => TypeOK
  BY DEF IInv
<1> QED BY <1>1, Invariant, PTL

(* Whoever was told that an account was created can sign in with it: its   *)
(* address names its uid and ACCOUNT#uid is there, whatever registrations  *)
(* of the same address or subject run, fail, die and clean up.  What a     *)
(* login or a status query found stays, unless its registration failed.    *)
THEOREM SignInHolds == Spec => []RegisteredCanSignIn
<1>1. IInv => RegisteredCanSignIn
  <2> SUFFICES ASSUME IInv, NEW x \in answered, x.op # "profile"
               PROVE  LeadsTo(x.email, x.uid) \/ (x.op # "create" /\ x.uid \in lost)
    BY DEF RegisteredCanSignIn
  <2>1. /\ x.email \in Email /\ EmailHad(x.email, x.uid) /\ Exists(x.uid)
        /\ x.op = "create" => x.uid \notin lost
    BY DEF IInv, Told
  <2>2. email[x.email] = x.uid \/ x.uid \in lost
    BY <2>1 DEF IInv, Found, Exists
  <2> QED BY <2>1, <2>2 DEF LeadsTo
<1> QED BY <1>1, Invariant, PTL

(* No address and no subject is left naming an account that is not there,  *)
(* unless the registration that wrote it runs, died, or had a call fail    *)
(* without its effect known.                                               *)
THEOREM NoOrphansLeft == Spec => []NoOrphans
<1>1. IInv => NoOrphans
  BY DEF IInv
<1> QED BY <1>1, Invariant, PTL

(* A profile is that of an account of the subject in the access token.     *)
THEOREM ProfilesOwn == Spec => []ProfileIsOwn
<1>1. IInv => ProfileIsOwn
  <2> SUFFICES ASSUME IInv, NEW x \in answered, x.op = "profile",
                      NEW a \in account, a.uid = x.uid
               PROVE  a.subject = x.subject
    BY DEF ProfileIsOwn
  <2>1. x.subject \in Subject /\ Belongs(x.uid, x.subject)
    BY DEF IInv, Told
  <2> QED BY <2>1 DEF IInv, Found, Belongs
<1> QED BY <1>1, Invariant, PTL

(* Session and key-fetch tokens are for accounts that are there.           *)
THEOREM TokensOwned == Spec => []TokensHaveAccounts
<1>1. IInv => TokensHaveAccounts
  BY DEF IInv
<1> QED BY <1>1, Invariant, PTL
=============================================================================
