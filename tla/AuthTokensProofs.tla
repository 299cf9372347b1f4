-------------------------- MODULE AuthTokensProofs --------------------------
(***************************************************************************)
(* What is for one use is used once, for any number of concurrent and      *)
(* repeated requests that may die anywhere; the refresh tokens of a family *)
(* never become two and never regain a scope; nothing comes of what was    *)
(* revoked or signed out.                                                  *)
(*                                                                         *)
(* The argument keeps a ledger: the deeds of requests that have consumed   *)
(* something.  A family lives in exactly one place: its code, a request    *)
(* that has consumed and not yet put, or a refresh token.  Every step      *)
(* either moves it along or loses it.                                      *)
(***************************************************************************)
EXTENDS AuthTokens, TLAPS

Busy(r) == ~At(r, "idle")
W(r) == req[r].work

Grants == {"exchange", "rotate"}

Deed(w) == [op |-> w.op, n |-> w.n, used |-> w.used, family |-> w.family, scope |-> w.scope]

(* What was granted and is on record or in a client's hands. *)
Given ==
    {Deed(x) : x \in {y \in answered : y.op \in Grants}}
      \union {Deed(W(r)) : r \in {s \in Request : W(s).op \in Grants /\ At(s, "answer")}}

(* What was consumed by a request that has yet to put its refresh token. *)
Pending ==
    {Deed(W(r)) : r \in {s \in Request : W(s).op \in Grants /\ req[s].pc \in {"account", "put"}}}

KeyUses ==
    {Deed(x) : x \in {y \in answered : y.op = "keys"}}
      \union {Deed(W(r)) : r \in {s \in Request : W(s).op = "keys"
                                                   /\ req[s].pc \in {"account", "answer"}}}

(* The ids that clients know: the first ones, and those of answers. *)
Known == {0} \union {x.n : x \in answered}

(* Requests and answers have numbers of their own, and use what is known.  *)
Numbered ==
    /\ \A r \in Request : Busy(r) =>
          /\ W(r).n >= 1 /\ W(r).n <= arrived
          /\ W(r).n \notin Known /\ W(r).used \in Known
          /\ W(r).at <= now
    /\ \A r, s \in Request : Busy(r) /\ Busy(s) /\ W(r).n = W(s).n => r = s
    /\ \A x \in answered :
          /\ x.n <= x.before /\ x.before <= arrived
          /\ x.used \in Known
          /\ x.at <= x.done /\ x.done <= now
    /\ \A x, y \in answered : x.n = y.n => x = y

(* An item with the number of a running request was put by it just now. *)
Origin ==
    \A i \in code \union refresh :
        /\ i.id <= arrived
        /\ \A r \in Request : Busy(r) /\ W(r).n = i.id => At(r, "answer")

(* Requests are at calls that their routes make. *)
Sanity == \A r \in Request : OnRoute(req[r])

(* Items have ids of their own, and what is stored was not used. *)
Unused ==
    /\ \A k, l \in keyfetch : k.id = l.id => k = l
    /\ \A c, d \in code : c.id = d.id => c = d
    /\ \A t, u \in refresh : t.id = u.id => t = u
    /\ \A k \in keyfetch, d \in KeyUses : d.used # k.id
    /\ \A c \in code, d \in Given \union Pending : d.op = "exchange" => d.used # c.id
    /\ \A t \in refresh, d \in Given \union Pending : d.op = "rotate" => d.used # t.id

Once ==
    /\ \A d, e \in KeyUses : d.used = e.used => d = e
    /\ \A d, e \in Given \union Pending : d.op = e.op /\ d.used = e.used => d = e
    /\ \A d \in Given \union Pending : d.used \in Known /\ d.family \in Known

(* A family is in one place. *)
OnePlace ==
    /\ \A t, u \in refresh : t.family = u.family => t = u
    /\ \A t \in refresh : t.family \in Known
    /\ \A t \in refresh, c \in code : c.id # t.family
    /\ \A p \in Pending, t \in refresh : t.family # p.family
    /\ \A p \in Pending, c \in code : c.id # p.family
    /\ \A p, q \in Pending : p.family = q.family => p = q

Narrowing ==
    /\ \A g \in Given, t \in refresh : t.family = g.family => t.scope \subseteq g.scope
    /\ \A g \in Given, p \in Pending : p.family = g.family => p.scope \subseteq g.scope
    /\ \A g \in Given, c \in code : c.id # g.family

Ledger == Unused /\ Once /\ OnePlace /\ Narrowing

Revoked ==
    /\ \A r \in Request, t \in refresh :
          At(r, "answer") /\ W(r).op = "revoke" => t.id # W(r).used
    /\ \A x \in answered, t \in refresh : x.op = "revoke" => t.id # x.used
    /\ \A x \in answered, d \in Given \union Pending :
          x.op = "revoke" /\ d.op = "rotate" /\ d.used = x.used => d.n <= x.before

(* A session op that got past verify_session_hawk. *)
Passed(q) == q.pc \notin {"idle", "hawk"} /\ q.work.op \in SessionOps

SignedOut ==
    /\ \A s \in session : s.gone <= now
    /\ \A r \in Request, s \in session :
          At(r, "answer") /\ W(r).op = "sign out" /\ s.id = W(r).used => s.gone # -1
    /\ \A x \in answered, s \in session :
          x.op = "sign out" /\ s.id = x.used => s.gone # -1 /\ s.gone <= x.done
    /\ \A x \in answered, r \in Request :
          x.op = "sign out" /\ Passed(req[r]) /\ W(r).used = x.used => W(r).at <= x.done + Lag
    /\ SignedOutIsRefused

IInv ==
    /\ TypeOK
    /\ Numbered
    /\ Origin
    /\ Sanity
    /\ Ledger
    /\ Revoked
    /\ SignedOut

-----------------------------------------------------------------------------
(* Types                                                                   *)

LEMMA ConstantsNatural == Lifetime \in Nat /\ SessionLifetime \in Nat /\ Lag \in Nat
BY AuthTokenAssumption

LEMMA IdleSane == Idle \in Invocation /\ Idle.pc = "idle" /\ OnRoute(Idle)
BY DEF Idle, Invocation, NoWork, Work, Op, SessionOps, OnRoute

LEMMA WorkTyped ==
    ASSUME TypeOK, NEW r \in Request
    PROVE  /\ req[r] \in Invocation
           /\ W(r) \in Work
           /\ W(r).op \in Op
           /\ W(r).n \in Nat /\ W(r).used \in Nat /\ W(r).family \in Nat /\ W(r).at \in Nat
           /\ W(r).scope \in SUBSET Scope
BY DEF TypeOK, Invocation, Work, W

LEMMA AnswerTyped ==
    ASSUME TypeOK, NEW x \in answered
    PROVE  /\ x.n \in Nat /\ x.used \in Nat /\ x.family \in Nat
           /\ x.at \in Nat /\ x.before \in Nat /\ x.done \in Nat
BY DEF TypeOK, Answered

(* A request that goes on with its number, credential and time. *)
Onward(r, q) ==
    /\ q \in Invocation
    /\ q.pc # "idle"
    /\ q.work.op = W(r).op /\ q.work.n = W(r).n
    /\ q.work.used = W(r).used /\ q.work.at = W(r).at
    /\ OnRoute(q)

LEMMA GotoSane ==
    ASSUME TypeOK, NEW r \in Request, Busy(r),
           NEW label \in {"consume", "account", "put", "delete", "answer"},
           Goto(r, label),
           label \in {"answer"} \union StepsOf(W(r).op)
    PROVE  \E q : /\ req' = [req EXCEPT ![r] = q]
                  /\ Onward(r, q) /\ q.pc = label /\ q.work = W(r)
<1> DEFINE q == [req[r] EXCEPT !.pc = label]
<1>1. req[r] \in Invocation
  BY DEF TypeOK
<1>2. q \in Invocation /\ q.pc = label /\ q.work = W(r)
  BY <1>1 DEF Invocation, W
<1>3. req' = [req EXCEPT ![r] = q]
  BY DEF Goto
<1> HIDE DEF q
<1>4. Onward(r, q)
  BY <1>2 DEF Onward, OnRoute
<1> QED
  BY <1>2, <1>3, <1>4

-----------------------------------------------------------------------------
(* What a step of one request does to the ledger                           *)

GivenBy(q) == IF q.work.op \in Grants /\ q.pc = "answer" THEN {Deed(q.work)} ELSE {}
PendingBy(q) ==
    IF q.work.op \in Grants /\ q.pc \in {"account", "put"} THEN {Deed(q.work)} ELSE {}
KeyUsesBy(q) ==
    IF q.work.op = "keys" /\ q.pc \in {"account", "answer"} THEN {Deed(q.work)} ELSE {}

(* One request is replaced, the others stay. *)
LEMMA Replaced ==
    ASSUME TypeOK, NEW r \in Request, NEW q, req' = [req EXCEPT ![r] = q]
    PROVE  /\ \A s \in Request : req'[s] = IF s = r THEN q ELSE req[s]
           /\ \A s \in Request : W(s)' = IF s = r THEN q.work ELSE W(s)
<1>1. \A s \in Request : req'[s] = IF s = r THEN q ELSE req[s]
  BY DEF TypeOK
<1>2. ASSUME NEW s \in Request
      PROVE  W(s)' = IF s = r THEN q.work ELSE W(s)
  <2>1. W(s)' = req'[s].work /\ W(s) = req[s].work
    BY DEF W
  <2> QED
    BY <1>1, <2>1
<1> QED
  BY <1>1, <1>2

LEMMA RequestDeeds ==
    ASSUME TypeOK, NEW r \in Request, NEW q, req' = [req EXCEPT ![r] = q],
           UNCHANGED answered
    PROVE  /\ Given' \subseteq Given \union GivenBy(q)
           /\ Pending' \subseteq Pending \union PendingBy(q)
           /\ KeyUses' \subseteq KeyUses \union KeyUsesBy(q)
           /\ Known' = Known
<1>1. \A s \in Request : req'[s] = IF s = r THEN q ELSE req[s]
  BY Replaced
<1>2. \A s \in Request : W(s)' = IF s = r THEN q.work ELSE W(s)
  BY Replaced
<1>3. Given' \subseteq Given \union GivenBy(q)
  BY <1>1, <1>2 DEF Given, GivenBy, At
<1>4. Pending' \subseteq Pending \union PendingBy(q)
  BY <1>1, <1>2 DEF Pending, PendingBy
<1>5. KeyUses' \subseteq KeyUses \union KeyUsesBy(q)
  BY <1>1, <1>2 DEF KeyUses, KeyUsesBy
<1> QED
  BY <1>3, <1>4, <1>5 DEF Known

(* What a request has in the ledger. *)
LEMMA OwnDeeds ==
    ASSUME NEW r \in Request
    PROVE  /\ GivenBy(req[r]) \subseteq Given
           /\ PendingBy(req[r]) \subseteq Pending
           /\ KeyUsesBy(req[r]) \subseteq KeyUses
BY DEF GivenBy, PendingBy, KeyUsesBy, Given, Pending, KeyUses, W, At

LEMMA DeedParts ==
    ASSUME NEW w
    PROVE  /\ Deed(w).op = w.op /\ Deed(w).n = w.n /\ Deed(w).used = w.used
           /\ Deed(w).family = w.family /\ Deed(w).scope = w.scope
BY DEF Deed

(* No deed is of a request to come. *)
LEMMA DeedNumbered ==
    ASSUME TypeOK, Numbered, NEW d \in Given \union Pending
    PROVE  d.n <= arrived /\ d.n \in Nat
<1>1. arrived \in Nat
  BY DEF TypeOK
<1>2. \A x \in answered : x.n <= arrived /\ x.n \in Nat
  BY <1>1, AnswerTyped DEF Numbered
<1>3. \A r \in Request : Busy(r) => W(r).n <= arrived /\ W(r).n \in Nat
  BY WorkTyped DEF Numbered
<1>4. \A r \in Request : req[r].pc # "idle" => Busy(r)
  BY DEF Busy, At
<1>5. (\E x \in answered : d = Deed(x)) \/ (\E r \in Request : Busy(r) /\ d = Deed(W(r)))
  BY <1>4 DEF Given, Pending, At
<1> QED
  BY <1>2, <1>3, <1>5, DeedParts

(* The ledger only says what must not be there. *)
LEMMA LedgerShrinks ==
    ASSUME Ledger, code' \subseteq code, refresh' \subseteq refresh,
           keyfetch' \subseteq keyfetch, Given' \subseteq Given,
           Pending' \subseteq Pending, KeyUses' \subseteq KeyUses, Known \subseteq Known'
    PROVE  Ledger'
<1>1. Unused'
  BY DEF Ledger, Unused
<1>2. Once'
  BY DEF Ledger, Once
<1>3. OnePlace'
  BY DEF Ledger, OnePlace
<1>4. Narrowing'
  BY DEF Ledger, Narrowing
<1> QED
  BY <1>1, <1>2, <1>3, <1>4 DEF Ledger

LEMMA RevokedShrinks ==
    ASSUME TypeOK, Revoked, NEW r \in Request, NEW q, req' = [req EXCEPT ![r] = q],
           refresh' \subseteq refresh, UNCHANGED answered,
           Given' \union Pending' \subseteq Given \union Pending,
           q.pc = "answer" => q.work.op # "revoke"
    PROVE  Revoked'
<1>1. \A s \in Request : req'[s] = IF s = r THEN q ELSE req[s]
  BY Replaced
<1>2. \A s \in Request : W(s)' = IF s = r THEN q.work ELSE W(s)
  BY Replaced
<1> QED
  BY <1>1, <1>2 DEF Revoked, At

(* A request gets past verify_session_hawk in another step. *)
KeepsPassing(r, q) ==
    Passed(q) => Passed(req[r]) /\ q.work.used = W(r).used /\ q.work.at = W(r).at

LEMMA SignedOutKept ==
    ASSUME TypeOK, SignedOut, NEW r \in Request, NEW q, req' = [req EXCEPT ![r] = q],
           UNCHANGED <<session, answered, now>>,
           KeepsPassing(r, q),
           q.pc = "answer" => q.work.op # "sign out"
    PROVE  SignedOut'
<1>1. \A s \in Request : req'[s] = IF s = r THEN q ELSE req[s]
  BY Replaced
<1>2. \A s \in Request : W(s)' = IF s = r THEN q.work ELSE W(s)
  BY Replaced
<1>3. \A x \in answered, s \in Request :
        x.op = "sign out" /\ Passed(req'[s]) /\ W(s)'.used = x.used => W(s)'.at <= x.done + Lag
  BY <1>1, <1>2 DEF SignedOut, KeepsPassing
<1>4. \A s \in Request, t \in session :
        At(s, "answer")' /\ W(s)'.op = "sign out" /\ t.id = W(s)'.used => t.gone # -1
  BY <1>1, <1>2, SMTT(40), ZenonT(40) DEF SignedOut, At
<1> QED
  BY <1>3, <1>4 DEF SignedOut, SignedOutIsRefused

-----------------------------------------------------------------------------
(* What a step of one request does to the requests                         *)

LEMMA NumberedOnward ==
    ASSUME TypeOK, Numbered, Sanity, NEW r \in Request, Busy(r), NEW q, Onward(r, q),
           req' = [req EXCEPT ![r] = q], UNCHANGED <<answered, arrived, now>>
    PROVE  Numbered' /\ Sanity' /\ req' \in [Request -> Invocation]
<1>1. \A s \in Request : req'[s] = IF s = r THEN q ELSE req[s]
  BY Replaced
<1>2. \A s \in Request : W(s)' = IF s = r THEN q.work ELSE W(s)
  BY Replaced
<1>3. \A s \in Request :
        /\ Busy(s)' <=> Busy(s)
        /\ W(s)'.n = W(s).n /\ W(s)'.used = W(s).used /\ W(s)'.at = W(s).at
  BY <1>1, <1>2 DEF Busy, At, Onward
<1>4. Numbered'
  BY <1>3 DEF Numbered, Known
<1>5. Sanity'
  BY <1>1 DEF Sanity, Onward
<1> QED
  BY <1>4, <1>5 DEF TypeOK, Onward

LEMMA NumberedFinish ==
    ASSUME TypeOK, Numbered, Sanity, NEW r \in Request, Finish(r),
           UNCHANGED <<answered, arrived, now>>
    PROVE  Numbered' /\ Sanity' /\ req' \in [Request -> Invocation]
<1>1. \A s \in Request : req'[s] = IF s = r THEN Idle ELSE req[s]
  BY DEF TypeOK, Finish
<1>2. \A s \in Request : Busy(s)' => s # r /\ Busy(s) /\ W(s)' = W(s)
  BY <1>1, IdleSane DEF Busy, At, W
<1>3. Numbered'
  BY <1>2 DEF Numbered, Known
<1>4. Sanity'
  BY <1>1, IdleSane DEF Sanity
<1> QED
  BY <1>3, <1>4, IdleSane DEF TypeOK, Finish

(* Items that were there already keep their origin. *)
LEMMA OriginKept ==
    ASSUME TypeOK, Origin, NEW r \in Request, NEW q, req' = [req EXCEPT ![r] = q],
           code' \subseteq code, refresh' \subseteq refresh, UNCHANGED arrived,
           \/ q.pc = "idle"
           \/ Busy(r) /\ q.work.n = W(r).n /\ (At(r, "answer") => q.pc = "answer")
    PROVE  Origin'
<1>1. \A s \in Request : req'[s] = IF s = r THEN q ELSE req[s]
  BY Replaced
<1>2. \A s \in Request : W(s)' = IF s = r THEN q.work ELSE W(s)
  BY Replaced
<1> QED
  BY <1>1, <1>2 DEF Origin, Busy, At

(* A step that ends a request, and only takes items away. *)
LEMMA FinishStep ==
    ASSUME IInv, NEW r \in Request, Finish(r), UNCHANGED <<session, answered, arrived, now>>,
           code' \subseteq code, refresh' \subseteq refresh, keyfetch' \subseteq keyfetch
    PROVE  IInv'
<1>1. req' = [req EXCEPT ![r] = Idle]
  BY DEF Finish
<1>2. /\ GivenBy(Idle) = {} /\ PendingBy(Idle) = {} /\ KeyUsesBy(Idle) = {}
      /\ ~Passed(Idle) /\ Idle.pc # "answer"
  BY IdleSane DEF GivenBy, PendingBy, KeyUsesBy, Passed
<1>3. TypeOK /\ Numbered /\ Origin /\ Sanity /\ Ledger /\ Revoked /\ SignedOut
  BY DEF IInv
<1>4. /\ Given' \subseteq Given /\ Pending' \subseteq Pending /\ KeyUses' \subseteq KeyUses
      /\ Known' = Known
  BY <1>1, <1>2, <1>3, RequestDeeds
<1>5. Ledger'
  BY <1>3, <1>4, LedgerShrinks
<1>6. Revoked'
  BY <1>1, <1>2, <1>3, <1>4, RevokedShrinks
<1>7. SignedOut'
  BY <1>1, <1>2, <1>3, SignedOutKept DEF KeepsPassing
<1>8. Numbered' /\ Sanity' /\ req' \in [Request -> Invocation]
  BY <1>3, NumberedFinish
<1>9. Origin'
  BY <1>1, <1>3, IdleSane, OriginKept
<1>10. TypeOK'
  BY <1>3, <1>8 DEF TypeOK, Sanity
<1> QED
  BY <1>5, <1>6, <1>7, <1>8, <1>9, <1>10 DEF IInv

(* A step that takes a request on and puts nothing. *)
LEMMA Moves ==
    ASSUME IInv, NEW r \in Request, Busy(r), ~At(r, "answer"), NEW q, Onward(r, q),
           req' = [req EXCEPT ![r] = q],
           UNCHANGED <<answered, arrived, now>>, session' \subseteq Session,
           code' \subseteq code, refresh' \subseteq refresh, keyfetch' \subseteq keyfetch
    PROVE  /\ TypeOK' /\ Numbered' /\ Sanity' /\ Origin'
           /\ Given' \subseteq Given \union GivenBy(q)
           /\ Pending' \subseteq Pending \union PendingBy(q)
           /\ KeyUses' \subseteq KeyUses \union KeyUsesBy(q)
           /\ Known' = Known
<1>1. TypeOK /\ Numbered /\ Origin /\ Sanity
  BY DEF IInv
<1>2. Numbered' /\ Sanity' /\ req' \in [Request -> Invocation]
  BY <1>1, NumberedOnward
<1>3. Origin'
  BY <1>1, OriginKept DEF Onward
<1>4. TypeOK'
  BY <1>1, <1>2 DEF TypeOK, Sanity
<1> QED
  BY <1>1, <1>2, <1>3, <1>4, RequestDeeds

(* A step that takes a request on, puts nothing and adds no deed. *)
LEMMA OnwardStep ==
    ASSUME IInv, NEW r \in Request, Busy(r), ~At(r, "answer"), NEW q, Onward(r, q),
           req' = [req EXCEPT ![r] = q],
           GivenBy(q) \subseteq Given, PendingBy(q) \subseteq Pending,
           KeyUsesBy(q) \subseteq KeyUses,
           UNCHANGED <<session, answered, arrived, now>>,
           code' \subseteq code, refresh' \subseteq refresh, keyfetch' \subseteq keyfetch,
           q.pc = "answer" => q.work.op \notin {"revoke", "sign out"},
           Passed(q) => Passed(req[r])
    PROVE  IInv'
<1>1. TypeOK /\ Numbered /\ Origin /\ Sanity /\ Ledger /\ Revoked /\ SignedOut
  BY DEF IInv
<1>2. session' \subseteq Session
  BY <1>1 DEF TypeOK
<1>3. /\ TypeOK' /\ Numbered' /\ Sanity' /\ Origin'
      /\ Given' \subseteq Given /\ Pending' \subseteq Pending /\ KeyUses' \subseteq KeyUses
      /\ Known' = Known
  BY <1>2, Moves
<1>4. Ledger'
  BY <1>1, <1>3, LedgerShrinks
<1>5. Revoked'
  BY <1>1, <1>3, RevokedShrinks
<1>6. SignedOut'
  BY <1>1, SignedOutKept DEF Onward, KeepsPassing
<1> QED
  BY <1>3, <1>4, <1>5, <1>6 DEF IInv

-----------------------------------------------------------------------------
(* Arrivals and the session                                                *)

LEMMA StartStep ==
    ASSUME IInv, NEW r \in Request,
           NEW op \in Op, NEW label \in {"hawk", "consume", "delete"}, NEW used \in Known,
           NEW named \in BOOLEAN, NEW scope \in SUBSET Scope,
           Start(r, op, label, used, named, scope),
           label \in StepsOf(op), label = "hawk" <=> op \in SessionOps
    PROVE  IInv'
<1> DEFINE w == [op |-> op, n |-> arrived + 1, used |-> used,
                 family |-> 0, named |-> named, scope |-> scope, at |-> now]
           q == [pc |-> label, work |-> w]
<1>1. TypeOK /\ Numbered /\ Origin /\ Sanity /\ Ledger /\ Revoked /\ SignedOut
  BY DEF IInv
<1>2. arrived \in Nat /\ now \in Nat /\ arrived' = arrived + 1 /\ At(r, "idle")
  BY <1>1 DEF TypeOK, Start
<1>3. /\ req' = [req EXCEPT ![r] = q]
      /\ UNCHANGED <<session, keyfetch, code, refresh, answered, now>>
  BY DEF Start, items
<1>4. used \in Nat
  BY <1>1, AnswerTyped DEF Known
<1>5. q.pc = label /\ q.work = w
  OBVIOUS
<1>6. /\ w.op = op /\ w.n = arrived + 1 /\ w.used = used /\ w.at = now /\ w.scope = scope
      /\ w \in Work
  BY <1>2, <1>4 DEF Work
<1>7. q \in Invocation
  BY <1>5, <1>6 DEF Invocation
<1> HIDE DEF q, w
<1>8. OnRoute(q)
  BY <1>5, <1>6 DEF OnRoute
<1>9. GivenBy(q) = {} /\ PendingBy(q) = {} /\ KeyUsesBy(q) = {}
  BY <1>5 DEF GivenBy, PendingBy, KeyUsesBy
<1>10. ~Passed(q) /\ q.pc # "answer"
  BY <1>5, <1>6 DEF Passed
<1>11. /\ Given' \subseteq Given /\ Pending' \subseteq Pending /\ KeyUses' \subseteq KeyUses
       /\ Known' = Known
  BY <1>1, <1>3, <1>9, RequestDeeds
<1>12. Ledger'
  BY <1>1, <1>3, <1>11, LedgerShrinks
<1>13. Revoked'
  BY <1>1, <1>3, <1>10, <1>11, RevokedShrinks
<1>14. SignedOut'
  BY <1>1, <1>3, <1>10, SignedOutKept DEF KeepsPassing
<1>15. /\ \A s \in Request : req'[s] = IF s = r THEN q ELSE req[s]
       /\ \A s \in Request : W(s)' = IF s = r THEN w ELSE W(s)
  BY <1>1, <1>3, <1>5, Replaced, SMTT(40), ZenonT(40)
<1>16. req' \in [Request -> Invocation]
  BY <1>1, <1>3, <1>7 DEF TypeOK
<1>17. Sanity'
  BY <1>1, <1>8, <1>15 DEF Sanity
<1>18. TypeOK'
  BY <1>1, <1>2, <1>3, <1>16, <1>17 DEF TypeOK, Sanity
<1>19. \A s \in Request : Busy(s)' => s = r \/ Busy(s)
  BY <1>15 DEF Busy, At
<1>20. /\ \A x \in answered : x.n \in Nat /\ x.before \in Nat /\ x.n <= arrived
       /\ \A s \in Request : Busy(s) => W(s).n \in Nat /\ W(s).n <= arrived
  BY <1>1, <1>2, AnswerTyped, WorkTyped DEF Numbered
<1>21. arrived + 1 \notin Known
  BY <1>2, <1>20 DEF Known
<1>22. Numbered'
  <2>1. \A s \in Request : Busy(s)' =>
          /\ W(s)'.n >= 1 /\ W(s)'.n <= arrived'
          /\ W(s)'.n \notin Known' /\ W(s)'.used \in Known'
          /\ W(s)'.at <= now'
    BY <1>1, <1>2, <1>3, <1>6, <1>11, <1>15, <1>19, <1>20, <1>21 DEF Numbered
  <2>2. \A s, u \in Request : Busy(s)' /\ Busy(u)' /\ W(s)'.n = W(u)'.n => s = u
    BY <1>1, <1>2, <1>6, <1>15, <1>19, <1>20 DEF Numbered
  <2>3. \A x \in answered : x.before <= arrived'
    BY <1>1, <1>2, AnswerTyped DEF Numbered
  <2> QED
    BY <1>1, <1>3, <1>11, <2>1, <2>2, <2>3 DEF Numbered
<1>23. Origin'
  <2>1. \A i \in code \union refresh : i.id \in Nat
    BY <1>1 DEF TypeOK, Code, Refresh
  <2>2. \A i \in code \union refresh : i.id <= arrived' /\ i.id # arrived + 1
    BY <1>1, <1>2, <2>1 DEF Origin
  <2>3. \A s \in Request : Busy(s)' /\ W(s)'.n # arrived + 1 =>
          s # r /\ Busy(s) /\ W(s)' = W(s) /\ (At(s, "answer")' <=> At(s, "answer"))
    BY <1>6, <1>15, <1>19 DEF At
  <2> QED
    BY <1>1, <1>3, <2>2, <2>3 DEF Origin
<1> QED
  BY <1>12, <1>13, <1>14, <1>17, <1>18, <1>22, <1>23 DEF IInv

LEMMA ArriveStep ==
    ASSUME IInv, NEW r \in Request, Arrive(r)
    PROVE  IInv'
<1>1. 0 \in Known /\ \A ops : HandedOut(ops) \subseteq Known
  BY DEF Known, HandedOut
<1>2. {} \in SUBSET Scope
  OBVIOUS
<1>3. ASSUME ArriveAuthorize(r) PROVE IInv'
  BY <1>1, <1>2, <1>3, StartStep DEF ArriveAuthorize, Op, SessionOps, StepsOf
<1>4. ASSUME ArriveUseSession(r) PROVE IInv'
  BY <1>1, <1>2, <1>4, StartStep DEF ArriveUseSession, Op, SessionOps, StepsOf
<1>5. ASSUME ArriveSignOut(r) PROVE IInv'
  BY <1>1, <1>2, <1>5, StartStep DEF ArriveSignOut, Op, SessionOps, StepsOf
<1>6. ASSUME ArriveWithKeyFetch(r) PROVE IInv'
  BY <1>1, <1>2, <1>6, StartStep DEF ArriveWithKeyFetch, Op, SessionOps, StepsOf
<1>7. ASSUME ArriveWithCode(r) PROVE IInv'
  BY <1>1, <1>2, <1>7, StartStep DEF ArriveWithCode, Op, SessionOps, StepsOf
<1>8. ASSUME ArriveWithRefresh(r) PROVE IInv'
  <2>1. PICK t \in Known :
          \/ \E s \in SUBSET Scope : Start(r, "rotate", "consume", t, TRUE, s)
          \/ Start(r, "rotate", "consume", t, FALSE, {})
          \/ Start(r, "revoke", "delete", t, FALSE, {})
    BY <1>1, <1>8 DEF ArriveWithRefresh
  <2>2. ASSUME NEW n \in BOOLEAN, NEW s \in SUBSET Scope,
               Start(r, "rotate", "consume", t, n, s)
        PROVE  IInv'
    BY <2>2, StartStep DEF Op, SessionOps, StepsOf
  <2>3. ASSUME Start(r, "revoke", "delete", t, FALSE, {}) PROVE IInv'
    BY <1>2, <2>3, StartStep DEF Op, SessionOps, StepsOf
  <2> QED
    BY <1>2, <2>1, <2>2, <2>3
<1> QED
  BY <1>3, <1>4, <1>5, <1>6, <1>7, <1>8 DEF Arrive

LEMMA InTime ==
    ASSUME NEW at \in Nat, NEW t \in Nat, NEW gone \in Nat, NEW done \in Nat, NEW lag \in Nat,
           at <= t, t <= gone + lag, gone <= done
    PROVE  at <= done + lag
OBVIOUS

LEMMA VerifySessionStep ==
    ASSUME IInv, NEW r \in Request, VerifySession(r)
    PROVE  IInv'
<1>1. TypeOK /\ Numbered /\ Origin /\ Sanity /\ Ledger /\ Revoked /\ SignedOut
  BY DEF IInv
<1>2. UNCHANGED <<session, keyfetch, code, refresh, answered, arrived, now>>
  BY DEF VerifySession, items
<1>3. ASSUME Finish(r) PROVE IInv'
  BY <1>2, <1>3, FinishStep
<1>4. ASSUME NEW s \in session, s.id = W(r).used, Readable(s),
             NEW label \in AfterHawk(W(r).op), Goto(r, label)
      PROVE  IInv'
  <2>1. Busy(r) /\ At(r, "hawk") /\ ~At(r, "answer")
    BY DEF VerifySession, Busy, At
  <2>2. W(r).op \in SessionOps
    <3>1. W(r).op \in Op
      BY <1>1, WorkTyped
    <3>2. "hawk" \in {"idle", "answer"} \union StepsOf(W(r).op)
      BY <1>1, <2>1 DEF Sanity, OnRoute, At, W
    <3> QED
      BY <3>1, <3>2 DEF StepsOf, Op, SessionOps
  <2>3. /\ label \in {"consume", "account", "put", "delete", "answer"}
        /\ label = "answer" => W(r).op = "use session"
        /\ label \in {"answer"} \union StepsOf(W(r).op)
        /\ W(r).op \notin Grants /\ W(r).op \notin {"keys", "revoke"}
    BY <1>4, <2>2 DEF AfterHawk, StepsOf, SessionOps, Grants
  <2> label \in {"consume", "account", "put", "delete", "answer"}
    BY <2>3
  <2> Goto(r, label) /\ label \in {"answer"} \union StepsOf(W(r).op)
    BY <1>4, <2>3
  <2>4. PICK q : req' = [req EXCEPT ![r] = q] /\ Onward(r, q) /\ q.pc = label /\ q.work = W(r)
    BY <1>1, <2>1, GotoSane
  <2>5. GivenBy(q) = {} /\ PendingBy(q) = {} /\ KeyUsesBy(q) = {}
    BY <2>3, <2>4 DEF GivenBy, PendingBy, KeyUsesBy
  <2>6. session' \subseteq Session
    BY <1>1, <1>2 DEF TypeOK
  <2>7. /\ TypeOK' /\ Numbered' /\ Sanity' /\ Origin'
        /\ Given' \subseteq Given /\ Pending' \subseteq Pending /\ KeyUses' \subseteq KeyUses
        /\ Known' = Known
    BY <1>2, <2>1, <2>4, <2>5, <2>6, Moves
  <2>8. Ledger'
    BY <1>1, <1>2, <2>7, LedgerShrinks
  <2>9. Revoked'
    BY <1>1, <1>2, <2>3, <2>4, <2>7, RevokedShrinks
  <2>10. /\ \A t \in Request : req'[t] = IF t = r THEN q ELSE req[t]
         /\ \A t \in Request : W(t)' = IF t = r THEN q.work ELSE W(t)
    BY <1>1, <2>4, Replaced
  <2>11. \A x \in answered : x.op = "sign out" /\ x.used = W(r).used => W(r).at <= x.done + Lag
    <3> SUFFICES ASSUME NEW x \in answered, x.op = "sign out", x.used = W(r).used
                 PROVE  W(r).at <= x.done + Lag
      OBVIOUS
    <3>1. s.gone # -1 /\ s.gone <= x.done
      BY <1>1, <1>4 DEF SignedOut
    <3>2. s.gone \in Nat /\ x.done \in Nat /\ now \in Nat /\ W(r).at \in Nat
      BY <1>1, <3>1, AnswerTyped, WorkTyped DEF TypeOK, Session
    <3>3. now <= s.gone + Lag
      BY <1>4, <3>1 DEF Readable
    <3>4. W(r).at <= now
      BY <1>1, <2>1 DEF Numbered
    <3> QED
      BY <3>1, <3>2, <3>3, <3>4, ConstantsNatural, InTime
  <2>12. \A x \in answered, t \in Request :
           x.op = "sign out" /\ Passed(req'[t]) /\ W(t)'.used = x.used
             => W(t)'.at <= x.done + Lag
    BY <1>1, <2>4, <2>10, <2>11 DEF SignedOut
  <2>13. \A t \in Request, u \in session :
           At(t, "answer")' /\ W(t)'.op = "sign out" /\ u.id = W(t)'.used => u.gone # -1
    BY <1>1, <2>3, <2>4, <2>10, SMTT(40), ZenonT(40) DEF SignedOut, At
  <2>14. SignedOut'
    BY <1>1, <1>2, <2>12, <2>13 DEF SignedOut, SignedOutIsRefused
  <2> QED
    BY <2>7, <2>8, <2>9, <2>14 DEF IInv
<1> QED
  BY <1>3, <1>4 DEF VerifySession, W

LEMMA DestroySessionStep ==
    ASSUME IInv, NEW r \in Request, DestroySession(r)
    PROVE  IInv'
<1>1. TypeOK /\ Numbered /\ Origin /\ Sanity /\ Ledger /\ Revoked /\ SignedOut
  BY DEF IInv
<1>2. /\ UNCHANGED <<keyfetch, code, refresh, answered, arrived, now>>
      /\ At(r, "delete") /\ W(r).op = "sign out" /\ Busy(r) /\ ~At(r, "answer")
      /\ Goto(r, "answer")
  BY DEF DestroySession, Busy, At, Is, W
<1>3. session' = {IF s.id = W(r).used /\ s.gone = -1
                     THEN [s EXCEPT !.gone = now] ELSE s : s \in session}
  BY DEF DestroySession, W
<1>4. PICK q : req' = [req EXCEPT ![r] = q] /\ Onward(r, q) /\ q.pc = "answer" /\ q.work = W(r)
  BY <1>1, <1>2, GotoSane
<1>5. GivenBy(q) = {} /\ PendingBy(q) = {} /\ KeyUsesBy(q) = {}
  BY <1>2, <1>4 DEF GivenBy, PendingBy, KeyUsesBy, Grants
<1>6. now \in Nat /\ \A s \in session : s \in Session
  BY <1>1 DEF TypeOK
<1>7. \A u \in session' : \E s \in session :
        /\ u \in Session /\ u.id = s.id
        /\ s.gone # -1 => u.gone = s.gone
        /\ s.gone = -1 => u.gone \in {-1, now}
        /\ s.id = W(r).used => u.gone # -1
  <2> SUFFICES ASSUME NEW s \in session,
                      NEW u, u = IF s.id = W(r).used /\ s.gone = -1
                                   THEN [s EXCEPT !.gone = now] ELSE s
               PROVE  /\ u \in Session /\ u.id = s.id
                      /\ s.gone # -1 => u.gone = s.gone
                      /\ s.gone = -1 => u.gone \in {-1, now}
                      /\ s.id = W(r).used => u.gone # -1
    BY <1>3
  <2>1. CASE s.id = W(r).used /\ s.gone = -1
    BY <1>6, <2>1 DEF Session
  <2>2. CASE ~(s.id = W(r).used /\ s.gone = -1)
    BY <1>6, <2>2
  <2> QED
    BY <2>1, <2>2
<1>8. session' \subseteq Session
  BY <1>7
<1>9. /\ TypeOK' /\ Numbered' /\ Sanity' /\ Origin'
      /\ Given' \subseteq Given /\ Pending' \subseteq Pending /\ KeyUses' \subseteq KeyUses
      /\ Known' = Known
  BY <1>2, <1>4, <1>5, <1>8, Moves
<1>10. Ledger'
  BY <1>1, <1>2, <1>9, LedgerShrinks
<1>11. Revoked'
  BY <1>1, <1>2, <1>4, <1>9, RevokedShrinks
<1>12. /\ \A t \in Request : req'[t] = IF t = r THEN q ELSE req[t]
       /\ \A t \in Request : W(t)' = W(t)
  BY <1>1, <1>4, Replaced
<1>13. \A u \in session' : u.gone <= now
  <2> SUFFICES ASSUME NEW u \in session'
               PROVE  u.gone <= now
    OBVIOUS
  <2>1. PICK s \in session :
          (s.gone # -1 => u.gone = s.gone) /\ (s.gone = -1 => u.gone \in {-1, now})
    BY <1>7
  <2>2. s.gone <= now
    BY <1>1 DEF SignedOut
  <2>3. u.gone = s.gone \/ u.gone = -1 \/ u.gone = now
    BY <2>1
  <2> QED
    BY <1>6, <2>2, <2>3
<1>14. \A t \in Request, u \in session' :
         At(t, "answer")' /\ W(t)'.op = "sign out" /\ u.id = W(t)'.used => u.gone # -1
  BY <1>1, <1>7, <1>12, SMTT(40), ZenonT(40) DEF SignedOut, At
<1>15. \A x \in answered, u \in session' :
         x.op = "sign out" /\ u.id = x.used => u.gone # -1 /\ u.gone <= x.done
  BY <1>1, <1>7 DEF SignedOut
<1>16. Passed(req[r])
  BY <1>2 DEF Passed, At, W, SessionOps
<1>17. \A x \in answered, t \in Request :
         x.op = "sign out" /\ Passed(req'[t]) /\ W(t)'.used = x.used => W(t)'.at <= x.done + Lag
  BY <1>1, <1>12, <1>16 DEF SignedOut
<1>18. SignedOut'
  BY <1>1, <1>2, <1>13, <1>14, <1>15, <1>17 DEF SignedOut, SignedOutIsRefused
<1> QED
  BY <1>9, <1>10, <1>11, <1>18 DEF IInv

-----------------------------------------------------------------------------
(* What is for one use is consumed                                         *)

LEMMA ConsumeKeyFetchStep ==
    ASSUME IInv, NEW r \in Request, ConsumeKeyFetch(r)
    PROVE  IInv'
<1>1. TypeOK /\ Numbered /\ Origin /\ Sanity /\ Ledger /\ Revoked /\ SignedOut
  BY DEF IInv
<1>2. /\ UNCHANGED <<session, code, refresh, answered, arrived, now>>
      /\ At(r, "consume") /\ W(r).op = "keys" /\ Busy(r) /\ ~At(r, "answer")
  BY DEF ConsumeKeyFetch, Busy, At, Is, W
<1>3. ASSUME Finish(r), keyfetch' \subseteq keyfetch PROVE IInv'
  BY <1>2, <1>3, FinishStep
<1>4. ASSUME NEW k \in keyfetch, k.id = W(r).used, keyfetch' = keyfetch \ {k},
             Goto(r, "account")
      PROVE  IInv'
  <2>1. PICK q : req' = [req EXCEPT ![r] = q] /\ Onward(r, q) /\ q.pc = "account" /\ q.work = W(r)
    BY <1>1, <1>2, <1>4, GotoSane DEF StepsOf
  <2>2. GivenBy(q) = {} /\ PendingBy(q) = {} /\ KeyUsesBy(q) = {Deed(W(r))}
    BY <1>2, <2>1 DEF GivenBy, PendingBy, KeyUsesBy, Grants
  <2>3. session' \subseteq Session
    BY <1>1, <1>2 DEF TypeOK
  <2>4. /\ TypeOK' /\ Numbered' /\ Sanity' /\ Origin'
        /\ Given' \subseteq Given /\ Pending' \subseteq Pending
        /\ KeyUses' \subseteq KeyUses \union {Deed(W(r))}
        /\ Known' = Known
    BY <1>2, <1>4, <2>1, <2>2, <2>3, Moves
  <2>5. Deed(W(r)).used = k.id
    BY <1>4, DeedParts
  <2>6. Unused'
    BY <1>1, <1>2, <1>4, <2>4, <2>5 DEF Ledger, Unused
  <2>7. Once'
    BY <1>1, <2>4, <2>5 DEF Ledger, Unused, Once
  <2>8. OnePlace' /\ Narrowing'
    BY <1>1, <1>2, <2>4 DEF Ledger, OnePlace, Narrowing
  <2>9. Revoked'
    BY <1>1, <1>2, <2>1, <2>4, RevokedShrinks
  <2>10. KeepsPassing(r, q)
    BY <1>2, <2>1 DEF KeepsPassing, Passed, SessionOps
  <2>11. SignedOut'
    BY <1>1, <1>2, <2>1, <2>10, SignedOutKept
  <2> QED
    BY <2>4, <2>6, <2>7, <2>8, <2>9, <2>11 DEF IInv, Ledger
<1> QED
  BY <1>3, <1>4 DEF ConsumeKeyFetch, W

(* A deed is added to what is pending. *)
LEMMA LedgerGrant ==
    ASSUME Ledger, NEW d, Given' \subseteq Given, Pending' \subseteq Pending \union {d},
           KeyUses' \subseteq KeyUses, Known' = Known,
           keyfetch' \subseteq keyfetch, code' \subseteq code, refresh' \subseteq refresh,
           d.used \in Known, d.family \in Known,
           \A c \in code' : d.op = "exchange" => d.used # c.id,
           \A t \in refresh' : d.op = "rotate" => d.used # t.id,
           \A e \in Given \union Pending : d.op = e.op => d.used # e.used,
           \A t \in refresh' : t.family # d.family,
           \A c \in code' : c.id # d.family,
           \A p \in Pending : p.family # d.family,
           \A g \in Given : g.family = d.family => d.scope \subseteq g.scope
    PROVE  Ledger'
<1>1. Unused'
  BY DEF Ledger, Unused
<1>2. Once'
  <2>1. Given' \union Pending' \subseteq Given \union Pending \union {d}
    OBVIOUS
  <2>2. \A e, f \in Given \union Pending : e.op = f.op /\ e.used = f.used => e = f
    BY DEF Ledger, Once
  <2>3. \A e, f \in Given' \union Pending' : e.op = f.op /\ e.used = f.used => e = f
    BY <2>1, <2>2
  <2>4. \A e \in Given' \union Pending' : e.used \in Known' /\ e.family \in Known'
    BY <2>1 DEF Ledger, Once
  <2> QED
    BY <2>3, <2>4 DEF Ledger, Once
<1>3. OnePlace'
  BY DEF Ledger, OnePlace
<1>4. Narrowing'
  BY DEF Ledger, Narrowing
<1> QED
  BY <1>1, <1>2, <1>3, <1>4 DEF Ledger

(* The request that was granted something, in the state after. *)
LEMMA GrantedSane ==
    ASSUME TypeOK, NEW r \in Request, W(r).op \in Grants,
           NEW family \in Nat, NEW scope \in SUBSET Scope, Granted(r, family, scope)
    PROVE  \E q : /\ req' = [req EXCEPT ![r] = q] /\ Onward(r, q) /\ q.pc = "account"
                  /\ q.work.op = W(r).op /\ q.work.n = W(r).n /\ q.work.used = W(r).used
                  /\ q.work.family = family /\ q.work.scope = scope
<1> DEFINE w == [W(r) EXCEPT !.family = family, !.scope = scope]
           q == [req[r] EXCEPT !.pc = "account", !.work = w]
<1>1. W(r) \in Work /\ req[r] \in Invocation
  BY WorkTyped
<1>3. /\ w \in Work /\ w.op = W(r).op /\ w.n = W(r).n /\ w.used = W(r).used
      /\ w.at = W(r).at /\ w.family = family /\ w.scope = scope
  BY <1>1 DEF Work
<1>4. req' = [req EXCEPT ![r] = q]
  BY <1>1 DEF Granted, W
<1>5. q.pc = "account" /\ q.work = w
  BY <1>1 DEF Invocation
<1>6. q \in Invocation
  BY <1>1, <1>3 DEF Invocation
<1> HIDE DEF q, w
<1>7. OnRoute(q)
  BY <1>3, <1>5 DEF OnRoute, StepsOf, Grants
<1>8. Onward(r, q)
  BY <1>3, <1>5, <1>6, <1>7 DEF Onward
<1> QED
  BY <1>3, <1>4, <1>5, <1>8

(* A code or a refresh token is taken, and a request granted its family. *)
LEMMA GrantStep ==
    ASSUME IInv, NEW r \in Request, At(r, "consume"), W(r).op \in Grants,
           NEW family \in Known, NEW scope \in SUBSET Scope, Granted(r, family, scope),
           UNCHANGED <<session, keyfetch, answered, arrived, now>>,
           code' \subseteq code, refresh' \subseteq refresh,
           \A c \in code' : W(r).op = "exchange" => W(r).used # c.id,
           \A t \in refresh' : W(r).op = "rotate" => W(r).used # t.id,
           \A e \in Given \union Pending : W(r).op = e.op => W(r).used # e.used,
           \A t \in refresh' : t.family # family,
           \A c \in code' : c.id # family,
           \A p \in Pending : p.family # family,
           \A g \in Given : g.family = family => scope \subseteq g.scope,
           \A x \in answered : x.op = "revoke" /\ W(r).op = "rotate" => W(r).used # x.used
    PROVE  IInv'
<1>1. TypeOK /\ Numbered /\ Origin /\ Sanity /\ Ledger /\ Revoked /\ SignedOut
  BY DEF IInv
<1>2. Busy(r) /\ ~At(r, "answer")
  BY DEF Busy, At
<1>3. family \in Nat
  BY <1>1, AnswerTyped DEF Known
<1>4. PICK q : /\ req' = [req EXCEPT ![r] = q] /\ Onward(r, q) /\ q.pc = "account"
               /\ q.work.op = W(r).op /\ q.work.n = W(r).n /\ q.work.used = W(r).used
               /\ q.work.family = family /\ q.work.scope = scope
  BY <1>1, <1>3, GrantedSane
<1> DEFINE d == Deed(q.work)
<1>5. /\ d.op = W(r).op /\ d.n = W(r).n /\ d.used = W(r).used
      /\ d.family = family /\ d.scope = scope
  BY <1>4, DeedParts
<1>6. GivenBy(q) = {} /\ PendingBy(q) = {d} /\ KeyUsesBy(q) = {}
  BY <1>4 DEF GivenBy, PendingBy, KeyUsesBy, Grants
<1> HIDE DEF d
<1>7. session' \subseteq Session
  BY <1>1 DEF TypeOK
<1>8. /\ TypeOK' /\ Numbered' /\ Sanity' /\ Origin'
      /\ Given' \subseteq Given /\ Pending' \subseteq Pending \union {d}
      /\ KeyUses' \subseteq KeyUses
      /\ Known' = Known
  BY <1>2, <1>4, <1>6, <1>7, Moves
<1>9. d.used \in Known
  BY <1>1, <1>2, <1>5 DEF Numbered
<1>10. Ledger'
  BY <1>1, <1>5, <1>8, <1>9, LedgerGrant
<1>11. /\ \A s \in Request : req'[s] = IF s = r THEN q ELSE req[s]
       /\ \A s \in Request : W(s)' = IF s = r THEN q.work ELSE W(s)
  BY <1>1, <1>4, Replaced
<1>12. Revoked'
  <2>1. \A s \in Request, t \in refresh' :
          At(s, "answer")' /\ W(s)'.op = "revoke" => t.id # W(s)'.used
    BY <1>1, <1>4, <1>11 DEF Revoked, At
  <2>2. \A x \in answered, e \in Given' \union Pending' :
          x.op = "revoke" /\ e.op = "rotate" /\ e.used = x.used => e.n <= x.before
    BY <1>1, <1>5, <1>8 DEF Revoked
  <2> QED
    BY <1>1, <2>1, <2>2 DEF Revoked
<1>13. KeepsPassing(r, q) /\ q.pc # "answer"
  BY <1>4 DEF KeepsPassing, Passed, SessionOps, Grants
<1>14. SignedOut'
  BY <1>1, <1>4, <1>13, SignedOutKept
<1> QED
  BY <1>8, <1>10, <1>12, <1>14 DEF IInv

LEMMA ConsumeCodeStep ==
    ASSUME IInv, NEW r \in Request, ConsumeCode(r)
    PROVE  IInv'
<1>1. TypeOK /\ Numbered /\ Ledger
  BY DEF IInv
<1>2. /\ UNCHANGED <<session, keyfetch, refresh, answered, arrived, now>>
      /\ At(r, "consume") /\ W(r).op = "exchange" /\ W(r).op \in Grants /\ Busy(r)
  BY DEF ConsumeCode, Busy, At, Is, W, Grants
<1>3. ASSUME Finish(r), code' \subseteq code PROVE IInv'
  BY <1>2, <1>3, FinishStep
<1>4. ASSUME NEW c \in code, c.id = W(r).used, code' = code \ {c},
             Granted(r, c.id, c.scope)
      PROVE  IInv'
  <2>1. c.id \in Known
    BY <1>1, <1>2, <1>4 DEF Numbered
  <2>2. c.scope \in SUBSET Scope
    BY <1>1 DEF TypeOK, Code
  <2>3. /\ \A d \in code' : d.id # c.id
        /\ \A e \in Given \union Pending : e.op = "exchange" => e.used # c.id
    BY <1>1, <1>4 DEF Ledger, Unused
  <2>4. /\ \A t \in refresh' : t.family # c.id
        /\ \A p \in Pending : p.family # c.id
    BY <1>1, <1>2 DEF Ledger, OnePlace
  <2>5. \A g \in Given : g.family # c.id
    BY <1>1 DEF Ledger, Narrowing
  <2>6. W(r).op # "rotate"
    BY <1>2
  <2> QED
    BY <1>2, <1>4, <2>1, <2>2, <2>3, <2>4, <2>5, <2>6, GrantStep
<1> QED
  BY <1>3, <1>4 DEF ConsumeCode, W

LEMMA ConsumeRefreshStep ==
    ASSUME IInv, NEW r \in Request, ConsumeRefresh(r)
    PROVE  IInv'
<1>1. TypeOK /\ Numbered /\ Ledger /\ Revoked
  BY DEF IInv
<1>2. /\ UNCHANGED <<session, keyfetch, code, answered, arrived, now>>
      /\ At(r, "consume") /\ W(r).op = "rotate" /\ W(r).op \in Grants /\ Busy(r)
  BY DEF ConsumeRefresh, Busy, At, Is, W, Grants
<1>3. ASSUME Finish(r), refresh' \subseteq refresh PROVE IInv'
  BY <1>2, <1>3, FinishStep
<1>4. ASSUME NEW t \in refresh, t.id = W(r).used, refresh' = refresh \ {t},
             Wanted(r, t) \subseteq t.scope, Granted(r, t.family, Wanted(r, t))
      PROVE  IInv'
  <2>1. t.family \in Known
    BY <1>1 DEF Ledger, OnePlace
  <2>2. Wanted(r, t) \in SUBSET Scope
    <3>1. t.scope \in SUBSET Scope
      BY <1>1 DEF TypeOK, Refresh
    <3>2. W(r).scope \in SUBSET Scope
      BY <1>1, WorkTyped
    <3> QED
      BY <3>1, <3>2 DEF Wanted, W
  <2>3. /\ \A u \in refresh' : u.id # t.id
        /\ \A e \in Given \union Pending : e.op = "rotate" => e.used # t.id
    BY <1>1, <1>4 DEF Ledger, Unused
  <2>4. /\ \A u \in refresh' : u.family # t.family
        /\ \A c \in code' : c.id # t.family
        /\ \A p \in Pending : p.family # t.family
    BY <1>1, <1>2, <1>4 DEF Ledger, OnePlace
  <2>5. \A g \in Given : g.family = t.family => Wanted(r, t) \subseteq g.scope
    BY <1>1, <1>4 DEF Ledger, Narrowing
  <2>6. \A x \in answered : x.op = "revoke" => W(r).used # x.used
    BY <1>1, <1>4 DEF Revoked
  <2>7. W(r).op # "exchange"
    BY <1>2
  <2> QED
    BY <1>2, <1>4, <2>1, <2>2, <2>3, <2>4, <2>5, <2>6, <2>7, GrantStep
<1> QED
  BY <1>3, <1>4 DEF ConsumeRefresh, W

(* What a request that has its account goes on to do. *)
AfterAccount(op) == IF op \in Grants THEN "put" ELSE "answer"

LEMMA GetAccountStep ==
    ASSUME IInv, NEW r \in Request,
           NEW ops \in SUBSET {"use session", "keys", "exchange", "rotate"},
           NEW label, GetAccount(r, ops, label), label = AfterAccount(W(r).op)
    PROVE  IInv'
<1>1. TypeOK /\ Numbered /\ Sanity
  BY DEF IInv
<1>2. /\ UNCHANGED <<session, keyfetch, code, refresh, answered, arrived, now>>
      /\ At(r, "account") /\ W(r).op \in ops /\ Busy(r) /\ ~At(r, "answer")
  BY DEF GetAccount, Busy, At, W, items
<1>3. CASE Finish(r)
  BY <1>2, <1>3, FinishStep
<1>4. CASE Goto(r, label)
  <2>2. W(r).op \in {"use session", "keys", "exchange", "rotate"}
    BY <1>2
  <2>3. label \in {"answer"} \union StepsOf(W(r).op)
    BY <2>2 DEF AfterAccount, StepsOf, Grants
  <2>4. PICK q : req' = [req EXCEPT ![r] = q] /\ Onward(r, q) /\ q.pc = label /\ q.work = W(r)
    <3>1. CASE label = "put"
      <4>1. Goto(r, "put")
        BY <1>4, <3>1
      <4>2. PICK q : /\ req' = [req EXCEPT ![r] = q]
                     /\ Onward(r, q) /\ q.pc = "put" /\ q.work = W(r)
        BY <1>1, <1>2, <2>3, <3>1, <4>1, GotoSane
      <4> QED
        BY <3>1, <4>2
    <3>2. CASE label = "answer"
      <4>1. Goto(r, "answer")
        BY <1>4, <3>2
      <4>2. PICK q : /\ req' = [req EXCEPT ![r] = q]
                     /\ Onward(r, q) /\ q.pc = "answer" /\ q.work = W(r)
        BY <1>1, <1>2, <4>1, GotoSane
      <4> QED
        BY <3>2, <4>2
    <3> QED
      BY <3>1, <3>2 DEF AfterAccount
  <2>5. /\ GivenBy(q) \subseteq GivenBy(req[r]) /\ PendingBy(q) \subseteq PendingBy(req[r])
        /\ KeyUsesBy(q) \subseteq KeyUsesBy(req[r])
    BY <1>2, <2>4 DEF GivenBy, PendingBy, KeyUsesBy, Grants, At, W, AfterAccount
  <2>6. Passed(q) => Passed(req[r])
    BY <1>2, <2>4 DEF Passed, At, W
  <2>7. q.work.op \notin {"revoke", "sign out"}
    BY <2>2, <2>4
  <2> QED
    BY <1>2, <2>4, <2>5, <2>6, <2>7, OwnDeeds, OnwardStep
<1> QED
  BY <1>3, <1>4 DEF GetAccount

-----------------------------------------------------------------------------
(* Puts                                                                    *)

(* A new item has a number that no client knows and no item has. *)
LEMMA NewNumber ==
    ASSUME TypeOK, Numbered, Origin, NEW r \in Request, At(r, "put")
    PROVE  /\ Busy(r) /\ ~At(r, "answer")
           /\ W(r).n \in Nat /\ W(r).n <= arrived /\ W(r).n \notin Known
           /\ \A i \in code \union refresh : i.id # W(r).n
<1>1. Busy(r) /\ ~At(r, "answer")
  BY DEF Busy, At
<1> QED
  BY <1>1, WorkTyped DEF Numbered, Origin

LEMMA PutOrigin ==
    ASSUME TypeOK, Numbered, Origin, NEW r \in Request, At(r, "put"),
           NEW q, req' = [req EXCEPT ![r] = q], q.pc = "answer", q.work = W(r),
           UNCHANGED <<answered, arrived>>,
           \A i \in code' \union refresh' : i \in code \union refresh \/ i.id = W(r).n
    PROVE  Origin'
<1>1. /\ \A s \in Request : req'[s] = IF s = r THEN q ELSE req[s]
      /\ \A s \in Request : W(s)' = W(s)
  BY Replaced
<1>2. Busy(r) /\ W(r).n <= arrived
  BY NewNumber
<1>3. \A s \in Request : (Busy(s)' <=> Busy(s)) /\ (At(s, "answer") => At(s, "answer")')
  BY <1>1, <1>2 DEF Busy, At
<1>4. At(r, "answer")'
  BY <1>1 DEF At
<1>5. \A s \in Request : Busy(s) /\ W(s).n = W(r).n => s = r
  BY <1>2 DEF Numbered
<1>6. \A i \in code' \union refresh' : i.id <= arrived'
  BY <1>2 DEF Origin
<1>7. ASSUME NEW i \in code' \union refresh', NEW s \in Request, Busy(s)', W(s)'.n = i.id
      PROVE  At(s, "answer")'
  <2>1. Busy(s) /\ W(s).n = i.id
    BY <1>1, <1>3, <1>7
  <2>2. CASE i \in code \union refresh
    BY <1>3, <2>1, <2>2 DEF Origin
  <2>3. CASE i.id = W(r).n
    BY <1>4, <1>5, <2>1, <2>3
  <2> QED
    BY <2>2, <2>3
<1> QED
  BY <1>6, <1>7 DEF Origin

LEMMA PutCodeStep ==
    ASSUME IInv, NEW r \in Request, PutCode(r)
    PROVE  IInv'
<1>1. TypeOK /\ Numbered /\ Origin /\ Sanity /\ Ledger /\ Revoked /\ SignedOut
  BY DEF IInv
<1> DEFINE c == [id |-> W(r).n, scope |-> W(r).scope, expiry |-> now + Lifetime]
<1>2. /\ UNCHANGED <<session, keyfetch, refresh, answered, arrived, now>>
      /\ At(r, "put") /\ W(r).op = "authorize" /\ Goto(r, "answer")
      /\ code' = code \union {c}
  BY DEF PutCode, Is, W
<1>3. /\ Busy(r) /\ ~At(r, "answer")
      /\ W(r).n \in Nat /\ W(r).n <= arrived /\ W(r).n \notin Known
      /\ \A i \in code \union refresh : i.id # W(r).n
  BY <1>1, <1>2, NewNumber
<1>4. W(r).scope \in SUBSET Scope
  BY <1>1, WorkTyped
<1>5. c \in Code /\ c.id = W(r).n
  BY <1>1, <1>3, <1>4, ConstantsNatural DEF TypeOK, Code
<1> HIDE DEF c
<1>6. PICK q : req' = [req EXCEPT ![r] = q] /\ Onward(r, q) /\ q.pc = "answer" /\ q.work = W(r)
  BY <1>1, <1>2, <1>3, <1>4, GotoSane DEF Grants
<1>7. GivenBy(q) = {} /\ PendingBy(q) = {} /\ KeyUsesBy(q) = {}
  BY <1>2, <1>6 DEF GivenBy, PendingBy, KeyUsesBy, Grants
<1>8. /\ Given' \subseteq Given /\ Pending' \subseteq Pending /\ KeyUses' \subseteq KeyUses
      /\ Known' = Known
  BY <1>1, <1>2, <1>6, <1>7, RequestDeeds
<1>9. Numbered' /\ Sanity' /\ req' \in [Request -> Invocation]
  BY <1>1, <1>2, <1>3, <1>6, NumberedOnward
<1>10. Origin'
  BY <1>1, <1>2, <1>5, <1>6, PutOrigin
<1>11. TypeOK'
  BY <1>1, <1>2, <1>5, <1>9 DEF TypeOK, Sanity
<1>12. /\ \A d \in Given \union Pending : d.used # c.id /\ d.family # c.id
       /\ \A t \in refresh : t.family # c.id
  BY <1>1, <1>3, <1>5 DEF Ledger, Once, OnePlace
<1>13. Unused'
  BY <1>1, <1>2, <1>3, <1>5, <1>8, <1>12 DEF Ledger, Unused
<1>14. Once'
  BY <1>1, <1>8 DEF Ledger, Once
<1>15. OnePlace'
  BY <1>1, <1>2, <1>8, <1>12 DEF Ledger, OnePlace
<1>16. Narrowing'
  BY <1>1, <1>2, <1>8, <1>12 DEF Ledger, Narrowing
<1>17. q.work.op \notin {"revoke", "sign out"}
  BY <1>2, <1>6
<1>18. Revoked'
  BY <1>1, <1>2, <1>6, <1>8, <1>17, RevokedShrinks
<1>19. KeepsPassing(r, q)
  BY <1>2, <1>6 DEF KeepsPassing, Passed, At, W
<1>20. SignedOut'
  BY <1>1, <1>2, <1>6, <1>17, <1>19, SignedOutKept
<1> QED
  BY <1>9, <1>10, <1>11, <1>13, <1>14, <1>15, <1>16, <1>18, <1>20 DEF IInv, Ledger

LEMMA PutRefreshStep ==
    ASSUME IInv, NEW r \in Request, PutRefresh(r)
    PROVE  IInv'
<1>1. TypeOK /\ Numbered /\ Origin /\ Sanity /\ Ledger /\ Revoked /\ SignedOut
  BY DEF IInv
<1> DEFINE t0 == [id |-> W(r).n, family |-> W(r).family,
                  scope |-> W(r).scope, expiry |-> now + Lifetime]
           d0 == Deed(W(r))
<1>2. /\ UNCHANGED <<session, keyfetch, code, answered, arrived, now>>
      /\ At(r, "put") /\ W(r).op \in Grants /\ Goto(r, "answer")
      /\ refresh' = refresh \union {t0}
  BY DEF PutRefresh, Grants, W
<1>3. /\ Busy(r) /\ ~At(r, "answer")
      /\ W(r).n \in Nat /\ W(r).n <= arrived /\ W(r).n \notin Known
      /\ \A i \in code \union refresh : i.id # W(r).n
  BY <1>1, <1>2, NewNumber
<1>4. W(r).scope \in SUBSET Scope
  BY <1>1, WorkTyped
<1>5. /\ t0 \in Refresh
      /\ t0.id = W(r).n /\ t0.family = W(r).family /\ t0.scope = W(r).scope
  BY <1>1, <1>3, <1>4, WorkTyped, ConstantsNatural DEF TypeOK, Refresh
<1>6. /\ d0.n = W(r).n /\ d0.family = W(r).family /\ d0.scope = W(r).scope
      /\ d0 \in Pending
  BY <1>2, DeedParts DEF Pending, At
<1> HIDE DEF t0
<1>7. PICK q : req' = [req EXCEPT ![r] = q] /\ Onward(r, q) /\ q.pc = "answer" /\ q.work = W(r)
  BY <1>1, <1>2, <1>3, <1>4, GotoSane DEF Grants
<1>8. GivenBy(q) = {d0} /\ PendingBy(q) = {} /\ KeyUsesBy(q) = {}
  BY <1>2, <1>7 DEF GivenBy, PendingBy, KeyUsesBy, Grants
<1> HIDE DEF d0
<1>9. /\ Given' \subseteq Given \union {d0} /\ Pending' \subseteq Pending
      /\ KeyUses' \subseteq KeyUses
      /\ Known' = Known
  BY <1>1, <1>2, <1>7, <1>8, RequestDeeds
<1>10. /\ \A s \in Request : req'[s] = IF s = r THEN q ELSE req[s]
       /\ \A s \in Request : W(s)' = W(s)
  BY <1>1, <1>7, Replaced
<1>11. \A p \in Pending' : p # d0
  <2> SUFFICES ASSUME NEW p \in Pending' PROVE p.n # d0.n
    OBVIOUS
  <2>1. PICK s \in Request : req'[s].pc \in {"account", "put"} /\ p = Deed(W(s)')
    BY DEF Pending
  <2>2. s # r /\ Busy(s) /\ p.n = W(s).n
    BY <1>7, <1>10, <2>1, DeedParts DEF Busy, At
  <2> QED
    BY <1>1, <1>3, <1>6, <2>2 DEF Numbered
<1>12. \A p \in Pending' : p.family # d0.family
  BY <1>1, <1>6, <1>9, <1>11 DEF Ledger, OnePlace
<1>13. Numbered' /\ Sanity' /\ req' \in [Request -> Invocation]
  BY <1>1, <1>2, <1>3, <1>7, NumberedOnward
<1>14. Origin'
  BY <1>1, <1>2, <1>5, <1>7, PutOrigin
<1>15. TypeOK'
  BY <1>1, <1>2, <1>5, <1>13 DEF TypeOK, Sanity
<1>16. Given' \union Pending' \subseteq Given \union Pending
  BY <1>6, <1>9
<1>17. \A d \in Given \union Pending : d.used # t0.id
  BY <1>1, <1>3, <1>5 DEF Ledger, Once
<1>18. Unused'
  BY <1>1, <1>2, <1>3, <1>5, <1>9, <1>16, <1>17 DEF Ledger, Unused
<1>19. Once'
  BY <1>1, <1>9, <1>16 DEF Ledger, Once
<1>20. /\ \A t \in refresh : t.family # t0.family
       /\ \A c \in code : c.id # t0.family
       /\ t0.family \in Known
  BY <1>1, <1>5, <1>6 DEF Ledger, OnePlace, Once
<1>21. OnePlace'
  <2>1. \A p \in Pending' : p.family # t0.family
    BY <1>5, <1>6, <1>12
  <2> QED
    BY <1>1, <1>2, <1>9, <1>20, <2>1 DEF Ledger, OnePlace
<1>22. Narrowing'
  <2>1. \A g \in Given : g.family = d0.family => d0.scope \subseteq g.scope
    BY <1>1, <1>6 DEF Ledger, Narrowing
  <2>2. t0.family = d0.family /\ t0.scope = d0.scope
    BY <1>5, <1>6
  <2>3. \A g \in Given', t \in refresh' : t.family = g.family => t.scope \subseteq g.scope
    BY <1>1, <1>2, <1>9, <1>20, <2>1, <2>2 DEF Ledger, Narrowing
  <2>4. \A g \in Given', p \in Pending' : p.family = g.family => p.scope \subseteq g.scope
    BY <1>1, <1>9, <1>12 DEF Ledger, Narrowing
  <2>5. \A g \in Given', c \in code' : c.id # g.family
    BY <1>1, <1>2, <1>9, <1>20, <2>2 DEF Ledger, Narrowing
  <2> QED
    BY <2>3, <2>4, <2>5 DEF Narrowing
<1>23. q.work.op \notin {"revoke", "sign out"} /\ W(r).op \notin {"revoke", "sign out"}
  BY <1>2, <1>7 DEF Grants
<1>24. Revoked'
  <2>1. \A s \in Request : At(s, "answer")' /\ W(s)'.op = "revoke" => s # r /\ At(s, "answer")
    BY <1>10, <1>23 DEF At
  <2>2. \A s \in Request : At(s, "answer") => W(s).used # t0.id
    BY <1>1, <1>3, <1>5 DEF Numbered, Busy, At
  <2>3. \A s \in Request, t \in refresh' :
          At(s, "answer")' /\ W(s)'.op = "revoke" => t.id # W(s)'.used
    BY <1>1, <1>2, <1>10, <2>1, <2>2 DEF Revoked
  <2>4. \A x \in answered, t \in refresh' : x.op = "revoke" => t.id # x.used
    BY <1>1, <1>2, <1>3, <1>5 DEF Revoked, Numbered
  <2> QED
    BY <1>1, <1>2, <1>16, <2>3, <2>4 DEF Revoked
<1>25. KeepsPassing(r, q)
  BY <1>2, <1>7 DEF KeepsPassing, Passed, Grants, SessionOps
<1>26. SignedOut'
  BY <1>1, <1>2, <1>7, <1>23, <1>25, SignedOutKept
<1> QED
  BY <1>13, <1>14, <1>15, <1>18, <1>19, <1>21, <1>22, <1>24, <1>26 DEF IInv, Ledger

LEMMA RevokeStep ==
    ASSUME IInv, NEW r \in Request, Revoke(r)
    PROVE  IInv'
<1>1. TypeOK /\ Numbered /\ Origin /\ Sanity /\ Ledger /\ Revoked /\ SignedOut
  BY DEF IInv
<1>2. /\ UNCHANGED <<session, keyfetch, code, answered, arrived, now>>
      /\ At(r, "delete") /\ W(r).op = "revoke" /\ Goto(r, "answer")
      /\ Busy(r) /\ ~At(r, "answer")
      /\ refresh' \subseteq refresh /\ \A t \in refresh' : t.id # W(r).used
  BY DEF Revoke, Busy, At, Is, W
<1>3. PICK q : req' = [req EXCEPT ![r] = q] /\ Onward(r, q) /\ q.pc = "answer" /\ q.work = W(r)
  BY <1>1, <1>2, GotoSane DEF Grants
<1>4. GivenBy(q) = {} /\ PendingBy(q) = {} /\ KeyUsesBy(q) = {}
  BY <1>2, <1>3 DEF GivenBy, PendingBy, KeyUsesBy, Grants
<1>5. session' \subseteq Session
  BY <1>1, <1>2 DEF TypeOK
<1>6. /\ TypeOK' /\ Numbered' /\ Sanity' /\ Origin'
      /\ Given' \subseteq Given /\ Pending' \subseteq Pending /\ KeyUses' \subseteq KeyUses
      /\ Known' = Known
  BY <1>2, <1>3, <1>4, <1>5, Moves
<1>7. Ledger'
  BY <1>1, <1>2, <1>6, LedgerShrinks
<1>8. /\ \A s \in Request : req'[s] = IF s = r THEN q ELSE req[s]
      /\ \A s \in Request : W(s)' = W(s)
  BY <1>1, <1>3, Replaced
<1>9. \A s \in Request, t \in refresh' :
        At(s, "answer")' /\ W(s)'.op = "revoke" => t.id # W(s)'.used
  BY <1>1, <1>2, <1>8 DEF Revoked, At
<1>10. Revoked'
  BY <1>1, <1>2, <1>6, <1>9 DEF Revoked
<1>11. KeepsPassing(r, q) /\ q.work.op # "sign out"
  BY <1>2, <1>3 DEF KeepsPassing, Passed, SessionOps
<1>12. SignedOut'
  BY <1>1, <1>2, <1>3, <1>11, SignedOutKept
<1> QED
  BY <1>6, <1>7, <1>10, <1>12 DEF IInv

-----------------------------------------------------------------------------
(* Answers, the clock and the sweep                                        *)

LEMMA NoLater ==
    ASSUME NEW at \in Nat, NEW done \in Nat, NEW t \in Nat, at <= done, done <= t
    PROVE  at \in Nat /\ at <= t
OBVIOUS

LEMMA AnswerStep ==
    ASSUME IInv, NEW r \in Request, Answer(r)
    PROVE  IInv'
<1>1. TypeOK /\ Numbered /\ Origin /\ Sanity /\ Ledger /\ Revoked /\ SignedOut
  BY DEF IInv
<1> DEFINE x == [op |-> W(r).op, n |-> W(r).n, used |-> W(r).used, family |-> W(r).family,
                 scope |-> W(r).scope, at |-> W(r).at, before |-> arrived, done |-> now]
<1>2. /\ UNCHANGED <<session, keyfetch, code, refresh, arrived, now>>
      /\ At(r, "answer") /\ Busy(r) /\ Finish(r)
      /\ answered' = answered \union {x}
  BY DEF Answer, items, Busy, At, W
<1>3. /\ x.op = W(r).op /\ x.n = W(r).n /\ x.used = W(r).used /\ x.at = W(r).at
      /\ x.before = arrived /\ x.done = now /\ Deed(x) = Deed(W(r))
  BY DEF Deed
<1>4. x \in Answered /\ arrived \in Nat /\ now \in Nat
  BY <1>1, WorkTyped DEF TypeOK, Answered
<1> HIDE DEF x
<1>5. /\ W(r).n <= arrived /\ W(r).n \notin Known /\ W(r).used \in Known
      /\ W(r).at <= now
  BY <1>1, <1>2 DEF Numbered
<1>6. /\ \A s \in Request : req'[s] = IF s = r THEN Idle ELSE req[s]
      /\ \A s \in Request : s # r => W(s)' = W(s)
  BY <1>1, <1>2, Replaced DEF Finish
<1>7. \A s \in Request : req'[s].pc # "idle" => s # r /\ req'[s] = req[s] /\ W(s)' = W(s)
  BY <1>6, IdleSane
<1>8. \A s \in Request : Busy(s)' => s # r /\ Busy(s) /\ W(s)' = W(s)
  BY <1>7 DEF Busy, At
<1>9. Known' = Known \union {x.n}
  BY <1>2 DEF Known
<1>10. req' \in [Request -> Invocation]
  BY <1>1, <1>2, IdleSane DEF TypeOK, Finish
<1>11. Sanity'
  BY <1>1, <1>6, IdleSane DEF Sanity
<1>12. TypeOK'
  BY <1>1, <1>2, <1>4, <1>10, <1>11 DEF TypeOK, Sanity
<1>13. Numbered'
  <2>1. \A s \in Request : Busy(s)' =>
          /\ W(s)'.n >= 1 /\ W(s)'.n <= arrived'
          /\ W(s)'.n \notin Known' /\ W(s)'.used \in Known'
          /\ W(s)'.at <= now'
    BY <1>1, <1>2, <1>3, <1>8, <1>9 DEF Numbered
  <2>2. \A s, u \in Request : Busy(s)' /\ Busy(u)' /\ W(s)'.n = W(u)'.n => s = u
    BY <1>1, <1>8 DEF Numbered
  <2>3. \A y \in answered' :
          /\ y.n <= y.before /\ y.before <= arrived'
          /\ y.used \in Known'
          /\ y.at <= y.done /\ y.done <= now'
    BY <1>1, <1>2, <1>3, <1>4, <1>5, <1>9 DEF Numbered
  <2>4. \A y \in answered : y.n # x.n
    BY <1>3, <1>5 DEF Known
  <2>5. \A y, z \in answered' : y.n = z.n => y = z
    BY <1>1, <1>2, <2>4 DEF Numbered
  <2> QED
    BY <2>1, <2>2, <2>3, <2>5 DEF Numbered
<1>14. Origin'
  <2>1. \A s \in Request : Busy(s)' /\ At(s, "answer") => At(s, "answer")'
    BY <1>7 DEF Busy, At
  <2> QED
    BY <1>1, <1>2, <1>8, <2>1 DEF Origin
<1>15. /\ \A s \in Request : At(s, "answer")' => At(s, "answer") /\ W(s)' = W(s)
       /\ \A s \in Request : req'[s].pc \in {"account", "put"} =>
            req[s].pc = req'[s].pc /\ W(s)' = W(s)
       /\ \A s \in Request : req'[s].pc \in {"account", "answer"} =>
            req[s].pc = req'[s].pc /\ W(s)' = W(s)
  BY <1>7 DEF At
<1>16. Given' \subseteq Given
  <2>1. ASSUME NEW y \in answered', y.op \in Grants PROVE Deed(y) \in Given
    BY <1>2, <1>3, <2>1 DEF Given
  <2>2. ASSUME NEW s \in Request, At(s, "answer")', W(s)'.op \in Grants
        PROVE  Deed(W(s)') \in Given
    BY <1>15, <2>2 DEF Given
  <2> QED
    BY <2>1, <2>2 DEF Given
<1>17. Pending' \subseteq Pending
  BY <1>15 DEF Pending
<1>18. KeyUses' \subseteq KeyUses
  <2>1. ASSUME NEW y \in answered', y.op = "keys" PROVE Deed(y) \in KeyUses
    BY <1>2, <1>3, <2>1 DEF KeyUses, At
  <2>2. ASSUME NEW s \in Request, req'[s].pc \in {"account", "answer"}, W(s)'.op = "keys"
        PROVE  Deed(W(s)') \in KeyUses
    BY <1>15, <2>2 DEF KeyUses
  <2> QED
    BY <2>1, <2>2 DEF KeyUses
<1>19. Ledger'
  BY <1>1, <1>2, <1>9, <1>16, <1>17, <1>18, LedgerShrinks
<1>20. Revoked'
  <2>1. \A s \in Request, t \in refresh' :
          At(s, "answer")' /\ W(s)'.op = "revoke" => t.id # W(s)'.used
    BY <1>1, <1>2, <1>15 DEF Revoked
  <2>2. \A y \in answered', t \in refresh' : y.op = "revoke" => t.id # y.used
    BY <1>1, <1>2, <1>3 DEF Revoked
  <2>3. \A d \in Given \union Pending : d.n <= arrived
    BY <1>1, DeedNumbered
  <2>4. \A y \in answered', d \in Given' \union Pending' :
          y.op = "revoke" /\ d.op = "rotate" /\ d.used = y.used => d.n <= y.before
    BY <1>1, <1>2, <1>3, <1>16, <1>17, <2>3 DEF Revoked
  <2> QED
    BY <2>1, <2>2, <2>4 DEF Revoked
<1>21. SignedOut'
  <2>1. \A s \in session' : s.gone <= now'
    BY <1>1, <1>2 DEF SignedOut
  <2>2. \A t \in Request, s \in session' :
          At(t, "answer")' /\ W(t)'.op = "sign out" /\ s.id = W(t)'.used => s.gone # -1
    BY <1>1, <1>2, <1>15 DEF SignedOut
  <2>3. \A y \in answered', s \in session' :
          y.op = "sign out" /\ s.id = y.used => s.gone # -1 /\ s.gone <= y.done
    BY <1>1, <1>2, <1>3 DEF SignedOut
  <2>4. ASSUME NEW at \in Nat, at <= now PROVE at <= now + Lag
    BY <1>4, <2>4, ConstantsNatural
  <2>5. \A t \in Request : Passed(req'[t]) => Passed(req[t]) /\ Busy(t) /\ W(t)' = W(t)
    BY <1>7 DEF Passed, Busy, At
  <2>6. \A y \in answered', t \in Request :
          y.op = "sign out" /\ Passed(req'[t]) /\ W(t)'.used = y.used
            => W(t)'.at <= y.done + Lag
    <3> SUFFICES ASSUME NEW y \in answered', NEW t \in Request,
                        y.op = "sign out", Passed(req'[t]), W(t)'.used = y.used
                 PROVE  W(t)'.at <= y.done + Lag
      OBVIOUS
    <3>1. Passed(req[t]) /\ Busy(t) /\ W(t)' = W(t)
      BY <2>5
    <3>2. W(t).at \in Nat /\ W(t).at <= now
      BY <1>1, <3>1, WorkTyped DEF Numbered
    <3>3. CASE y \in answered
      BY <1>1, <3>1, <3>3 DEF SignedOut
    <3>4. CASE y = x
      BY <1>3, <2>4, <3>1, <3>2, <3>4
    <3> QED
      BY <1>2, <3>3, <3>4
  <2>7. \A y, z \in answered' :
          y.op = "sign out" /\ z.op \in SessionOps /\ z.used = y.used
            => z.at <= y.done + Lag
    <3> SUFFICES ASSUME NEW y \in answered', NEW z \in answered',
                        y.op = "sign out", z.op \in SessionOps, z.used = y.used
                 PROVE  z.at <= y.done + Lag
      OBVIOUS
    <3>1. z.at \in Nat /\ z.at <= now
      <4>1. CASE z \in answered
        <5>1. z.at \in Nat /\ z.done \in Nat /\ z.at <= z.done /\ z.done <= now
          BY <1>1, <4>1, AnswerTyped DEF Numbered
        <5> QED
          BY <1>4, <5>1, NoLater
      <4>2. CASE z = x
        BY <1>1, <1>3, <1>5, <4>2, WorkTyped
      <4> QED
        BY <1>2, <4>1, <4>2
    <3>2. CASE y = x
      BY <1>3, <2>4, <3>1, <3>2
    <3>3. CASE y \in answered /\ z \in answered
      BY <1>1, <3>3 DEF SignedOut, SignedOutIsRefused
    <3>4. CASE y \in answered /\ z = x
      <4>1. Passed(req[r]) /\ W(r).used = y.used
        BY <1>2, <1>3, <3>4 DEF Passed, At, W
      <4> QED
        BY <1>1, <1>3, <3>4, <4>1 DEF SignedOut
    <3> QED
      BY <1>2, <3>2, <3>3, <3>4
  <2> QED
    BY <2>1, <2>2, <2>3, <2>6, <2>7 DEF SignedOut, SignedOutIsRefused
<1> QED
  BY <1>11, <1>12, <1>13, <1>14, <1>19, <1>20, <1>21 DEF IInv

LEMMA CrashStep ==
    ASSUME IInv, NEW r \in Request, Crash(r)
    PROVE  IInv'
BY FinishStep DEF Crash, items

(* Whatever only takes items away. *)
LEMMA SweepStep ==
    ASSUME IInv, session' \subseteq session, keyfetch' \subseteq keyfetch,
           code' \subseteq code, refresh' \subseteq refresh,
           UNCHANGED <<req, answered, arrived, now>>
    PROVE  IInv'
<1>1. TypeOK /\ Numbered /\ Origin /\ Sanity /\ Ledger /\ Revoked /\ SignedOut
  BY DEF IInv
<1>2. req' = req /\ answered' = answered /\ arrived' = arrived /\ now' = now
  OBVIOUS
<1>3. Given' = Given /\ Pending' = Pending /\ KeyUses' = KeyUses /\ Known' = Known
  BY <1>2 DEF Given, Pending, KeyUses, Known, W, At
<1>4. TypeOK'
  BY <1>1 DEF TypeOK
<1>5. Numbered'
  BY <1>1, <1>2, <1>3 DEF Numbered, Busy, At, W
<1>6. Origin'
  BY <1>1, <1>2 DEF Origin, Busy, At, W
<1>7. Sanity'
  BY <1>1 DEF Sanity
<1>8. Ledger'
  BY <1>1, <1>3, LedgerShrinks
<1>9. Revoked'
  BY <1>1, <1>2, <1>3 DEF Revoked, At, W
<1>10. SignedOut'
  BY <1>1, <1>2 DEF SignedOut, At, W, SignedOutIsRefused
<1> QED
  BY <1>4, <1>5, <1>6, <1>7, <1>8, <1>9, <1>10 DEF IInv

LEMMA TickStep ==
    ASSUME IInv, Tick
    PROVE  IInv'
<1>1. TypeOK /\ Numbered /\ Origin /\ Sanity /\ Ledger /\ Revoked /\ SignedOut
  BY DEF IInv
<1>2. /\ UNCHANGED <<session, keyfetch, code, refresh, req, answered, arrived>>
      /\ now \in Nat /\ now' = now + 1
  BY <1>1 DEF Tick, items, TypeOK
<1>3. Given' = Given /\ Pending' = Pending /\ KeyUses' = KeyUses /\ Known' = Known
  BY <1>2 DEF Given, Pending, KeyUses, Known, W, At
<1>4. TypeOK'
  BY <1>1, <1>2 DEF TypeOK
<1>5. Numbered'
  <2>1. \A r \in Request : Busy(r) => W(r).at <= now'
    <3> SUFFICES ASSUME NEW r \in Request, Busy(r) PROVE W(r).at <= now'
      OBVIOUS
    <3>1. W(r).at \in Nat /\ W(r).at <= now
      BY <1>1, WorkTyped DEF Numbered
    <3> QED
      BY <1>2, <3>1
  <2>2. \A x \in answered : x.done <= now'
    BY <1>1, <1>2, AnswerTyped DEF Numbered
  <2> QED
    BY <1>1, <1>2, <1>3, <2>1, <2>2 DEF Numbered, Busy, At, W
<1>6. Origin'
  BY <1>1, <1>2 DEF Origin, Busy, At, W
<1>7. Sanity'
  BY <1>1, <1>2 DEF Sanity
<1>8. Ledger'
  BY <1>1, <1>2, <1>3, LedgerShrinks
<1>9. Revoked'
  BY <1>1, <1>2, <1>3 DEF Revoked, At, W
<1>10. \A s \in session : s.gone <= now'
  <2> SUFFICES ASSUME NEW s \in session PROVE s.gone <= now'
    OBVIOUS
  <2>1. s.gone \in Nat \union {-1} /\ s.gone <= now
    BY <1>1 DEF TypeOK, Session, SignedOut
  <2> QED
    BY <1>2, <2>1
<1>11. SignedOut'
  BY <1>1, <1>2, <1>10 DEF SignedOut, At, W, SignedOutIsRefused
<1> QED
  BY <1>4, <1>5, <1>6, <1>7, <1>8, <1>9, <1>11 DEF IInv

-----------------------------------------------------------------------------
LEMMA InitInv == Init => IInv
<1> SUFFICES ASSUME Init PROVE IInv
  OBVIOUS
<1>1. /\ answered = {} /\ refresh = {} /\ arrived = 0 /\ now = 0
      /\ \A r \in Request : req[r] = Idle
      /\ req = [r \in Request |-> Idle]
      /\ session = {[id |-> 0, expiry |-> SessionLifetime, gone |-> -1]}
      /\ keyfetch = {[id |-> 0, expiry |-> Lifetime]}
  BY DEF Init
<1>2. code = {[id |-> 0, scope |-> FirstScope, expiry |-> Lifetime]} /\ FirstScope \subseteq Scope
  BY AuthTokenAssumption DEF Init
<1>3. \A r \in Request : ~Busy(r) /\ At(r, "idle") /\ req[r].pc = "idle" /\ OnRoute(req[r])
  BY <1>1, IdleSane DEF Busy, At
<1>4. Given = {} /\ Pending = {} /\ KeyUses = {}
  BY <1>1, <1>3 DEF Given, Pending, KeyUses, At
<1>5. req \in [Request -> Invocation]
  BY <1>1, IdleSane
<1>6. code \subseteq Code /\ keyfetch \subseteq KeyFetch /\ session \subseteq Session
  BY <1>1, <1>2, ConstantsNatural DEF Code, KeyFetch, Session
<1>7. TypeOK
  BY <1>1, <1>3, <1>5, <1>6 DEF TypeOK
<1>8. Numbered
  BY <1>1, <1>3 DEF Numbered
<1>9. Origin
  BY <1>1, <1>2, <1>3 DEF Origin
<1>10. Sanity
  BY <1>3 DEF Sanity
<1>11. Ledger
  BY <1>1, <1>2, <1>4 DEF Ledger, Unused, Once, OnePlace, Narrowing
<1>12. Revoked
  BY <1>1, <1>4 DEF Revoked
<1>13. SignedOut
  <2>1. \A s \in session : s.gone <= now
    BY <1>1
  <2>2. \A r \in Request : ~At(r, "answer")
    BY <1>3 DEF At
  <2> QED
    BY <1>1, <2>1, <2>2 DEF SignedOut, SignedOutIsRefused
<1> QED
  BY <1>7, <1>8, <1>9, <1>10, <1>11, <1>12, <1>13 DEF IInv

LEMMA NextInv == IInv /\ [Next]_vars => IInv'
<1> SUFFICES ASSUME IInv, [Next]_vars PROVE IInv'
  OBVIOUS
<1>1. ASSUME NEW r \in Request, Arrive(r) PROVE IInv'
  BY <1>1, ArriveStep
<1>2. ASSUME NEW r \in Request, VerifySession(r) PROVE IInv'
  BY <1>2, VerifySessionStep
<1>3. ASSUME NEW r \in Request, DestroySession(r) PROVE IInv'
  BY <1>3, DestroySessionStep
<1>4. ASSUME NEW r \in Request, Consume(r) PROVE IInv'
  BY <1>4, ConsumeKeyFetchStep, ConsumeCodeStep, ConsumeRefreshStep DEF Consume
<1>5. ASSUME NEW r \in Request, GetAccountOfSession(r) PROVE IInv'
  <2>1. GetAccount(r, {"use session"}, "answer") /\ W(r).op = "use session"
    BY <1>5 DEF GetAccountOfSession, GetAccount, W
  <2>2. "answer" = AfterAccount(W(r).op)
    BY <2>1 DEF AfterAccount, Grants
  <2> QED
    BY <2>1, <2>2, GetAccountStep
<1>6. ASSUME NEW r \in Request, GetAccountOfKeys(r) PROVE IInv'
  <2>1. GetAccount(r, {"keys"}, "answer") /\ W(r).op = "keys"
    BY <1>6 DEF GetAccountOfKeys, GetAccount, W
  <2>2. "answer" = AfterAccount(W(r).op)
    BY <2>1 DEF AfterAccount, Grants
  <2> QED
    BY <2>1, <2>2, GetAccountStep
<1>7. ASSUME NEW r \in Request, GetAccountOfGrant(r) PROVE IInv'
  <2>1. GetAccount(r, {"exchange", "rotate"}, "put") /\ W(r).op \in {"exchange", "rotate"}
    BY <1>7 DEF GetAccountOfGrant, GetAccount, W
  <2>2. "put" = AfterAccount(W(r).op)
    BY <2>1 DEF AfterAccount, Grants
  <2> QED
    BY <2>1, <2>2, GetAccountStep
<1>8. ASSUME NEW r \in Request, PutCode(r) PROVE IInv'
  BY <1>8, PutCodeStep
<1>9. ASSUME NEW r \in Request, PutRefresh(r) PROVE IInv'
  BY <1>9, PutRefreshStep
<1>10. ASSUME NEW r \in Request, Revoke(r) PROVE IInv'
  BY <1>10, RevokeStep
<1>11. ASSUME NEW r \in Request, Answer(r) PROVE IInv'
  BY <1>11, AnswerStep
<1>12. ASSUME NEW r \in Request, Crash(r) PROVE IInv'
  BY <1>12, CrashStep
<1>13. ASSUME Sweep PROVE IInv'
  BY <1>13, SweepStep DEF Sweep, Fresh
<1>14. ASSUME Tick PROVE IInv'
  BY <1>14, TickStep
<1>15. ASSUME UNCHANGED vars PROVE IInv'
  BY <1>15, SweepStep DEF vars, items
<1> QED
  BY <1>1, <1>2, <1>3, <1>4, <1>5, <1>6, <1>7, <1>8, <1>9, <1>10, <1>11, <1>12,
     <1>13, <1>14, <1>15 DEF Next, Handle

LEMMA Invariant == Spec => []IInv
BY InitInv, NextInv, PTL DEF Spec

(* Types hold. *)
THEOREM TokensTyped == Spec => []TypeOK
<1>1. IInv => TypeOK
  BY DEF IInv
<1> QED
  BY <1>1, Invariant, PTL

(* A code, a key-fetch token and a refresh token give one answer: two      *)
(* answers for the same one are the same deed, and a deed has one request. *)
THEOREM SingleUse == Spec => []UsedOnce
<1>1. IInv => UsedOnce
  <2> SUFFICES ASSUME IInv, NEW x \in answered, NEW y \in answered,
                      x.op \in {"exchange", "rotate", "keys"},
                      y.op = x.op, y.used = x.used
               PROVE  x = y
    BY DEF UsedOnce
  <2>1. Once /\ Numbered
    BY DEF IInv, Ledger
  <2>2. Deed(x).used = Deed(y).used /\ Deed(x).op = Deed(y).op
    BY DeedParts
  <2>3. CASE x.op = "keys"
    <3>1. Deed(x) \in KeyUses /\ Deed(y) \in KeyUses
      BY <2>3 DEF KeyUses
    <3>2. Deed(x) = Deed(y)
      BY <2>1, <2>2, <3>1 DEF Once
    <3> QED
      BY <2>1, <3>2, DeedParts DEF Numbered
  <2>4. CASE x.op \in Grants
    <3>1. Deed(x) \in Given /\ Deed(y) \in Given
      BY <2>4 DEF Given
    <3>2. Deed(x) = Deed(y)
      BY <2>1, <2>2, <3>1 DEF Once
    <3> QED
      BY <2>1, <3>2, DeedParts DEF Numbered
  <2> QED
    BY <2>3, <2>4 DEF Grants
<1> QED
  BY <1>1, Invariant, PTL

(* The refresh tokens that descend from one code never become two. *)
THEOREM NoFork == Spec => []RotationNeverForks
<1>1. IInv => RotationNeverForks
  BY DEF IInv, Ledger, OnePlace, RotationNeverForks
<1> QED
  BY <1>1, Invariant, PTL

(* A scope that a rotation gave up does not come back. *)
THEOREM NoRegain == Spec => []ScopeOnlyNarrows
<1>1. IInv => ScopeOnlyNarrows
  <2> SUFFICES ASSUME IInv, NEW t \in refresh, NEW x \in answered,
                      x.op \in Grants, x.family = t.family
               PROVE  t.scope \subseteq x.scope
    BY DEF ScopeOnlyNarrows, Grants
  <2>1. Deed(x) \in Given /\ Deed(x).family = x.family /\ Deed(x).scope = x.scope
    BY DeedParts DEF Given
  <2> QED
    BY <2>1 DEF IInv, Ledger, Narrowing
<1> QED
  BY <1>1, Invariant, PTL

(* A refresh token whose revocation was answered gives nothing more. *)
THEOREM RevocationHolds == Spec => []RevokedIsRefused
<1>1. IInv => RevokedIsRefused
  <2> SUFFICES ASSUME IInv, NEW x \in answered, NEW y \in answered,
                      x.op = "revoke", y.op = "rotate", y.used = x.used
               PROVE  y.n <= x.before
    BY DEF RevokedIsRefused
  <2>1. /\ Deed(y) \in Given /\ Deed(y).op = "rotate"
        /\ Deed(y).used = y.used /\ Deed(y).n = y.n
    BY DeedParts DEF Given, Grants
  <2> QED
    BY <2>1 DEF IInv, Revoked
<1> QED
  BY <1>1, Invariant, PTL

(* A session that was signed out gives nothing once reads have caught up. *)
THEOREM SignOutHolds == Spec => []SignedOutIsRefused
<1>1. IInv => SignedOutIsRefused
  BY DEF IInv, SignedOut
<1> QED
  BY <1>1, Invariant, PTL
=============================================================================
