---------------------- MODULE HawkAuthenticationProofs ----------------------
(***************************************************************************)
(* A signed request is accepted once, for any number of processes, any     *)
(* clock skew, and any time limit that a swept nonce outlives; a replaced  *)
(* key fades; an expired token is refused.                                 *)
(*                                                                         *)
(* The argument for the first: the nonce of an accepted request stays on   *)
(* record until SweepLag after done + 2 * Skew.  A duplicate that does not *)
(* find it is looked at later than that, so it began more than 2 * Skew    *)
(* after the first one was checked; but the timestamp in both is the same, *)
(* and it is within Skew of both.                                          *)
(***************************************************************************)
EXTENDS HawkAuthentication, FunctionTheorems, FiniteSetTheorems, TLAPS

(* Signed requests and keys are numbered. *)
SignedNumbered ==
    /\ IsFiniteSet(signed)
    /\ \A m \in signed : m.n <= Cardinality(signed)
    /\ \A m, k \in signed : m.n = k.n => m = k

KeysNumbered ==
    /\ IsFiniteSet(token)
    /\ \A t \in token : t.key <= Cardinality(token)
    /\ \A t, u \in token : t.key = u.key => t = u
    /\ \A t \in token : t.gone <= now

(* An invocation works on a signed request, and not beyond its time limit. *)
WithinLimit(begun, checked, time, id) ==
    begun <= checked /\ checked <= time /\ time <= begun + Patience /\ begun < id

RunInTime ==
    \A p \in Process : ~At(p, "idle") =>
        /\ M(p) \in signed
        /\ WithinLimit(run[p].begun, run[p].checked, now, M(p).id)

AcceptedInTime ==
    \A x \in accepted :
        /\ x.message \in signed
        /\ WithinLimit(x.begun, x.checked, x.done, x.message.id)
        /\ x.done <= now
        /\ x.message.ts <= x.checked + Skew
        /\ x.checked <= x.message.ts + Skew

(* The nonce of an accepted request is there, or has been for long enough. *)
NonceKept ==
    \A x \in accepted :
        \/ \E e \in nonce : e.n = x.message.n /\ e.expiry >= x.done + Skew * 2
        \/ now > x.done + Skew * 2 + SweepLag

(* By then, key was not replaced for longer than ReadLag + CacheTTL. *)
Faded(key, time) ==
    \A t \in token : t.key = key /\ t.gone # -1 => time <= t.gone + ReadLag + CacheTTL

CacheFades ==
    \A p \in Process : \A c \in cache[p] :
        c.until <= now + CacheTTL /\ Faded(c.key, c.until)

RunFades == \A p \in Process : At(p, "nonce") => Faded(M(p).key, run[p].checked)

AcceptedFades == \A x \in accepted : Faded(x.message.key, x.checked)

IInv ==
    /\ TypeOK
    /\ SignedNumbered
    /\ KeysNumbered
    /\ RunInTime
    /\ AcceptedInTime
    /\ NonceKept
    /\ AcceptedOnce
    /\ CacheFades
    /\ RunFades
    /\ AcceptedFades

-----------------------------------------------------------------------------
LEMMA ConstantsNatural ==
    /\ Skew \in Nat /\ TokenDuration \in Nat /\ CacheTTL \in Nat
    /\ Patience \in Nat /\ SweepLag \in Nat /\ ReadLag \in Nat
    /\ Patience <= SweepLag
BY HawkAssumption

LEMMA IdleSane == Idle \in Invocation /\ Idle.pc = "idle"
BY DEF Idle, Invocation, NoMessage, Message

(* Replacing a set by the image of an injective operator keeps its size. *)
LEMMA SameSize ==
    ASSUME NEW S, IsFiniteSet(S), NEW f, f = [s \in S |-> f[s]],
           \A s, t \in S : f[s] = f[t] => s = t
    PROVE  /\ IsFiniteSet({f[s] : s \in S})
           /\ Cardinality({f[s] : s \in S}) = Cardinality(S)
<1> DEFINE T == {f[s] : s \in S}
<1>1. f \in [S -> T]
  OBVIOUS
<1>2. f \in Surjection(S, T)
  BY <1>1 DEF Surjection
<1>3. f \in Injection(S, T)
  BY <1>1 DEF Injection, IsInjective
<1> QED
  BY <1>2, <1>3, FS_Surjection

(* A process that gives up leaves the rest as it is. *)
LEMMA RefuseSane ==
    ASSUME TypeOK, RunInTime, RunFades, NEW p \in Process, Refuse(p),
           UNCHANGED <<token, signed, now>>
    PROVE  run' \in [Process -> Invocation] /\ RunInTime' /\ RunFades'
<1>1. run' \in [Process -> Invocation]
  BY IdleSane DEF TypeOK, Refuse
<1>2. \A q \in Process : run'[q] = IF q = p THEN Idle ELSE run[q]
  BY DEF TypeOK, Refuse
<1> QED
  BY <1>1, <1>2, IdleSane DEF RunInTime, RunFades, At, M, Faded

-----------------------------------------------------------------------------
(* Tokens and signed requests                                              *)

(* What was in time stays so when keys are replaced now. *)
LEMMA FadedKept ==
    ASSUME IInv, Issue, NEW key, NEW time \in Int, time <= now + CacheTTL,
           Faded(key, time)
    PROVE  Faded(key, time)'
<1> SUFFICES ASSUME NEW t \in token', t.key = key, t.gone # -1
             PROVE  time <= t.gone + ReadLag + CacheTTL
  BY DEF Faded
<1> DEFINE id == now + TokenDuration
           new == [id |-> id, key |-> Cardinality(token) + 1, gone |-> -1]
<1>1. token' = {IF u.id = id /\ u.gone = -1 THEN [u EXCEPT !.gone = now] ELSE u : u \in token}
                  \union {new}
  BY DEF Issue
<1>2. t # new
  OBVIOUS
<1> HIDE DEF new
<1>3. PICK u \in token : t = IF u.id = id /\ u.gone = -1 THEN [u EXCEPT !.gone = now] ELSE u
  BY <1>1, <1>2
<1>4. u \in Token /\ now \in Nat
  BY DEF IInv, TypeOK
<1>5. CASE u.id = id /\ u.gone = -1
  <2>1. t.gone = now
    BY <1>3, <1>4, <1>5 DEF Token
  <2> QED
    BY <1>4, <2>1, ConstantsNatural
<1>6. CASE ~(u.id = id /\ u.gone = -1)
  BY <1>3, <1>6 DEF Faded
<1> QED
  BY <1>5, <1>6

LEMMA IssueStep ==
    ASSUME IInv, Issue
    PROVE  IInv'
<1> DEFINE id == now + TokenDuration
           f == [u \in token |-> IF u.id = id /\ u.gone = -1 THEN [u EXCEPT !.gone = now] ELSE u]
           old == {f[u] : u \in token}
           new == [id |-> id, key |-> Cardinality(token) + 1, gone |-> -1]
<1>1. token' = old \union {new} /\ UNCHANGED <<nonce, cache, run, signed, accepted, now>>
  BY DEF Issue
<1>2. /\ now \in Nat /\ id \in Nat /\ Cardinality(token) \in Nat /\ token \subseteq Token
      /\ IsFiniteSet(token)
  BY ConstantsNatural, FS_CardinalityType DEF IInv, TypeOK, KeysNumbered
<1>3. \A u \in token : f[u] \in Token /\ f[u].key = u.key /\ f[u].gone <= now
  <2> TAKE u \in token
  <2>1. u \in Token /\ u.gone <= now
    BY <1>2 DEF IInv, KeysNumbered
  <2> QED
    BY <1>2, <2>1 DEF Token
<1>4. \A u, v \in token : f[u] = f[v] => u = v
  <2>1. \A u, v \in token : u.key = v.key => u = v
    BY DEF IInv, KeysNumbered
  <2> HIDE DEF f
  <2> QED
    BY <1>3, <2>1
<1>5. IsFiniteSet(old) /\ Cardinality(old) = Cardinality(token)
  <2>1. f = [u \in token |-> f[u]]
    OBVIOUS
  <2> HIDE DEF f
  <2> QED
    BY <1>2, <1>4, <2>1, SameSize
<1>6. /\ new \in Token /\ new.key = Cardinality(token) + 1 /\ new.gone = -1
  BY <1>2 DEF Token
<1> HIDE DEF f, new
<1>7. \A t \in old : t \in Token /\ t.key <= Cardinality(token) /\ t.gone <= now
  BY <1>3 DEF IInv, KeysNumbered
<1>8. \A t, u \in old : t.key = u.key => t = u
  BY <1>3 DEF IInv, KeysNumbered
<1> HIDE DEF old
<1>9. IsFiniteSet(token') /\ Cardinality(token') = Cardinality(token) + 1
  <2>1. new \notin old
    BY <1>2, <1>6, <1>7 DEF Token
  <2> QED
    BY <1>1, <1>5, <2>1, FS_AddElement
<1>10. KeysNumbered'
  <2>1. \A t \in token' : t.key <= Cardinality(token) + 1 /\ t.gone <= now /\ t.key \in Nat
    BY <1>1, <1>2, <1>6, <1>7 DEF Token
  <2>2. \A t, u \in token' : t.key = u.key => t = u
    <3> TAKE t, u \in token'
    <3>1. CASE t \in old /\ u \in old
      BY <1>8, <3>1
    <3>2. CASE t \in old /\ u = new
      BY <1>2, <1>6, <1>7, <3>2 DEF Token
    <3>3. CASE t = new /\ u \in old
      BY <1>2, <1>6, <1>7, <3>3 DEF Token
    <3> QED
      BY <1>1, <3>1, <3>2, <3>3
  <2> QED
    BY <1>1, <1>9, <2>1, <2>2 DEF KeysNumbered
<1>11. TypeOK'
  BY <1>1, <1>6, <1>7 DEF IInv, TypeOK
<1>12. CacheFades'
  <2> SUFFICES ASSUME NEW p \in Process, NEW c \in cache[p]
               PROVE  c.until <= now + CacheTTL /\ Faded(c.key, c.until)'
    BY <1>1 DEF CacheFades
  <2>1. c.until \in Nat /\ c.until <= now + CacheTTL /\ Faded(c.key, c.until)
    BY DEF IInv, TypeOK, CacheFades, Entry
  <2> QED
    BY <2>1, FadedKept
<1>13. RunFades'
  <2> SUFFICES ASSUME NEW p \in Process, At(p, "nonce")
               PROVE  Faded(M(p).key, run[p].checked)'
    BY <1>1 DEF RunFades, At
  <2>1. run[p].checked \in Nat /\ run[p].checked <= now /\ Faded(M(p).key, run[p].checked)
    BY DEF IInv, TypeOK, RunFades, RunInTime, WithinLimit, Invocation, At
  <2>2. PICK key, time : key = M(p).key /\ time = run[p].checked
    OBVIOUS
  <2>3. Faded(key, time) /\ time \in Int /\ time <= now + CacheTTL
    BY <1>2, <2>1, <2>2, ConstantsNatural DEF Faded
  <2>4. Faded(key, time)'
    BY <2>3, FadedKept
  <2>5. M(p)'.key = key /\ run'[p].checked = time
    BY <1>1, <2>2 DEF M
  <2> QED
    BY <2>4, <2>5 DEF Faded
<1>14. AcceptedFades'
  <2> SUFFICES ASSUME NEW x \in accepted
               PROVE  Faded(x.message.key, x.checked)'
    BY <1>1 DEF AcceptedFades
  <2>1. /\ x.checked \in Nat /\ x.checked <= x.done /\ x.done <= now /\ x.done \in Nat
        /\ Faded(x.message.key, x.checked)
    BY DEF IInv, TypeOK, AcceptedFades, AcceptedInTime, WithinLimit, Acceptance
  <2>2. x.checked \in Int /\ x.checked <= now + CacheTTL
    BY <1>2, <2>1, ConstantsNatural
  <2> QED
    BY <2>1, <2>2, FadedKept
<1>15. SignedNumbered' /\ RunInTime' /\ AcceptedInTime' /\ NonceKept' /\ AcceptedOnce'
  BY <1>1 DEF IInv, SignedNumbered, RunInTime, AcceptedInTime, NonceKept, AcceptedOnce, At, M,
     WithinLimit
<1> QED
  BY <1>10, <1>11, <1>12, <1>13, <1>14, <1>15 DEF IInv

LEMMA SignStep ==
    ASSUME IInv, Sign
    PROVE  IInv'
<1>1. PICK t \in token, ts \in 0 .. MaxTime :
        signed' = signed \union
            {[n |-> Cardinality(signed) + 1, ts |-> ts, id |-> t.id, key |-> t.key]}
  BY DEF Sign
<1>2. UNCHANGED <<token, nonce, cache, run, accepted, now>>
  BY DEF Sign
<1> DEFINE new == [n |-> Cardinality(signed) + 1, ts |-> ts, id |-> t.id, key |-> t.key]
<1>3. IsFiniteSet(signed) /\ Cardinality(signed) \in Nat /\ signed \subseteq Message
  BY FS_CardinalityType DEF IInv, SignedNumbered, TypeOK
<1>4. new \in Message /\ new.n = Cardinality(signed) + 1
  <2>1. t \in Token /\ ts \in Nat
    BY DEF IInv, TypeOK
  <2> QED
    BY <1>3, <2>1 DEF Message, Token
<1>5. signed' = signed \union {new}
  BY <1>1
<1> HIDE DEF new
<1>6. \A m \in signed : m.n \in Nat /\ m.n <= Cardinality(signed)
  BY <1>3 DEF IInv, SignedNumbered, Message
<1>7. new \notin signed
  BY <1>3, <1>4, <1>6
<1>8. IsFiniteSet(signed') /\ Cardinality(signed') = Cardinality(signed) + 1
  BY <1>3, <1>5, <1>7, FS_AddElement
<1>9. SignedNumbered'
  <2>1. \A m \in signed' : m.n <= Cardinality(signed')
    BY <1>3, <1>4, <1>5, <1>6, <1>8
  <2>2. \A m, k \in signed' : m.n = k.n => m = k
    BY <1>3, <1>4, <1>5, <1>6 DEF IInv, SignedNumbered
  <2> QED
    BY <1>8, <2>1, <2>2 DEF SignedNumbered
<1>10. TypeOK'
  BY <1>2, <1>3, <1>4, <1>5 DEF IInv, TypeOK
<1>11. RunInTime' /\ AcceptedInTime'
  BY <1>2, <1>5 DEF IInv, RunInTime, AcceptedInTime, At, M
<1>12. KeysNumbered' /\ NonceKept' /\ AcceptedOnce'
  BY <1>2 DEF IInv, KeysNumbered, NonceKept, AcceptedOnce
<1>13. CacheFades' /\ RunFades' /\ AcceptedFades'
  BY <1>2 DEF IInv, CacheFades, RunFades, AcceptedFades, Faded, At, M
<1> QED
  BY <1>9, <1>10, <1>11, <1>12, <1>13 DEF IInv

-----------------------------------------------------------------------------
(* Validation                                                              *)

(* A step of validation that only touches the process and its cache. *)
LEMMA ProcessOnly ==
    ASSUME IInv, UNCHANGED <<token, nonce, signed, accepted, now>>,
           run' \in [Process -> Invocation], cache' \in [Process -> SUBSET Entry],
           RunInTime', RunFades', CacheFades'
    PROVE  IInv'
<1>1. TypeOK' /\ SignedNumbered' /\ KeysNumbered'
  BY DEF IInv, TypeOK, SignedNumbered, KeysNumbered
<1>2. AcceptedInTime' /\ NonceKept' /\ AcceptedOnce' /\ AcceptedFades'
  BY DEF IInv, AcceptedInTime, NonceKept, AcceptedOnce, AcceptedFades, Faded
<1> QED
  BY <1>1, <1>2 DEF IInv

(* What a lookup returns is fit to be used now, and what it caches later. *)
LEMMA FoundSane ==
    ASSUME IInv, NEW p \in Process, NEW t \in token, Found(p, t.key),
           ~At(p, "idle"), UNCHANGED <<token, now>>
    PROVE  /\ Faded(t.key, now)
           /\ cache' \in [Process -> SUBSET Entry]
           /\ CacheFades'
<1>1. /\ now \in Nat /\ token \subseteq Token /\ cache \in [Process -> SUBSET Entry]
      /\ M(p).id \in Nat
  BY DEF IInv, TypeOK, M, Invocation, Message
<1> DEFINE id == M(p).id
<1>2. ASSUME NEW c \in Cached(p, id), c.key = t.key, UNCHANGED cache
      PROVE  /\ Faded(t.key, now)
             /\ cache' \in [Process -> SUBSET Entry]
             /\ CacheFades'
  <2>1. c \in cache[p] /\ now < c.until /\ c \in Entry
    BY <1>1 DEF Cached
  <2>2. Faded(c.key, c.until)
    BY <2>1 DEF IInv, CacheFades
  <2>3. Faded(t.key, now)
    <3> SUFFICES ASSUME NEW u \in token, u.key = t.key, u.gone # -1
                 PROVE  now <= u.gone + ReadLag + CacheTTL
      BY DEF Faded
    <3>1. c.until <= u.gone + ReadLag + CacheTTL /\ u.gone \in Nat /\ c.until \in Nat
      BY <1>1, <1>2, <2>1, <2>2 DEF Faded, Token, Entry
    <3> QED
      BY <1>1, <2>1, <3>1, ConstantsNatural
  <2>4. CacheFades'
    BY <1>2 DEF IInv, CacheFades, Faded
  <2> QED
    BY <1>1, <1>2, <2>3, <2>4
<1>3. ASSUME NEW u \in Stored(id), u.key = t.key,
             cache' = [cache EXCEPT ![p] =
                       {c \in @ : c.id # id /\ now < c.until}
                          \union {[id |-> id, key |-> t.key, until |-> now + CacheTTL]}]
      PROVE  /\ Faded(t.key, now)
             /\ cache' \in [Process -> SUBSET Entry]
             /\ CacheFades'
  <2> DEFINE entry == [id |-> id, key |-> t.key, until |-> now + CacheTTL]
  <2>1. u = t /\ (t.gone = -1 \/ now <= t.gone + ReadLag)
    BY <1>3 DEF Stored, IInv, KeysNumbered
  <2>2. \A v \in token : v.key = t.key => v = t
    BY DEF IInv, KeysNumbered
  <2>3. t.gone # -1 => t.gone \in Nat
    BY <1>1 DEF Token
  <2>4. Faded(t.key, now)
    BY <1>1, <2>1, <2>2, <2>3, ConstantsNatural DEF Faded
  <2>5. entry \in Entry /\ entry.key = t.key /\ entry.until = now + CacheTTL
    BY <1>1, ConstantsNatural DEF Entry, Token
  <2>6. Faded(t.key, now + CacheTTL)
    BY <1>1, <2>1, <2>2, <2>3, ConstantsNatural DEF Faded
  <2> HIDE DEF entry
  <2>7. \A q \in Process : \A c \in cache'[q] : c \in cache[q] \/ c = entry
    BY <1>1, <1>3 DEF entry
  <2>8. cache' \in [Process -> SUBSET Entry]
    <3>1. {c \in cache[p] : c.id # id /\ now < c.until} \union {entry} \in SUBSET Entry
      BY <1>1, <2>5
    <3> QED
      BY <1>1, <1>3, <3>1 DEF entry
  <2>9. CacheFades'
    <3> SUFFICES ASSUME NEW q \in Process, NEW c \in cache'[q]
                 PROVE  c.until <= now + CacheTTL /\ Faded(c.key, c.until)
      BY DEF CacheFades, Faded
    <3>1. CASE c \in cache[q]
      BY <3>1 DEF IInv, CacheFades
    <3>2. CASE c = entry
      BY <1>1, <2>5, <2>6, <3>2, ConstantsNatural
    <3> QED
      BY <2>7, <3>1, <3>2
  <2> QED
    BY <2>4, <2>8, <2>9
<1> QED
  BY <1>2, <1>3 DEF Found

LEMMA BeginStep ==
    ASSUME IInv, NEW p \in Process, Begin(p)
    PROVE  IInv'
<1>1. PICK m \in signed, label \in {"order", "lookup"} :
        /\ NotExpired(m.id)
        /\ run' = [run EXCEPT ![p] = [pc |-> label, message |-> m,
                                      begun |-> now, checked |-> now]]
  BY DEF Begin
<1> DEFINE q == [pc |-> label, message |-> m, begun |-> now, checked |-> now]
<1>2. UNCHANGED <<token, nonce, cache, signed, accepted, now>>
  BY DEF Begin
<1>3. now \in Nat /\ m \in Message /\ run \in [Process -> Invocation]
  BY DEF IInv, TypeOK
<1>4. /\ q \in Invocation /\ q.message = m /\ q.begun = now /\ q.checked = now
      /\ q.pc # "idle" /\ q.pc # "nonce"
  BY <1>3 DEF Invocation
<1>5. run' = [run EXCEPT ![p] = q]
  BY <1>1
<1> HIDE DEF q
<1>6. run' \in [Process -> Invocation] /\ \A r \in Process : run'[r] = IF r = p THEN q ELSE run[r]
  BY <1>3, <1>4, <1>5
<1>7. WithinLimit(now, now, now, m.id)
  BY <1>1, <1>3, ConstantsNatural DEF WithinLimit, NotExpired, Message
<1>8. RunInTime'
  BY <1>2, <1>4, <1>6, <1>7 DEF IInv, RunInTime, At, M
<1>9. RunFades' /\ CacheFades'
  BY <1>2, <1>4, <1>6 DEF IInv, RunFades, CacheFades, Faded, At, M
<1>10. cache' \in [Process -> SUBSET Entry]
  BY <1>2 DEF IInv, TypeOK
<1> QED
  BY <1>2, <1>6, <1>8, <1>9, <1>10, ProcessOnly

LEMMA CorrectQueryOrderStep ==
    ASSUME IInv, NEW p \in Process, CorrectQueryOrder(p)
    PROVE  IInv'
<1>1. /\ At(p, "order") /\ ~At(p, "idle")
      /\ run' = [run EXCEPT ![p].pc = "lookup"]
      /\ UNCHANGED <<token, nonce, signed, accepted, now>>
  BY DEF CorrectQueryOrder, At
<1>2. cache' \in [Process -> SUBSET Entry] /\ CacheFades'
  <2>1. ASSUME NEW t \in token, Found(p, t.key)
        PROVE  cache' \in [Process -> SUBSET Entry] /\ CacheFades'
    BY <1>1, <2>1, FoundSane
  <2>2. ASSUME UNCHANGED cache
        PROVE  cache' \in [Process -> SUBSET Entry] /\ CacheFades'
    BY <1>1, <2>2 DEF IInv, TypeOK, CacheFades, Faded
  <2> QED
    BY <2>1, <2>2 DEF CorrectQueryOrder
<1> DEFINE q == [run[p] EXCEPT !.pc = "lookup"]
<1>3. run[p] \in Invocation /\ run \in [Process -> Invocation]
  BY DEF IInv, TypeOK
<1>4. /\ q \in Invocation /\ q.pc = "lookup" /\ q.message = run[p].message
      /\ q.begun = run[p].begun /\ q.checked = run[p].checked
  BY <1>3 DEF Invocation
<1>5. run' = [run EXCEPT ![p] = q]
  BY <1>1
<1> HIDE DEF q
<1>6. run' \in [Process -> Invocation] /\ \A r \in Process : run'[r] = IF r = p THEN q ELSE run[r]
  BY <1>3, <1>4, <1>5
<1>7. RunInTime' /\ RunFades'
  BY <1>1, <1>4, <1>6 DEF IInv, RunInTime, RunFades, Faded, At, M
<1> QED
  BY <1>1, <1>2, <1>6, <1>7, ProcessOnly

LEMMA CheckMacStep ==
    ASSUME IInv, NEW p \in Process, CheckMac(p)
    PROVE  IInv'
<1>1. At(p, "lookup") /\ ~At(p, "idle") /\ UNCHANGED <<token, nonce, signed, accepted, now>>
  BY DEF CheckMac, At
<1>2. PICK t \in token :
        /\ Found(p, t.key)
        /\ IF t.key = M(p).key
              THEN run' = [run EXCEPT ![p].pc = "nonce", ![p].checked = now]
              ELSE Refuse(p)
  BY DEF CheckMac
<1>3. Faded(t.key, now) /\ cache' \in [Process -> SUBSET Entry] /\ CacheFades'
  BY <1>1, <1>2, FoundSane
<1>4. CASE t.key # M(p).key
  BY <1>1, <1>2, <1>3, <1>4, RefuseSane, ProcessOnly DEF IInv
<1>5. CASE t.key = M(p).key
  <2> DEFINE q == [run[p] EXCEPT !.pc = "nonce", !.checked = now]
  <2>1. run[p] \in Invocation /\ run \in [Process -> Invocation] /\ now \in Nat
    BY DEF IInv, TypeOK
  <2>2. /\ q \in Invocation /\ q.pc = "nonce" /\ q.message = run[p].message
        /\ q.begun = run[p].begun /\ q.checked = now /\ run[p].begun \in Nat
        /\ run[p].checked \in Nat
    BY <2>1 DEF Invocation
  <2>3. run' = [run EXCEPT ![p] = q]
    BY <1>2, <1>5
  <2> HIDE DEF q
  <2>4. run' \in [Process -> Invocation] /\ \A r \in Process : run'[r] = IF r = p THEN q ELSE run[r]
    BY <2>1, <2>2, <2>3
  <2>5. WithinLimit(run[p].begun, now, now, M(p).id)
    BY <1>1, <2>1, <2>2 DEF IInv, RunInTime, WithinLimit
  <2>6. RunInTime'
    BY <1>1, <2>2, <2>4, <2>5 DEF IInv, RunInTime, At, M
  <2>7. RunFades'
    BY <1>1, <1>3, <1>5, <2>2, <2>4 DEF IInv, RunFades, Faded, At, M
  <2> QED
    BY <1>1, <1>3, <2>4, <2>6, <2>7, ProcessOnly
<1> QED
  BY <1>4, <1>5

(* The core of the argument: who does not find the nonce of an accepted    *)
(* request comes too late for its timestamp.                               *)
LEMMA DuplicateIsLate ==
    ASSUME IInv, NEW p \in Process, At(p, "nonce"), NEW x \in accepted,
           x.message.n = M(p).n, ~ \E e \in nonce : e.n = M(p).n
    PROVE  ~Recent(p)
<1>1. /\ M(p) \in signed /\ x.message \in signed
      /\ WithinLimit(run[p].begun, run[p].checked, now, M(p).id)
      /\ WithinLimit(x.begun, x.checked, x.done, x.message.id)
      /\ x.message.ts <= x.checked + Skew
  BY DEF IInv, RunInTime, AcceptedInTime, At
<1>2. x.message = M(p)
  BY <1>1 DEF IInv, SignedNumbered
<1>3. now > x.done + Skew * 2 + SweepLag
  BY DEF IInv, NonceKept
<1>4. /\ now \in Nat /\ run[p].begun \in Nat /\ run[p].checked \in Nat
      /\ x.checked \in Nat /\ x.done \in Nat /\ M(p).ts \in Nat
  BY DEF IInv, TypeOK, Invocation, Acceptance, M, Message
<1>5. run[p].checked > x.checked + Skew * 2
  BY <1>1, <1>3, <1>4, ConstantsNatural DEF WithinLimit
<1> QED
  BY <1>1, <1>2, <1>4, <1>5, ConstantsNatural DEF Recent

LEMMA PutNonceStep ==
    ASSUME IInv, NEW p \in Process, PutNonce(p)
    PROVE  IInv'
<1>1. /\ At(p, "nonce") /\ Refuse(p) /\ UNCHANGED <<token, cache, signed, now>>
  BY DEF PutNonce
<1>2. run' \in [Process -> Invocation] /\ RunInTime' /\ RunFades'
  BY <1>1, RefuseSane DEF IInv
<1>3. CASE \E e \in nonce : e.n = M(p).n
  <2>1. UNCHANGED <<nonce, accepted>>
    BY <1>3 DEF PutNonce
  <2>2. cache' \in [Process -> SUBSET Entry] /\ CacheFades'
    BY <1>1 DEF IInv, TypeOK, CacheFades, Faded
  <2> QED
    BY <1>1, <1>2, <2>1, <2>2, ProcessOnly
<1>4. CASE ~ \E e \in nonce : e.n = M(p).n
  <2> DEFINE e == [n |-> M(p).n, expiry |-> NonceExpiry]
             y == [message |-> M(p), by |-> p, begun |-> run[p].begun,
                   checked |-> run[p].checked, done |-> now]
  <2>1. /\ now \in Nat /\ M(p) \in Message /\ run[p].begun \in Nat /\ run[p].checked \in Nat
        /\ M(p) \in signed
        /\ WithinLimit(run[p].begun, run[p].checked, now, M(p).id)
        /\ Faded(M(p).key, run[p].checked)
    BY <1>1 DEF IInv, TypeOK, Invocation, M, RunInTime, RunFades, At
  <2>2. e \in Nonce /\ e.n = M(p).n /\ e.expiry = now + Skew * 2
    BY <2>1, ConstantsNatural DEF Nonce, NonceExpiry, Message
  <2>3. /\ y \in Acceptance /\ y.message = M(p) /\ y.begun = run[p].begun
        /\ y.checked = run[p].checked /\ y.done = now
    BY <2>1 DEF Acceptance
  <2>4. /\ nonce' = nonce \union {e}
        /\ IF Recent(p) THEN accepted' = accepted \union {y} ELSE UNCHANGED accepted
    BY <1>4 DEF PutNonce
  <2> HIDE DEF e, y
  <2>5. \A x \in accepted' : x \in accepted \/ (x = y /\ Recent(p))
    BY <2>4
  <2>6. TypeOK' /\ SignedNumbered' /\ KeysNumbered' /\ CacheFades'
    BY <1>1, <1>2, <2>2, <2>3, <2>4
       DEF IInv, TypeOK, SignedNumbered, KeysNumbered, CacheFades, Faded
  <2>7. AcceptedInTime'
    <3> SUFFICES ASSUME NEW x \in accepted'
                 PROVE  /\ x.message \in signed
                        /\ WithinLimit(x.begun, x.checked, x.done, x.message.id)
                        /\ x.done <= now
                        /\ x.message.ts <= x.checked + Skew
                        /\ x.checked <= x.message.ts + Skew
      BY <1>1 DEF AcceptedInTime
    <3>1. CASE x \in accepted
      BY <3>1 DEF IInv, AcceptedInTime
    <3>2. CASE x = y /\ Recent(p)
      BY <2>1, <2>3, <3>2 DEF Recent
    <3> QED
      BY <2>5, <3>1, <3>2
  <2>8. NonceKept'
    <3> SUFFICES ASSUME NEW x \in accepted'
                 PROVE  \/ \E f \in nonce' : f.n = x.message.n /\ f.expiry >= x.done + Skew * 2
                        \/ now > x.done + Skew * 2 + SweepLag
      BY <1>1 DEF NonceKept
    <3>1. CASE x \in accepted
      BY <2>4, <3>1 DEF IInv, NonceKept
    <3>2. CASE x = y
      BY <2>1, <2>2, <2>3, <2>4, <3>2, ConstantsNatural
    <3> QED
      BY <2>5, <3>1, <3>2
  <2>9. AcceptedOnce'
    <3> SUFFICES ASSUME NEW w \in accepted', NEW x \in accepted', w.message.n = x.message.n
                 PROVE  w = x
      BY DEF AcceptedOnce
    <3>1. ASSUME Recent(p), NEW z \in accepted PROVE z.message.n # y.message.n
      BY <1>1, <1>4, <2>3, <3>1, DuplicateIsLate
    <3>2. CASE w \in accepted /\ x \in accepted
      BY <3>2 DEF IInv, AcceptedOnce
    <3> QED
      BY <2>5, <3>1, <3>2
  <2>10. AcceptedFades'
    BY <1>1, <2>1, <2>3, <2>5 DEF IInv, AcceptedFades, Faded
  <2> QED
    BY <1>2, <2>6, <2>7, <2>8, <2>9, <2>10 DEF IInv
<1> QED
  BY <1>3, <1>4

LEMMA StopStep ==
    ASSUME IInv, NEW p \in Process, Stop(p)
    PROVE  IInv'
<1>1. /\ Refuse(p) /\ UNCHANGED <<token, nonce, signed, accepted, now>>
      /\ UNCHANGED cache \/ cache' = [cache EXCEPT ![p] = {}]
  BY DEF Stop
<1>2. run' \in [Process -> Invocation] /\ RunInTime' /\ RunFades'
  BY <1>1, RefuseSane DEF IInv
<1>3. cache \in [Process -> SUBSET Entry]
  BY DEF IInv, TypeOK
<1>4. cache' \in [Process -> SUBSET Entry] /\ \A q \in Process : cache'[q] \subseteq cache[q]
  BY <1>1, <1>3
<1>5. CacheFades'
  BY <1>1, <1>4 DEF IInv, CacheFades, Faded
<1> QED
  BY <1>1, <1>2, <1>4, <1>5, ProcessOnly

-----------------------------------------------------------------------------
(* Time                                                                    *)

LEMMA SweepStep ==
    ASSUME IInv, Sweep
    PROVE  IInv'
<1>1. PICK e \in nonce : e.expiry + SweepLag < now /\ nonce' = nonce \ {e}
  BY DEF Sweep
<1>2. UNCHANGED <<token, cache, run, signed, accepted, now>>
  BY DEF Sweep
<1>3. NonceKept'
  <2> SUFFICES ASSUME NEW x \in accepted
               PROVE  \/ \E f \in nonce' : f.n = x.message.n /\ f.expiry >= x.done + Skew * 2
                      \/ now > x.done + Skew * 2 + SweepLag
    BY <1>2 DEF NonceKept
  <2>1. CASE now > x.done + Skew * 2 + SweepLag
    BY <2>1
  <2>2. CASE \E f \in nonce : f.n = x.message.n /\ f.expiry >= x.done + Skew * 2
    <3>1. PICK f \in nonce : f.n = x.message.n /\ f.expiry >= x.done + Skew * 2
      BY <2>2
    <3>2. CASE f # e
      BY <1>1, <3>1, <3>2
    <3>3. CASE f = e
      <4>1. e.expiry \in Nat /\ x.done \in Nat /\ now \in Nat
        BY DEF IInv, TypeOK, Nonce, Acceptance
      <4> QED
        BY <1>1, <3>1, <3>3, <4>1, ConstantsNatural
    <3> QED
      BY <3>2, <3>3
  <2> QED
    BY <2>1, <2>2 DEF IInv, NonceKept
<1>4. TypeOK' /\ SignedNumbered' /\ KeysNumbered' /\ RunInTime' /\ AcceptedInTime' /\ AcceptedOnce'
  BY <1>1, <1>2 DEF IInv, TypeOK, SignedNumbered, KeysNumbered, RunInTime, AcceptedInTime,
     AcceptedOnce, At, M
<1>5. CacheFades' /\ RunFades' /\ AcceptedFades'
  BY <1>2 DEF IInv, CacheFades, RunFades, AcceptedFades, Faded, At, M
<1> QED
  BY <1>3, <1>4, <1>5 DEF IInv

LEMMA TickStep ==
    ASSUME IInv, Tick
    PROVE  IInv'
<1>1. /\ now' = now + 1 /\ UNCHANGED <<token, nonce, cache, run, signed, accepted>>
      /\ \A p \in Process : ~At(p, "idle") => now < run[p].begun + Patience
  BY DEF Tick
<1>2. now \in Nat
  BY DEF IInv, TypeOK
<1>3. TypeOK'
  BY <1>1 DEF IInv, TypeOK
<1>4. SignedNumbered' /\ AcceptedOnce'
  BY <1>1 DEF IInv, SignedNumbered, AcceptedOnce
<1>5. KeysNumbered'
  <2>1. \A t \in token : t.gone <= now + 1
    BY <1>2 DEF IInv, TypeOK, KeysNumbered, Token
  <2> QED
    BY <1>1, <2>1 DEF IInv, KeysNumbered
<1>6. RunInTime'
  <2> SUFFICES ASSUME NEW p \in Process, ~At(p, "idle")
               PROVE  /\ M(p) \in signed
                      /\ WithinLimit(run[p].begun, run[p].checked, now + 1, M(p).id)
    BY <1>1 DEF RunInTime, At, M
  <2>1. run[p].begun \in Nat /\ run[p].checked \in Nat
    BY DEF IInv, TypeOK, Invocation
  <2>2. M(p) \in signed /\ WithinLimit(run[p].begun, run[p].checked, now, M(p).id)
    BY DEF IInv, RunInTime
  <2> QED
    BY <1>1, <1>2, <2>1, <2>2, ConstantsNatural DEF WithinLimit
<1>7. AcceptedInTime'
  <2>1. \A x \in accepted : x.done \in Nat
    BY DEF IInv, TypeOK, Acceptance
  <2> QED
    BY <1>1, <1>2, <2>1 DEF IInv, AcceptedInTime
<1>8. NonceKept'
  <2>1. \A x \in accepted : x.done \in Nat
    BY DEF IInv, TypeOK, Acceptance
  <2> QED
    BY <1>1, <1>2, <2>1, ConstantsNatural DEF IInv, NonceKept
<1>9. CacheFades'
  <2>1. \A p \in Process : \A c \in cache[p] : c.until \in Nat
    BY DEF IInv, TypeOK, Entry
  <2> QED
    BY <1>1, <1>2, <2>1, ConstantsNatural DEF IInv, CacheFades, Faded
<1>10. RunFades' /\ AcceptedFades'
  BY <1>1 DEF IInv, RunFades, AcceptedFades, Faded, At, M
<1> QED
  BY <1>3, <1>4, <1>5, <1>6, <1>7, <1>8, <1>9, <1>10 DEF IInv

-----------------------------------------------------------------------------
(* The theorems                                                            *)

LEMMA InitInv == Init => IInv
<1> SUFFICES ASSUME Init PROVE IInv
  OBVIOUS
<1>1. TypeOK
  BY IdleSane DEF Init, TypeOK
<1>2. SignedNumbered /\ KeysNumbered
  BY FS_EmptySet DEF Init, SignedNumbered, KeysNumbered
<1>3. RunInTime /\ RunFades /\ CacheFades
  BY IdleSane DEF Init, RunInTime, RunFades, CacheFades, At
<1>4. AcceptedInTime /\ NonceKept /\ AcceptedOnce /\ AcceptedFades
  BY DEF Init, AcceptedInTime, NonceKept, AcceptedOnce, AcceptedFades
<1> QED
  BY <1>1, <1>2, <1>3, <1>4 DEF IInv

LEMMA NextInv == IInv /\ [Next]_vars => IInv'
<1> SUFFICES ASSUME IInv, [Next]_vars PROVE IInv'
  OBVIOUS
<1>1. ASSUME NEW p \in Process, Validate(p) PROVE IInv'
  BY <1>1, BeginStep, CorrectQueryOrderStep, CheckMacStep, PutNonceStep, StopStep DEF Validate
<1>2. CASE Issue \/ Sign \/ Sweep \/ Tick
  BY <1>2, IssueStep, SignStep, SweepStep, TickStep
<1>3. CASE UNCHANGED vars
  <2>1. UNCHANGED <<token, nonce, cache, run, signed, accepted, now>>
    BY <1>3 DEF vars
  <2>2. run' \in [Process -> Invocation] /\ cache' \in [Process -> SUBSET Entry]
    BY <2>1 DEF IInv, TypeOK
  <2>3. RunInTime' /\ RunFades' /\ CacheFades'
    BY <2>1 DEF IInv, RunInTime, RunFades, CacheFades, Faded, At, M
  <2> QED
    BY <2>1, <2>2, <2>3, ProcessOnly
<1> QED
  BY <1>1, <1>2, <1>3 DEF Next

(* Every reachable state is of the right type: a cache only ever holds     *)
(* entries that were read.                                                 *)
THEOREM HawkTyped == Spec => []TypeOK
<1>1. IInv => TypeOK
  BY DEF IInv
<1> QED
  BY <1>1, InitInv, NextInv, PTL DEF Spec

(* A signed request is accepted once, however often, late and concurrently *)
(* it is delivered, if an expired nonce is not deleted before invocations  *)
(* that began earlier are over.                                            *)
THEOREM NoReplay == Spec => []AcceptedOnce
<1>1. IInv => AcceptedOnce
  BY DEF IInv
<1> QED
  BY <1>1, InitInv, NextInv, PTL DEF Spec

(* No process accepts a key for longer after its replacement than a read   *)
(* may lag and a cache entry lives.                                        *)
THEOREM ReplacedKeysFade == Spec => []ReplacedKeyFades
<1>1. IInv => ReplacedKeyFades
  BY DEF IInv, AcceptedFades, Faded, ReplacedKeyFades
<1> QED
  BY <1>1, InitInv, NextInv, PTL DEF Spec

(* No request is let through after its token expired, but for the time     *)
(* limit of an invocation.                                                 *)
THEOREM ExpiredRefused == Spec => []ExpiredIsRefused
<1>1. IInv => ExpiredIsRefused
  <2> SUFFICES ASSUME IInv, NEW x \in accepted
               PROVE  x.done < x.message.id + Patience
    BY DEF ExpiredIsRefused
  <2>1. WithinLimit(x.begun, x.checked, x.done, x.message.id)
    BY DEF IInv, AcceptedInTime
  <2>2. x.done \in Nat /\ x.begun \in Nat /\ x.message.id \in Nat
    BY DEF IInv, TypeOK, Acceptance, Message
  <2> QED
    BY <2>1, <2>2, ConstantsNatural DEF WithinLimit
<1> QED
  BY <1>1, InitInv, NextInv, PTL DEF Spec
=============================================================================
