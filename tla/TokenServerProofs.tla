------------------------- MODULE TokenServerProofs -------------------------
(***************************************************************************)
(* Devices with the same storage uid presented the same client state, for  *)
(* any number of concurrent requests, any history cap, and stale reads.    *)
(*                                                                         *)
(* The argument: every version of the user record is one client state at   *)
(* one generation, because the increment is made in place and the state is *)
(* written with it.  What a request grants, and so what a device is given, *)
(* is a pair of some version.                                              *)
(***************************************************************************)
EXTENDS TokenServer, SequenceTheorems, TLAPS

Vouched(g, s) == \E v \in past : v.generation = g /\ v.state = s

(* No version is newer than the record itself. *)
Newest ==
    /\ user = Absent => past = {}
    /\ user # Absent => user \in past
    /\ user # Absent => \A v \in past : v.generation <= user.generation

VersionsAgree ==
    \A v, w \in past : v.generation = w.generation => v.state = w.state

(* A request that goes on to read or update has seen that there is a user. *)
UserFound == \A r \in Request : req[r].pc \in {"get", "update"} => user # Absent

(* What an update relies on of the version it read. *)
Fresh(s, v) == s # v.state /\ \A i \in DOMAIN v.history : v.history[i] # s
UpdateChecked ==
    \A r \in Request : req[r].pc = "update" =>
        req[r].seen \in past /\ Fresh(req[r].state, req[r].seen)

GrantsVouched ==
    \A r \in Request : req[r].pc \in {"store", "answer"} =>
        Vouched(req[r].generation, req[r].state)

IssuedVouched == \A c \in issued : Vouched(c.generation, c.state)

IInv ==
    /\ TypeOK
    /\ Newest
    /\ VersionsAgree
    /\ StatesDistinct
    /\ UserFound
    /\ UpdateChecked
    /\ GrantsVouched
    /\ IssuedVouched

-----------------------------------------------------------------------------
(* The history                                                             *)

(* The cap keeps the newest entries, in their order. *)
LEMMA CappedKeepsTail ==
    ASSUME NEW h \in Seq(ClientState)
    PROVE  /\ Capped(h) \in Seq(ClientState)
           /\ Len(Capped(h)) <= MaxHistory
           /\ \E k \in Nat :
                 /\ Len(Capped(h)) + k <= Len(h)
                 /\ \A i \in 1 .. Len(Capped(h)) : Capped(h)[i] = h[i + k]
<1> DEFINE m == IF Len(h) > MaxHistory THEN Len(h) - MaxHistory + 1 ELSE 1
<1>1. MaxHistory \in Nat /\ MaxHistory > 0
  BY TokenAssumption
<1>2. Len(h) \in Nat
  BY LenProperties
<1>3. m \in Nat /\ m >= 1 /\ Len(h) - m + 1 <= MaxHistory
  BY <1>1, <1>2
<1>4. \A i \in m .. Len(h) : h[i] \in ClientState
  BY <1>2, <1>3, ElementOfSeq
<1>5. Capped(h) = SubSeq(h, m, Len(h))
  BY DEF Capped
<1> HIDE DEF m
<1>6. /\ Capped(h) \in Seq(ClientState)
      /\ Len(Capped(h)) = IF m <= Len(h) THEN Len(h) - m + 1 ELSE 0
      /\ \A i \in 1 .. Len(h) - m + 1 : Capped(h)[i] = h[m + i - 1]
  BY <1>2, <1>3, <1>4, <1>5, SubSeqProperties
<1>7. m <= Len(h) + 1
  BY <1>1, <1>2 DEF m
<1>8. Len(Capped(h)) = Len(h) - m + 1
  BY <1>2, <1>3, <1>6, <1>7
<1>9. \A i \in 1 .. Len(Capped(h)) : Capped(h)[i] = h[i + (m - 1)]
  <2> TAKE i \in 1 .. Len(Capped(h))
  <2>1. m + i - 1 = i + (m - 1)
    BY <1>3
  <2> QED
    BY <1>6, <1>8, <2>1
<1>10. m - 1 \in Nat /\ Len(Capped(h)) + (m - 1) <= Len(h)
  BY <1>2, <1>3, <1>8
<1>11. Len(Capped(h)) <= MaxHistory
  BY <1>3, <1>8
<1>12. \E k \in Nat :
         /\ Len(Capped(h)) + k <= Len(h)
         /\ \A i \in 1 .. Len(Capped(h)) : Capped(h)[i] = h[i + k]
  <2> m - 1 \in Nat
    BY <1>10
  <2> WITNESS m - 1 \in Nat
  <2> QED
    BY <1>9, <1>10
<1> QED
  BY <1>6, <1>11, <1>12

(* A sequence stays free of repetitions when something new is appended. *)
LEMMA DistinctAppend ==
    ASSUME NEW S, NEW h \in Seq(S), NEW s \in S, Distinct(h),
           \A i \in DOMAIN h : h[i] # s
    PROVE  Distinct(Append(h, s))
<1>1. DOMAIN h = 1 .. Len(h) /\ Len(h) \in Nat
  BY LenProperties
<1>2. /\ Append(h, s) \in Seq(S)
      /\ Len(Append(h, s)) = Len(h) + 1
      /\ \A i \in 1 .. Len(h) : Append(h, s)[i] = h[i]
      /\ Append(h, s)[Len(h) + 1] = s
  BY AppendProperties
<1>3. DOMAIN Append(h, s) = 1 .. Len(h) + 1
  BY <1>2, LenProperties
<1> SUFFICES ASSUME NEW i \in 1 .. Len(h) + 1, NEW j \in 1 .. Len(h) + 1,
                    Append(h, s)[i] = Append(h, s)[j]
             PROVE  i = j
  BY <1>3 DEF Distinct
<1>4. CASE i \in 1 .. Len(h) /\ j \in 1 .. Len(h)
  BY <1>1, <1>2, <1>4 DEF Distinct
<1>5. CASE i \in 1 .. Len(h) /\ j = Len(h) + 1
  BY <1>1, <1>2, <1>5
<1>6. CASE i = Len(h) + 1 /\ j \in 1 .. Len(h)
  BY <1>1, <1>2, <1>6
<1>7. CASE i = Len(h) + 1 /\ j = Len(h) + 1
  BY <1>7
<1> QED
  BY <1>1, <1>4, <1>5, <1>6, <1>7

(* And when its oldest entries are dropped. *)
LEMMA DistinctCapped ==
    ASSUME NEW h \in Seq(ClientState), Distinct(h)
    PROVE  Distinct(Capped(h))
<1>1. DOMAIN h = 1 .. Len(h) /\ Len(h) \in Nat
  BY LenProperties
<1>2. Capped(h) \in Seq(ClientState)
  BY CappedKeepsTail
<1>3. PICK k \in Nat : /\ Len(Capped(h)) + k <= Len(h)
                       /\ \A i \in 1 .. Len(Capped(h)) : Capped(h)[i] = h[i + k]
  BY CappedKeepsTail
<1>4. DOMAIN Capped(h) = 1 .. Len(Capped(h)) /\ Len(Capped(h)) \in Nat
  BY <1>2, LenProperties
<1> SUFFICES ASSUME NEW i \in 1 .. Len(Capped(h)), NEW j \in 1 .. Len(Capped(h)),
                    Capped(h)[i] = Capped(h)[j]
             PROVE  i = j
  BY <1>4 DEF Distinct
<1>5. i + k \in DOMAIN h /\ j + k \in DOMAIN h
  BY <1>1, <1>3, <1>4
<1>6. h[i + k] = h[j + k]
  BY <1>3
<1>7. i + k = j + k
  BY <1>5, <1>6 DEF Distinct
<1> QED
  BY <1>4, <1>7

-----------------------------------------------------------------------------
(* The version an update writes                                            *)

(* A record whose parts are of the right type is a user record. *)
LEMMA RecordTyped ==
    ASSUME NEW g \in Nat, NEW s \in ClientState, NEW h \in Seq(ClientState),
           Len(h) <= MaxHistory
    PROVE  [generation |-> g, state |-> s, history |-> h] \in UserRecord
BY DEF UserRecord

LEMMA RecordParts ==
    ASSUME NEW v \in UserRecord
    PROVE  /\ v.generation \in Nat
           /\ v.state \in ClientState
           /\ v.history \in Seq(ClientState)
           /\ Len(v.history) <= MaxHistory
           /\ v # Absent
BY TokenAssumption DEF UserRecord

LEMMA NewUserSane ==
    ASSUME NEW s \in ClientState
    PROVE  /\ NewUser(s) \in UserRecord
           /\ NewUser(s).generation = 0
           /\ NewUser(s).state = s
           /\ Distinct(Append(NewUser(s).history, NewUser(s).state))
<1>1. << >> \in Seq(ClientState) /\ Len(<< >>) = 0
  BY EmptySeq
<1>2. MaxHistory \in Nat
  BY TokenAssumption
<1>3. NewUser(s) \in UserRecord
  <2>1. 0 \in Nat /\ 0 <= MaxHistory
    BY <1>2
  <2> QED
    BY <1>1, <2>1 DEF NewUser, UserRecord
<1>4. DOMAIN << >> = {}
  OBVIOUS
<1>5. Distinct(<< >>) /\ \A i \in DOMAIN << >> : << >>[i] # s
  BY <1>4 DEF Distinct
<1>6. Distinct(Append(<< >>, s))
  BY <1>1, <1>5, DistinctAppend
<1> QED
  BY <1>3, <1>6 DEF NewUser

(* The update writes a state that is nowhere in the history it writes, for *)
(* both come from the version that was checked.                            *)
LEMMA UpdatedSane ==
    ASSUME TypeOK, StatesDistinct, UserFound, UpdateChecked,
           NEW r \in Request, At(r, "update")
    PROVE  /\ user # Absent
           /\ Updated(r) \in UserRecord
           /\ Updated(r).generation = user.generation + 1
           /\ Updated(r).state = req[r].state
           /\ Distinct(Append(Updated(r).history, Updated(r).state))
<1> DEFINE v == req[r].seen
           s == req[r].state
           h == Append(v.history, v.state)
<1>1. user # Absent /\ v \in past /\ Fresh(s, v)
  BY DEF At, UserFound, UpdateChecked
<1>2. user \in UserRecord /\ user.generation \in Nat
  BY <1>1, RecordParts DEF TypeOK
<1>3. v \in UserRecord /\ s \in ClientState
  BY <1>1 DEF TypeOK, Invocation
<1>4. v.history \in Seq(ClientState) /\ v.state \in ClientState
  BY <1>3, RecordParts
<1>5. Distinct(h)
  BY <1>1 DEF StatesDistinct
<1>6. h \in Seq(ClientState)
  BY <1>4, AppendProperties
<1>7. \A i \in DOMAIN h : h[i] # s
  <2>1. DOMAIN v.history = 1 .. Len(v.history)
    BY <1>4, LenProperties
  <2>2. DOMAIN h = 1 .. Len(v.history) + 1
    BY <1>4, <1>6, AppendProperties, LenProperties
  <2>3. \A i \in 1 .. Len(v.history) : h[i] = v.history[i]
    BY <1>4, AppendProperties
  <2>4. h[Len(v.history) + 1] = v.state
    BY <1>4, AppendProperties, SMTT(40), ZenonT(40)
  <2>5. Len(v.history) \in Nat
    BY <1>4, LenProperties
  <2> QED
    BY <1>1, <2>1, <2>2, <2>3, <2>4, <2>5 DEF Fresh
<1> HIDE DEF h
<1>8. /\ Capped(h) \in Seq(ClientState)
      /\ Len(Capped(h)) <= MaxHistory
  BY <1>6, CappedKeepsTail
<1>9. \A i \in DOMAIN Capped(h) : Capped(h)[i] # s
  <2>1. PICK k \in Nat : /\ Len(Capped(h)) + k <= Len(h)
                         /\ \A i \in 1 .. Len(Capped(h)) : Capped(h)[i] = h[i + k]
    BY <1>6, CappedKeepsTail
  <2>2. DOMAIN Capped(h) = 1 .. Len(Capped(h)) /\ Len(Capped(h)) \in Nat
    BY <1>8, LenProperties
  <2>3. DOMAIN h = 1 .. Len(h) /\ Len(h) \in Nat
    BY <1>6, LenProperties
  <2> TAKE i \in DOMAIN Capped(h)
  <2>4. i + k \in DOMAIN h
    BY <2>1, <2>2, <2>3
  <2> QED
    BY <1>7, <2>1, <2>2, <2>4
<1>10. Distinct(Append(Capped(h), s))
  BY <1>3, <1>5, <1>6, <1>8, <1>9, DistinctCapped, DistinctAppend
<1>11. Updated(r) = [generation |-> user.generation + 1, state |-> s,
                     history |-> Capped(h)]
  BY DEF Updated, h
<1>12. user.generation + 1 \in Nat
  BY <1>2
<1>13. Updated(r) \in UserRecord
  BY <1>3, <1>8, <1>11, <1>12, RecordTyped
<1> QED
  BY <1>1, <1>10, <1>11, <1>13

-----------------------------------------------------------------------------
(* What a new version preserves                                            *)

(* A version that is the first one or one generation up keeps the record   *)
(* the newest and the versions in agreement, and vouches for itself.       *)
LEMMA CommitSane ==
    ASSUME TypeOK, Newest, VersionsAgree, StatesDistinct,
           NEW w \in UserRecord, Commit(w),
           user # Absent => w.generation = user.generation + 1,
           Distinct(Append(w.history, w.state))
    PROVE  /\ user' \in UserRecord \union {Absent}
           /\ past' \subseteq UserRecord
           /\ Newest'
           /\ VersionsAgree'
           /\ StatesDistinct'
           /\ user' # Absent
           /\ past \subseteq past'
           /\ w \in past'
<1>1. user' = w /\ past' = past \union {w} /\ w # Absent
  BY RecordParts DEF Commit
<1>2. past' \subseteq UserRecord
  BY <1>1 DEF TypeOK
<1>3. CASE user = Absent
  <2>1. past = {}
    BY <1>3 DEF Newest
  <2> QED
    BY <1>1, <1>2, <2>1, RecordParts DEF Newest, VersionsAgree, StatesDistinct
<1>4. CASE user # Absent
  <2>1. user \in UserRecord /\ user.generation \in Nat
    BY <1>4, RecordParts DEF TypeOK
  <2>2. \A v \in past : v.generation \in Nat /\ v.generation <= user.generation
    BY <1>4, RecordParts DEF TypeOK, Newest
  <2>3. w.generation \in Nat /\ w.generation = user.generation + 1
    BY <1>4, RecordParts
  <2>4. \A v \in past : v.generation < w.generation /\ v.generation # w.generation
    BY <2>1, <2>2, <2>3
  <2>5. Newest'
    BY <1>1, <2>2, <2>3, <2>4 DEF Newest
  <2>6. VersionsAgree'
    BY <1>1, <2>4 DEF VersionsAgree
  <2>7. StatesDistinct'
    BY <1>1 DEF StatesDistinct
  <2> QED
    BY <1>1, <1>2, <2>5, <2>6, <2>7
<1> QED
  BY <1>1, <1>3, <1>4

-----------------------------------------------------------------------------
(* What a step of one request must see to                                  *)

(* A request in its new shape q, at a moment when the versions are v. *)
Sound(q, there, versions) ==
    /\ q.pc \in {"get", "update"} => there
    /\ q.pc = "update" => q.seen \in versions /\ Fresh(q.state, q.seen)
    /\ q.pc \in {"store", "answer"} =>
          \E v \in versions : v.generation = q.generation /\ v.state = q.state

ReqInv ==
    /\ req \in [Request -> Invocation]
    /\ UserFound
    /\ UpdateChecked
    /\ GrantsVouched

(* The requests that do not move are as sound as they were, for versions   *)
(* are only added and the record stays.                                    *)
LEMMA ReqStep ==
    ASSUME TypeOK, ReqInv, NEW r \in Request, NEW q \in Invocation,
           req' = [req EXCEPT ![r] = q],
           past \subseteq past', user # Absent => user' # Absent,
           Sound(q, user' # Absent, past')
    PROVE  ReqInv'
<1>1. req \in [Request -> Invocation]
  BY DEF TypeOK
<1>2. req' \in [Request -> Invocation]
  BY <1>1
<1>3. req'[r] = q /\ \A o \in Request : o # r => req'[o] = req[o]
  BY <1>1
<1>4. UserFound'
  BY <1>3 DEF ReqInv, UserFound, Sound
<1>5. UpdateChecked'
  BY <1>3 DEF ReqInv, UpdateChecked, Sound
<1>6. GrantsVouched'
  BY <1>3 DEF ReqInv, GrantsVouched, Vouched, Sound
<1> QED
  BY <1>2, <1>4, <1>5, <1>6 DEF ReqInv

LEMMA IdleSane ==
    Idle \in Invocation /\ Idle.pc = "idle"
<1>1. NewUser(NoState) \in UserRecord
  BY NewUserSane, TokenAssumption
<1>2. 0 \in Nat
  OBVIOUS
<1> QED
  BY <1>1, <1>2, TokenAssumption DEF Idle, Invocation

LEMMA FinishSane ==
    ASSUME TypeOK, ReqInv, NEW r \in Request, Finish(r),
           past \subseteq past', user # Absent => user' # Absent
    PROVE  ReqInv'
<1>1. req' = [req EXCEPT ![r] = Idle]
  BY DEF Finish
<1>2. Sound(Idle, user' # Absent, past')
  BY IdleSane DEF Sound
<1> QED
  BY <1>1, <1>2, ReqStep, IdleSane

LEMMA GotoSane ==
    ASSUME TypeOK, ReqInv, NEW r \in Request,
           NEW label \in {"get", "answer"}, Goto(r, label),
           UNCHANGED <<user, past>>,
           label = "get" => user # Absent,
           label = "answer" => At(r, "store")
    PROVE  ReqInv'
<1> DEFINE q == [req[r] EXCEPT !.pc = label]
<1>1. req[r] \in Invocation /\ req \in [Request -> Invocation]
  BY DEF TypeOK
<1>2. req' = [req EXCEPT ![r] = q]
  BY <1>1 DEF Goto
<1>3. q \in Invocation
  BY <1>1 DEF Invocation
<1>4. /\ q.pc = label /\ q.generation = req[r].generation
      /\ q.state = req[r].state
  BY <1>1 DEF Invocation
<1>5. label = "answer" => Vouched(req[r].generation, req[r].state)
  BY DEF ReqInv, GrantsVouched, At
<1> HIDE DEF q
<1>6. Sound(q, user' # Absent, past')
  BY <1>4, <1>5 DEF Sound, Vouched
<1> QED
  BY <1>2, <1>3, <1>6, ReqStep

(* A grant is sound when some version has its generation and the state     *)
(* the device presented.                                                   *)
LEMMA GrantSane ==
    ASSUME TypeOK, ReqInv, NEW r \in Request, NEW v \in past',
           v.generation \in Nat, v.state = req[r].state,
           Grant(r, v.generation),
           past \subseteq past', user # Absent => user' # Absent
    PROVE  ReqInv'
<1> DEFINE q == [req[r] EXCEPT !.pc = "store",
                               !.generation = v.generation,
                               !.expiry = now + TokenDuration]
<1>1. req[r] \in Invocation /\ req \in [Request -> Invocation] /\ now \in Nat
  BY DEF TypeOK
<1>2. req' = [req EXCEPT ![r] = q]
  BY <1>1 DEF Grant
<1>3. now + TokenDuration \in Nat
  BY <1>1, TokenAssumption
<1>4. q \in Invocation
  BY <1>1, <1>3 DEF Invocation
<1>5. /\ q.pc = "store" /\ q.generation = v.generation
      /\ q.state = req[r].state
  BY <1>1 DEF Invocation
<1> HIDE DEF q
<1>6. Sound(q, user' # Absent, past')
  BY <1>5 DEF Sound
<1> QED
  BY <1>2, <1>4, <1>6, ReqStep

-----------------------------------------------------------------------------
(* The actions                                                             *)

RecordInv == Newest /\ VersionsAgree /\ StatesDistinct

LEMMA RecordKept ==
    ASSUME IInv, UNCHANGED <<user, past, issued>>
    PROVE  RecordInv' /\ IssuedVouched'
BY DEF IInv, RecordInv, Newest, VersionsAgree, StatesDistinct, IssuedVouched, Vouched

(* A step that moves one request and leaves the record alone. *)
LEMMA RequestOnly ==
    ASSUME IInv, ReqInv', UNCHANGED <<user, past, token, issued, now>>,
           arrived' \in Nat
    PROVE  IInv'
<1>1. RecordInv' /\ IssuedVouched'
  BY RecordKept
<1>2. TypeOK'
  BY DEF IInv, TypeOK, ReqInv
<1> QED
  BY <1>1, <1>2 DEF IInv, RecordInv, ReqInv

(* A step that commits a version. *)
LEMMA CommitOnly ==
    ASSUME IInv, ReqInv', UNCHANGED <<token, issued, arrived, now>>,
           NEW w \in UserRecord, Commit(w),
           user # Absent => w.generation = user.generation + 1,
           Distinct(Append(w.history, w.state))
    PROVE  IInv'
<1>1. /\ user' \in UserRecord \union {Absent}
      /\ past' \subseteq UserRecord
      /\ Newest' /\ VersionsAgree' /\ StatesDistinct'
      /\ past \subseteq past'
  BY CommitSane DEF IInv
<1>2. TypeOK'
  BY <1>1 DEF IInv, TypeOK, ReqInv
<1>3. IssuedVouched'
  BY <1>1 DEF IInv, IssuedVouched, Vouched
<1> QED
  BY <1>1, <1>2, <1>3 DEF IInv, ReqInv

LEMMA InvHasReqInv ==
    ASSUME IInv
    PROVE  ReqInv /\ TypeOK
BY DEF IInv, ReqInv, TypeOK

LEMMA ArriveStep ==
    ASSUME IInv, NEW r \in Request, Arrive(r)
    PROVE  IInv'
<1>1. UNCHANGED <<user, past, token, issued, now>> /\ arrived' = arrived + 1
  BY DEF Arrive
<1>2. PICK s \in ClientState :
         req' = [req EXCEPT ![r] = [Idle EXCEPT !.pc = "create", !.state = s,
                                                !.key = arrived + 1]]
  BY DEF Arrive
<1> DEFINE q == [Idle EXCEPT !.pc = "create", !.state = s, !.key = arrived + 1]
<1>3. arrived + 1 \in Nat
  BY InvHasReqInv DEF TypeOK
<1>4. q \in Invocation /\ q.pc = "create"
  BY <1>3, IdleSane DEF Invocation
<1>5. req' = [req EXCEPT ![r] = q]
  BY <1>2
<1> HIDE DEF q
<1>6. Sound(q, user' # Absent, past')
  BY <1>4 DEF Sound
<1>7. ReqInv'
  BY <1>1, <1>4, <1>5, <1>6, InvHasReqInv, ReqStep
<1> QED
  BY <1>1, <1>3, <1>7, RequestOnly

LEMMA CreateUserStep ==
    ASSUME IInv, NEW r \in Request, CreateUser(r)
    PROVE  IInv'
<1>1. UNCHANGED <<token, issued, arrived, now>>
  BY DEF CreateUser
<1>2. CASE user = Absent
  <2> DEFINE w == NewUser(req[r].state)
  <2>1. Commit(w) /\ Grant(r, 0)
    BY <1>2 DEF CreateUser
  <2>2. req[r].state \in ClientState
    BY InvHasReqInv DEF TypeOK, Invocation
  <2>3. /\ w \in UserRecord /\ w.generation = 0 /\ w.state = req[r].state
        /\ Distinct(Append(w.history, w.state))
    BY <2>2, NewUserSane
  <2> HIDE DEF w
  <2>4. past \subseteq past' /\ w \in past' /\ user' # Absent
    BY <1>2, <2>1, <2>3, CommitSane, InvHasReqInv DEF IInv
  <2>5. Grant(r, w.generation) /\ w.generation \in Nat
    BY <2>1, <2>3
  <2>6. ReqInv'
    BY <2>3, <2>4, <2>5, GrantSane, InvHasReqInv
  <2> QED
    BY <1>1, <1>2, <2>1, <2>3, <2>6, CommitOnly
<1>3. CASE user # Absent
  <2>1. Goto(r, "get") /\ UNCHANGED <<user, past>>
    BY <1>3 DEF CreateUser
  <2>2. ReqInv'
    BY <1>3, <2>1, GotoSane, InvHasReqInv
  <2>3. arrived' \in Nat
    BY <1>1, InvHasReqInv DEF TypeOK
  <2> QED
    BY <1>1, <2>1, <2>2, <2>3, RequestOnly
<1> QED
  BY <1>2, <1>3

LEMMA GetUserStep ==
    ASSUME IInv, NEW r \in Request, GetUser(r)
    PROVE  IInv'
<1>1. UNCHANGED <<user, past, token, issued, arrived, now>> /\ At(r, "get")
  BY DEF GetUser
<1>2. user # Absent
  BY <1>1 DEF IInv, UserFound, At
<1>3. Readable \subseteq past
  BY <1>2 DEF Readable, IInv, Newest
<1>4. \A v \in Readable : v \in UserRecord /\ v \in past'
  BY <1>1, <1>3, InvHasReqInv DEF TypeOK
<1>5. ASSUME Known(r) PROVE ReqInv'
  <2>1. PICK v \in Readable : v.state = req[r].state /\ Grant(r, v.generation)
    BY <1>5 DEF Known
  <2>2. v \in past' /\ v.generation \in Nat
    BY <1>4, RecordParts
  <2> QED
    BY <1>1, <2>1, <2>2, GrantSane, InvHasReqInv
<1>6. ASSUME Changed(r) PROVE ReqInv'
  <2>1. PICK v \in Readable : /\ v.state # req[r].state
                              /\ ~Used(req[r].state, v)
                              /\ req' = [req EXCEPT ![r].pc = "update",
                                                    ![r].seen = v]
    BY <1>6 DEF Changed
  <2> DEFINE q == [req[r] EXCEPT !.pc = "update", !.seen = v]
  <2>2. req[r] \in Invocation /\ req \in [Request -> Invocation]
    BY InvHasReqInv DEF TypeOK
  <2>3. v \in UserRecord /\ v \in past'
    BY <1>4
  <2>4. q \in Invocation /\ req' = [req EXCEPT ![r] = q]
    BY <2>1, <2>2, <2>3 DEF Invocation
  <2>5. q.pc = "update" /\ q.seen = v /\ q.state = req[r].state
    BY <2>2 DEF Invocation
  <2>6. Fresh(req[r].state, v)
    BY <2>1 DEF Used, Fresh
  <2> HIDE DEF q
  <2>7. Sound(q, user' # Absent, past')
    BY <1>1, <1>2, <2>3, <2>5, <2>6 DEF Sound
  <2> QED
    BY <1>1, <2>4, <2>7, ReqStep, InvHasReqInv
<1>7. ASSUME Rejected(r) PROVE ReqInv'
  <2>1. Finish(r)
    BY <1>7 DEF Rejected
  <2> QED
    BY <1>1, <2>1, FinishSane, InvHasReqInv
<1>8. ReqInv'
  BY <1>5, <1>6, <1>7 DEF GetUser
<1>9. arrived' \in Nat
  BY <1>1, InvHasReqInv DEF TypeOK
<1> QED
  BY <1>1, <1>8, <1>9, RequestOnly

LEMMA UpdateClientStateStep ==
    ASSUME IInv, NEW r \in Request, UpdateClientState(r)
    PROVE  IInv'
<1> DEFINE w == Updated(r)
<1>1. /\ At(r, "update") /\ Commit(w) /\ Grant(r, user'.generation)
      /\ UNCHANGED <<token, issued, arrived, now>>
  BY DEF UpdateClientState
<1>2. /\ user # Absent
      /\ w \in UserRecord
      /\ w.generation = user.generation + 1
      /\ w.state = req[r].state
      /\ Distinct(Append(w.history, w.state))
  BY <1>1, UpdatedSane DEF IInv
<1> HIDE DEF w
<1>3. past \subseteq past' /\ w \in past' /\ user' # Absent
  BY <1>1, <1>2, CommitSane DEF IInv
<1>4. Grant(r, w.generation) /\ w.generation \in Nat
  BY <1>1, <1>2, RecordParts DEF Commit
<1>5. ReqInv'
  BY <1>2, <1>3, <1>4, GrantSane, InvHasReqInv
<1> QED
  BY <1>1, <1>2, <1>5, CommitOnly

LEMMA StoreTokenStep ==
    ASSUME IInv, NEW r \in Request, StoreToken(r)
    PROVE  IInv'
<1>1. /\ At(r, "store") /\ Goto(r, "answer")
      /\ UNCHANGED <<user, past, issued, arrived, now>>
  BY DEF StoreToken
<1>2. ReqInv'
  BY <1>1, GotoSane, InvHasReqInv
<1>3. /\ req[r].generation \in Nat /\ req[r].expiry \in Nat
      /\ req[r].key \in Nat
  BY InvHasReqInv DEF TypeOK, Invocation
<1>4. token' \subseteq Token
  BY <1>3, InvHasReqInv DEF StoreToken, TypeOK, Token
<1>5. TypeOK'
  BY <1>1, <1>2, <1>4, InvHasReqInv DEF TypeOK, ReqInv
<1> QED
  BY <1>1, <1>2, <1>5, RecordKept DEF IInv, RecordInv, ReqInv

LEMMA AnswerStep ==
    ASSUME IInv, NEW r \in Request, Answer(r)
    PROVE  IInv'
<1> DEFINE c == [generation |-> req[r].generation, expiry |-> req[r].expiry,
                 key |-> req[r].key, state |-> req[r].state]
<1>1. /\ At(r, "answer") /\ issued' = issued \union {c} /\ Finish(r)
      /\ UNCHANGED <<user, past, token, arrived, now>>
  BY DEF Answer
<1>2. ReqInv'
  BY <1>1, FinishSane, InvHasReqInv
<1>3. req[r] \in Invocation
  BY InvHasReqInv DEF TypeOK
<1>4. c \in [generation : Nat, expiry : Nat, key : Nat, state : ClientState]
  BY <1>3 DEF Invocation
<1>5. Vouched(c.generation, c.state)
  BY <1>1 DEF IInv, GrantsVouched, At
<1> HIDE DEF c
<1>6. TypeOK'
  BY <1>1, <1>2, <1>4, InvHasReqInv DEF TypeOK, ReqInv
<1>7. IssuedVouched'
  BY <1>1, <1>5 DEF IInv, IssuedVouched, Vouched
<1>8. RecordInv'
  BY <1>1 DEF IInv, RecordInv, Newest, VersionsAgree, StatesDistinct
<1> QED
  BY <1>2, <1>6, <1>7, <1>8 DEF IInv, RecordInv, ReqInv

LEMMA CrashStep ==
    ASSUME IInv, NEW r \in Request, Crash(r)
    PROVE  IInv'
<1>1. Finish(r) /\ UNCHANGED <<user, past, token, issued, arrived, now>>
  BY DEF Crash
<1>2. ReqInv'
  BY <1>1, FinishSane, InvHasReqInv
<1>3. arrived' \in Nat
  BY <1>1, InvHasReqInv DEF TypeOK
<1> QED
  BY <1>1, <1>2, <1>3, RequestOnly

(* The environment leaves the requests alone. *)
LEMMA ReqKept ==
    ASSUME IInv, UNCHANGED req, past \subseteq past', user # Absent => user' # Absent
    PROVE  ReqInv'
BY DEF IInv, TypeOK, ReqInv, UserFound, UpdateChecked, GrantsVouched, Vouched

LEMMA IncrementGenerationStep ==
    ASSUME IInv, IncrementGeneration
    PROVE  IInv'
<1> DEFINE w == [user EXCEPT !.generation = @ + 1]
<1>1. /\ user # Absent /\ Commit(w)
      /\ UNCHANGED <<token, req, issued, arrived, now>>
  BY DEF IncrementGeneration
<1>2. user \in UserRecord /\ user \in past
  BY <1>1, InvHasReqInv DEF TypeOK, IInv, Newest
<1>3. /\ user.generation \in Nat /\ user.state \in ClientState
      /\ user.history \in Seq(ClientState) /\ Len(user.history) <= MaxHistory
  BY <1>2, RecordParts
<1>4. w = [generation |-> user.generation + 1, state |-> user.state,
           history |-> user.history]
  BY <1>2 DEF UserRecord
<1>5. w \in UserRecord
  <2>1. user.generation + 1 \in Nat
    BY <1>3
  <2> QED
    BY <1>3, <1>4, <2>1, RecordTyped
<1>6. Distinct(Append(w.history, w.state))
  BY <1>2, <1>4 DEF IInv, StatesDistinct
<1>7. w.generation = user.generation + 1
  BY <1>4
<1> HIDE DEF w
<1>8. past \subseteq past' /\ user' # Absent
  BY <1>1, <1>5, <1>6, <1>7, CommitSane DEF IInv
<1>9. ReqInv'
  BY <1>1, <1>8, ReqKept
<1> QED
  BY <1>1, <1>5, <1>6, <1>7, <1>9, CommitOnly

LEMMA SweepTokenStep ==
    ASSUME IInv, SweepToken
    PROVE  IInv'
<1>1. token' \subseteq token /\ UNCHANGED <<user, past, req, issued, arrived, now>>
  BY DEF SweepToken
<1>2. ReqInv'
  BY <1>1, ReqKept
<1>3. TypeOK'
  BY <1>1, InvHasReqInv DEF TypeOK
<1> QED
  BY <1>1, <1>2, <1>3, RecordKept DEF IInv, RecordInv, ReqInv

LEMMA TickStep ==
    ASSUME IInv, Tick
    PROVE  IInv'
<1>1. now' = now + 1 /\ UNCHANGED <<user, past, token, req, issued, arrived>>
  BY DEF Tick
<1>2. ReqInv'
  BY <1>1, ReqKept
<1>3. TypeOK'
  BY <1>1, InvHasReqInv DEF TypeOK
<1> QED
  BY <1>1, <1>2, <1>3, RecordKept DEF IInv, RecordInv, ReqInv

-----------------------------------------------------------------------------
(* The theorems                                                            *)

LEMMA InitInv == Init => IInv
<1> SUFFICES ASSUME Init PROVE IInv
  OBVIOUS
<1>1. TypeOK
  BY IdleSane DEF Init, TypeOK
<1>2. Newest /\ VersionsAgree /\ StatesDistinct /\ IssuedVouched
  BY DEF Init, Newest, VersionsAgree, StatesDistinct, IssuedVouched
<1>3. UserFound /\ UpdateChecked /\ GrantsVouched
  BY IdleSane DEF Init, UserFound, UpdateChecked, GrantsVouched
<1> QED
  BY <1>1, <1>2, <1>3 DEF IInv

LEMMA NextInv == IInv /\ [Next]_vars => IInv'
<1> SUFFICES ASSUME IInv, [Next]_vars PROVE IInv'
  OBVIOUS
<1>1. ASSUME NEW r \in Request, Arrive(r) PROVE IInv'
  BY <1>1, ArriveStep
<1>2. ASSUME NEW r \in Request, Handle(r) PROVE IInv'
  BY <1>2, CreateUserStep, GetUserStep, UpdateClientStateStep, StoreTokenStep,
     AnswerStep DEF Handle
<1>3. ASSUME NEW r \in Request, Crash(r) PROVE IInv'
  BY <1>3, CrashStep
<1>4. CASE IncrementGeneration \/ SweepToken \/ Tick
  BY <1>4, IncrementGenerationStep, SweepTokenStep, TickStep
<1>5. CASE UNCHANGED vars
  <2>1. UNCHANGED <<user, past, token, req, issued, arrived, now>>
    BY <1>5 DEF vars
  <2>2. ReqInv'
    BY <2>1, ReqKept
  <2>3. arrived' \in Nat
    BY <2>1, InvHasReqInv DEF TypeOK
  <2> QED
    BY <2>1, <2>2, <2>3, RequestOnly
<1> QED
  BY <1>1, <1>2, <1>3, <1>4, <1>5 DEF Next

(* Every reachable state is of the right type, and no history outgrows     *)
(* MAX_CLIENT_STATE_HISTORY.                                               *)
THEOREM TokenTyped == Spec => []TypeOK
<1>1. IInv => TypeOK
  BY DEF IInv
<1> QED
  BY <1>1, InitInv, NextInv, PTL DEF Spec

(* Devices that hold credentials of one generation, and so of one storage  *)
(* uid, presented the same client state, whatever requests run at the same *)
(* time, die in between or read old versions of the user record.           *)
THEOREM UidNamesState == Spec => []OneStatePerGeneration
<1>1. IInv => OneStatePerGeneration
  <2> SUFFICES ASSUME IInv, NEW c \in issued, NEW d \in issued,
                      c.generation = d.generation
               PROVE  c.state = d.state
    BY DEF OneStatePerGeneration
  <2>1. PICK v \in past : v.generation = c.generation /\ v.state = c.state
    BY DEF IInv, IssuedVouched, Vouched
  <2>2. PICK w \in past : w.generation = d.generation /\ w.state = d.state
    BY DEF IInv, IssuedVouched, Vouched
  <2> QED
    BY <2>1, <2>2 DEF IInv, VersionsAgree
<1> QED
  BY <1>1, InitInv, NextInv, PTL DEF Spec

(* No version of the user record names a client state twice, although the  *)
(* state is checked against one version and written over another.          *)
THEOREM HistoryDistinct == Spec => []StatesDistinct
<1>1. IInv => StatesDistinct
  BY DEF IInv
<1> QED
  BY <1>1, InitInv, NextInv, PTL DEF Spec
=============================================================================
