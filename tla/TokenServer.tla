---------------------------- MODULE TokenServer ----------------------------
(***************************************************************************)
(* The token server for one user (services/user_manager.py,                *)
(* services/token_generator.py, routes/token/request.py and the issuing    *)
(* half of services/hawk_service.py).  Devices trade a client state, the   *)
(* fingerprint of their encryption key, for storage credentials.  The user *)
(* record counts the changes of the client state in its generation, and    *)
(* the storage uid is a hash of user and generation.                       *)
(*                                                                         *)
(* One action is one DynamoDB call with the local computation after it.    *)
(* Records of different users never meet, so one user is enough.           *)
(***************************************************************************)
EXTENDS Integers, Sequences, FiniteSets

CONSTANTS
    Request,          \* concurrent invocations
    ClientState,      \* values of the X-Client-State header
    NoState,          \* the empty one, also the default
    Absent,           \* no user record
    MaxHistory,       \* MAX_CLIENT_STATE_HISTORY
    TokenDuration,    \* TOKEN_DURATION, in seconds
    StaleReads,       \* whether get_item may return an earlier version
    MaxRequests,      \* bound: requests
    MaxIncrements,    \* bound: generations
    MaxTime           \* bound: the clock

ASSUME TokenAssumption ==
    /\ NoState \in ClientState
    /\ Absent \notin [generation : Nat, state : ClientState,
                     history : Seq(ClientState)]
    /\ MaxHistory \in Nat \ {0}
    /\ TokenDuration \in Nat \ {0}
    /\ StaleReads \in BOOLEAN
    /\ {MaxRequests, MaxIncrements, MaxTime} \subseteq Nat

VARIABLES
    user,      \* the item USER#id, or Absent
    past,      \* every version the item has had
    token,     \* the items TOKEN#hawk_id; the id is generation and expiry
    req,       \* what each invocation is doing
    issued,    \* the credentials devices were given
    arrived,   \* requests so far, which also numbers the random keys
    now        \* time.time() in whole seconds

vars == <<user, past, token, req, issued, arrived, now>>

(* UserRecord, without the account id and the times of its changes. *)
UserRecord ==
    {v \in [generation : Nat, state : ClientState, history : Seq(ClientState)] :
        Len(v.history) <= MaxHistory}

Token == [generation : Nat, expiry : Nat, key : Nat]

(* A request: its next call, the client state it presents, the key it will *)
(* hand out, the version of the user it read and the grant it worked out.  *)
Invocation ==
    [pc : {"idle", "create", "get", "update", "store", "answer"},
     state : ClientState, key : Nat, generation : Nat, expiry : Nat,
     seen : UserRecord]

NewUser(s) == [generation |-> 0, state |-> s, history |-> <<>>]

Idle == [pc |-> "idle", state |-> NoState, key |-> 0, generation |-> 0,
         expiry |-> 0, seen |-> NewUser(NoState)]

Init ==
    /\ user = Absent
    /\ past = {}
    /\ token = {}
    /\ req = [r \in Request |-> Idle]
    /\ issued = {}
    /\ arrived = 0
    /\ now = 0

(***************************************************************************)
(* One request                                                             *)
(***************************************************************************)
At(r, label) == req[r].pc = label

Goto(r, label) == req' = [req EXCEPT ![r].pc = label]

(* The answer is an error, or the invocation is over. *)
Finish(r) == req' = [req EXCEPT ![r] = Idle]

(* A request with a valid bearer token and header arrives. *)
Arrive(r) ==
    /\ At(r, "idle")
    /\ arrived < MaxRequests
    /\ arrived' = arrived + 1
    /\ \E s \in ClientState :
          req' = [req EXCEPT ![r] =
                     [Idle EXCEPT !.pc = "create", !.state = s,
                                  !.key = arrived + 1]]
    /\ UNCHANGED <<user, past, token, issued, now>>

(* generate_hawk_credentials: the user record is settled, and the expiry   *)
(* is fixed before the credentials are stored.                             *)
Grant(r, generation) ==
    req' = [req EXCEPT ![r].pc = "store",
                       ![r].generation = generation,
                       ![r].expiry = now + TokenDuration]

Commit(v) ==
    /\ user' = v
    /\ past' = past \union {v}

CreateUser(r) ==
    /\ At(r, "create")
    /\ IF user = Absent
          THEN /\ Commit(NewUser(req[r].state))
               /\ Grant(r, 0)
          ELSE /\ Goto(r, "get")
               /\ UNCHANGED <<user, past>>
    /\ UNCHANGED <<token, issued, arrived, now>>

(* What validate_client_state refuses. *)
Used(s, v) ==
    \E i \in DOMAIN v.history :
        v.history[i] = s \/ (s = NoState /\ v.history[i] # NoState)

(* get_item without ConsistentRead may return an earlier version. *)
Readable == IF StaleReads THEN past ELSE {user}

Known(r) ==
    \E v \in Readable :
        /\ v.state = req[r].state
        /\ Grant(r, v.generation)

Changed(r) ==
    \E v \in Readable :
        /\ v.state # req[r].state
        /\ ~Used(req[r].state, v)
        /\ req' = [req EXCEPT ![r].pc = "update", ![r].seen = v]

(* 401 invalid-client-state; or 503, when an old replica knows no record. *)
Rejected(r) ==
    /\ \/ StaleReads
       \/ \E v \in Readable :
             v.state # req[r].state /\ Used(req[r].state, v)
    /\ Finish(r)

GetUser(r) ==
    /\ At(r, "get")
    /\ Known(r) \/ Changed(r) \/ Rejected(r)
    /\ UNCHANGED <<user, past, token, issued, arrived, now>>

(* A slip: the slice keeps one entry more. *)
CappedLate(h) ==
    SubSeq(h, IF Len(h) > MaxHistory + 1 THEN Len(h) - MaxHistory ELSE 1, Len(h))

(* (current_history + [previous_client_state])[-MAX_CLIENT_STATE_HISTORY:] *)
Capped(h) ==
    SubSeq(h, IF Len(h) > MaxHistory THEN Len(h) - MaxHistory + 1 ELSE 1, Len(h))

(* A slip: the new generation is computed from the record that was read. *)
UpdatedFromRead(r) ==
    [generation |-> req[r].seen.generation + 1,
     state      |-> req[r].state,
     history    |-> Capped(Append(req[r].seen.history, req[r].seen.state))]

(* A slip: list_append puts the replaced state on the stored history. *)
UpdatedInPlace(r) ==
    [generation |-> user.generation + 1,
     state      |-> req[r].state,
     history    |-> Capped(Append(user.history, user.state))]

(* One unconditional update_item: generation is incremented in place, the  *)
(* history is the one that was read.                                       *)
Updated(r) ==
    [generation |-> user.generation + 1,
     state      |-> req[r].state,
     history    |-> Capped(Append(req[r].seen.history, req[r].seen.state))]

UpdateClientState(r) ==
    /\ At(r, "update")
    /\ Commit(Updated(r))
    /\ Grant(r, user'.generation)
    /\ UNCHANGED <<token, issued, arrived, now>>

(* put_item: an item with the same hawk id is replaced. *)
StoreToken(r) ==
    /\ At(r, "store")
    /\ LET g == req[r].generation
           x == req[r].expiry
       IN  token' = {t \in token : t.generation # g \/ t.expiry # x}
                       \union {[generation |-> g, expiry |-> x,
                                key |-> req[r].key]}
    /\ Goto(r, "answer")
    /\ UNCHANGED <<user, past, issued, arrived, now>>

(* The credentials reach the device, whose client state goes on record. *)
Answer(r) ==
    /\ At(r, "answer")
    /\ issued' = issued \union
          {[generation |-> req[r].generation, expiry |-> req[r].expiry,
            key |-> req[r].key, state |-> req[r].state]}
    /\ Finish(r)
    /\ UNCHANGED <<user, past, token, arrived, now>>

(***************************************************************************)
(* Everything else                                                         *)
(***************************************************************************)
(* UserManager.increment_generation; nothing in the repository calls it.   *)
IncrementGeneration ==
    /\ user # Absent
    /\ user.generation < MaxIncrements
    /\ Commit([user EXCEPT !.generation = @ + 1])
    /\ UNCHANGED <<token, req, issued, arrived, now>>

(* DynamoDB deletes an expired token, sooner or later. *)
SweepToken ==
    /\ \E t \in token : t.expiry < now /\ token' = token \ {t}
    /\ UNCHANGED <<user, past, req, issued, arrived, now>>

(* An invocation dies, or its answer is lost. *)
Crash(r) ==
    /\ ~At(r, "idle")
    /\ Finish(r)
    /\ UNCHANGED <<user, past, token, issued, arrived, now>>

Tick ==
    /\ now < MaxTime
    /\ now' = now + 1
    /\ UNCHANGED <<user, past, token, req, issued, arrived>>

Handle(r) ==
    \/ CreateUser(r)
    \/ GetUser(r)
    \/ UpdateClientState(r)
    \/ StoreToken(r)
    \/ Answer(r)

Next ==
    \/ \E r \in Request : Arrive(r) \/ Handle(r) \/ Crash(r)
    \/ IncrementGeneration \/ SweepToken \/ Tick

Spec == Init /\ [][Next]_vars

(***************************************************************************)
(* Properties                                                              *)
(***************************************************************************)
(* Types, and the cap of the history. *)
TypeOK ==
    /\ user \in UserRecord \union {Absent}
    /\ past \subseteq UserRecord
    /\ token \subseteq Token
    /\ req \in [Request -> Invocation]
    /\ issued \subseteq [generation : Nat, expiry : Nat, key : Nat,
                         state : ClientState]
    /\ arrived \in Nat
    /\ now \in Nat

(* Two devices that were given the same generation, and with it the same   *)
(* storage uid, presented the same client state: devices that encrypt with *)
(* different keys never believe that they share one storage, whatever      *)
(* updates of the client state run concurrently (update_user_client_state  *)
(* increments the generation in place and answers what it wrote).          *)
OneStatePerGeneration ==
    \A c, d \in issued : c.generation = d.generation => c.state = d.state

(* Neither the client state of a user record nor one in its history occurs *)
(* in it twice, although validate_client_state checks one version of the   *)
(* record and update_user_client_state overwrites another.                 *)
Distinct(h) == \A i, j \in DOMAIN h : h[i] = h[j] => i = j
StatesDistinct == \A v \in past : Distinct(Append(v.history, v.state))
=============================================================================
